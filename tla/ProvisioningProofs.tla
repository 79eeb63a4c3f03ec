-------------------------- MODULE ProvisioningProofs --------------------------
(***************************************************************************)
(* Proofs about the path of a request, for every set of requests, callers  *)
(* and queues' workers, every burst, and any number of restarts.           *)
(***************************************************************************)
EXTENDS Provisioning, FiniteSetTheorems, TLAPS

LEMMA AtMostIsMin ==
  ASSUME NEW a \in Nat, NEW b \in Nat
  PROVE  AtMost(a, b) \in Nat /\ AtMost(a, b) <= a /\ AtMost(a, b) <= b
BY DEF AtMost

LEMMA LaneFacts == PoolQueue \in Lane /\ SharedQueue \in Lane /\ Nowhere \notin Lane
BY ProvisioningAssumption DEF Lane

(* What a list holds, and in which order, when it loses or gains one end.   *)
LEMMA TailFacts ==
  ASSUME NEW s \in Seq(Request), s # <<>>
  PROVE  /\ Head(s) \in InList(s) /\ InList(Tail(s)) \subseteq InList(s)
         /\ \A x \in InList(Tail(s)) : Precedes(s, Head(s), x)
         /\ \A a, b : Precedes(Tail(s), a, b) => Precedes(s, a, b)
<1>1. Len(s) \in Nat \ {0} /\ Tail(s) \in Seq(Request) /\ Len(Tail(s)) = Len(s) - 1
  OBVIOUS
<1>2. \A i \in 1 .. Len(Tail(s)) : Tail(s)[i] = s[i + 1]
  OBVIOUS
<1>3. Head(s) = s[1]
  OBVIOUS
<1>4. Head(s) \in InList(s) /\ InList(Tail(s)) \subseteq InList(s)
  BY <1>1, <1>2, <1>3 DEF InList
<1>5. ASSUME NEW x \in InList(Tail(s)) PROVE Precedes(s, Head(s), x)
  <2>1. PICK i \in 1 .. Len(Tail(s)) : Tail(s)[i] = x
    BY DEF InList
  <2>2. 1 \in 1 .. Len(s) /\ i + 1 \in 1 .. Len(s) /\ 1 < i + 1 /\ s[i + 1] = x
    BY <1>1, <1>2, <2>1
  <2> QED BY <1>3, <2>2 DEF Precedes
<1>6. ASSUME NEW a, NEW b, Precedes(Tail(s), a, b) PROVE Precedes(s, a, b)
  <2>1. PICK i, j \in 1 .. Len(Tail(s)) : i < j /\ Tail(s)[i] = a /\ Tail(s)[j] = b
    BY <1>6 DEF Precedes
  <2>2. i + 1 \in 1 .. Len(s) /\ j + 1 \in 1 .. Len(s) /\ i + 1 < j + 1
        /\ s[i + 1] = a /\ s[j + 1] = b
    BY <1>1, <1>2, <2>1
  <2> QED BY <2>2 DEF Precedes
<1> QED BY <1>4, <1>5, <1>6

LEMMA AppendFacts ==
  ASSUME NEW s \in Seq(Request), NEW x \in Request
  PROVE  /\ Append(s, x) \in Seq(Request) /\ InList(Append(s, x)) = InList(s) \cup {x}
         /\ \A a, b : Precedes(Append(s, x), a, b) =>
              Precedes(s, a, b) \/ (b = x /\ a \in InList(s))
<1>1. /\ Append(s, x) \in Seq(Request) /\ Len(Append(s, x)) = Len(s) + 1 /\ Len(s) \in Nat
      /\ Append(s, x)[Len(s) + 1] = x
      /\ \A i \in 1 .. Len(s) : Append(s, x)[i] = s[i]
  OBVIOUS
<1>2. InList(Append(s, x)) = InList(s) \cup {x}
  BY <1>1 DEF InList
<1>3. ASSUME NEW a, NEW b, Precedes(Append(s, x), a, b)
      PROVE  Precedes(s, a, b) \/ (b = x /\ a \in InList(s))
  <2>1. PICK i, j \in 1 .. Len(s) + 1 : i < j /\ Append(s, x)[i] = a /\ Append(s, x)[j] = b
    BY <1>1, <1>3 DEF Precedes
  <2>2. i \in 1 .. Len(s) /\ s[i] = a
    BY <1>1, <2>1
  <2>3. CASE j = Len(s) + 1
    BY <1>1, <2>1, <2>2, <2>3 DEF InList
  <2>4. CASE j # Len(s) + 1
    <3>1. j \in 1 .. Len(s) /\ s[j] = b
      BY <1>1, <2>1, <2>4
    <3> QED BY <2>1, <2>2, <3>1 DEF Precedes
  <2> QED BY <2>3, <2>4
<1> QED BY <1>1, <1>2, <1>3

LEMMA RemovedFacts ==
  ASSUME NEW s \in Seq(Request), NEW x \in Request
  PROVE  /\ Removed(s, x) \in Seq(Request) /\ InList(Removed(s, x)) \subseteq InList(s)
         /\ \A a, b : Precedes(Removed(s, x), a, b) => Precedes(s, a, b)
<1>1. CASE x \notin InList(s)
  BY <1>1 DEF Removed
<1>2. CASE x \in InList(s)
  <2> DEFINE i == CHOOSE k \in 1 .. Len(s) : s[k] = x
             t == [k \in 1 .. Len(s) - 1 |-> IF k < i THEN s[k] ELSE s[k + 1]]
             pos(k) == IF k < i THEN k ELSE k + 1
  <2>1. i \in 1 .. Len(s)
    BY <1>2 DEF InList
  <2>2. Len(s) \in Nat /\ \A k \in 1 .. Len(s) : s[k] \in Request
    OBVIOUS
  <2>3. Removed(s, x) = t
    BY <1>2 DEF Removed
  <2> HIDE DEF i
  <2>4. \A k \in 1 .. Len(s) - 1 : pos(k) \in 1 .. Len(s) /\ t[k] = s[pos(k)]
    BY <2>1, <2>2
  <2>5. t \in Seq(Request) /\ Len(t) = Len(s) - 1
    <3>1. Len(s) - 1 \in Nat /\ t \in [1 .. Len(s) - 1 -> Request]
      BY <2>1, <2>2, <2>4
    <3> QED BY <3>1
  <2>6. \A k, m \in 1 .. Len(s) - 1 : k < m => pos(k) < pos(m)
    BY <2>1, <2>2
  <2> HIDE DEF t, pos
  <2>7. InList(t) \subseteq InList(s)
    BY <2>4, <2>5 DEF InList
  <2>8. ASSUME NEW a, NEW b, Precedes(t, a, b) PROVE Precedes(s, a, b)
    <3>1. PICK k, m \in 1 .. Len(s) - 1 : k < m /\ t[k] = a /\ t[m] = b
      BY <2>5, <2>8 DEF Precedes
    <3> QED BY <3>1, <2>4, <2>6 DEF Precedes
  <2> QED BY <2>3, <2>5, <2>7, <2>8
<1> QED BY <1>1, <1>2

LEMMA EmptyFacts == InList(<<>>) = {} /\ \A a, b : ~Precedes(<<>>, a, b)
BY DEF InList, Precedes

-----------------------------------------------------------------------------
(* The buckets. *)

LEMMA BurstFacts ==
  ASSUME NEW n \in 0 .. MaxWorkers
  PROVE  Burst * n \in Nat /\ Burst \in Nat /\ n \in Nat
<1>1. Burst \in Nat /\ n \in Nat
  BY ProvisioningAssumption
<1> QED BY <1>1

BucketType == [workers : 0 .. MaxWorkers, tokens : Nat]

LEMMA TunedFacts ==
  ASSUME NEW b \in BucketType, NEW n \in 1 .. MaxWorkers
  PROVE  /\ Tuned(b, n) \in BucketType /\ Tuned(b, n).workers # 0
         /\ Tuned(b, n).tokens <= IF b.workers = 0 THEN Burst * n ELSE b.tokens
<1>1. /\ Burst * n \in Nat
      /\ n \in 0 .. MaxWorkers /\ n # 0 /\ b.tokens \in Nat
  BY BurstFacts, ProvisioningAssumption DEF BucketType
<1>2. AtMost(b.tokens, Burst * n) \in Nat /\ AtMost(b.tokens, Burst * n) <= b.tokens
  BY <1>1, AtMostIsMin
<1>3. Tuned(b, n).workers = n
      /\ Tuned(b, n).tokens = IF b.workers = 0 THEN Burst * n ELSE AtMost(b.tokens, Burst * n)
  BY DEF Tuned
<1>4. Tuned(b, n) = [workers |-> Tuned(b, n).workers, tokens |-> Tuned(b, n).tokens]
  BY DEF Tuned
<1>5. Tuned(b, n).tokens \in Nat
      /\ Tuned(b, n).tokens <= IF b.workers = 0 THEN Burst * n ELSE b.tokens
  BY <1>1, <1>2, <1>3
<1> QED BY <1>1, <1>3, <1>4, <1>5 DEF BucketType

LEMMA RefilledFacts ==
  ASSUME NEW b \in BucketType
  PROVE  /\ Refilled(b) \in BucketType /\ Refilled(b).workers = b.workers
         /\ Refilled(b).tokens <= b.tokens + b.workers
<1>1. Burst * b.workers \in Nat /\ b.tokens + b.workers \in Nat
  BY ProvisioningAssumption DEF BucketType
<1> QED BY <1>1, AtMostIsMin DEF Refilled, BucketType

(* What a take leaves, and gives. *)
LEMMA TakeFacts ==
  ASSUME bucket \in [Lane -> BucketType], NEW q \in Lane, NEW n \in 1 .. MaxWorkers,
         NEW wanted \in Nat, NEW granted, Take(q, n, wanted, granted)
  PROVE  /\ granted \in Nat /\ bucket' \in [Lane -> BucketType]
         /\ \A p \in Lane \ {q} : bucket'[p] = bucket[p]
         /\ bucket'[q].workers # 0
         /\ bucket'[q].tokens + granted <=
              IF bucket[q].workers = 0 THEN Burst * n ELSE bucket[q].tokens
<1> DEFINE b == Tuned(bucket[q], n)
<1>1. /\ b \in BucketType /\ b.workers # 0
      /\ b.tokens <= IF bucket[q].workers = 0 THEN Burst * n ELSE bucket[q].tokens
  BY TunedFacts
<1>2. /\ granted = AtMost(wanted, b.tokens)
      /\ bucket' = [bucket EXCEPT ![q] = [b EXCEPT !.tokens = @ - granted]]
  BY DEF Take
<1> HIDE DEF b
<1>3. granted \in Nat /\ granted <= b.tokens /\ b.tokens \in Nat
  BY <1>1, <1>2, AtMostIsMin DEF BucketType
<1>4. [b EXCEPT !.tokens = @ - granted] \in BucketType
      /\ [b EXCEPT !.tokens = @ - granted].workers = b.workers
      /\ [b EXCEPT !.tokens = @ - granted].tokens = b.tokens - granted
  BY <1>1, <1>3 DEF BucketType
<1>5. bucket'[q] = [b EXCEPT !.tokens = @ - granted] /\ bucket' \in [Lane -> BucketType]
      /\ \A p \in Lane \ {q} : bucket'[p] = bucket[p]
  BY <1>2, <1>4
<1>6. bucket'[q].tokens + granted = b.tokens
  BY <1>3, <1>4, <1>5
<1> QED BY <1>1, <1>3, <1>4, <1>5, <1>6

(* What a new bucket is worth is counted. *)
LEMMA CountedFacts ==
  ASSUME earned \in [Lane -> 0 .. MaxEarned], NEW q \in Lane, NEW d \in Nat
  PROVE  /\ Counted(q, d) \in 0 .. MaxEarned
         /\ Counted(q, d) < MaxEarned => Counted(q, d) = earned[q] + d
         /\ Counted(q, 0) = earned[q]
BY ProvisioningAssumption DEF Counted, AtMost

LEMMA OpenedFacts ==
  ASSUME earned \in [Lane -> 0 .. MaxEarned], NEW q \in Lane, NEW n \in 1 .. MaxWorkers,
         Opened(q, n)
  PROVE  /\ earned' \in [Lane -> 0 .. MaxEarned]
         /\ \A p \in Lane \ {q} : earned'[p] = earned[p]
         /\ earned'[q] = Counted(q, IF bucket[q].workers = 0 THEN Burst * n ELSE 0)
<1>1. Burst * n \in Nat
  BY BurstFacts
<1>2. CASE bucket[q].workers = 0
  BY <1>1, <1>2, CountedFacts DEF Opened
<1>3. CASE bucket[q].workers # 0
  BY <1>3, CountedFacts DEF Opened
<1> QED BY <1>2, <1>3

-----------------------------------------------------------------------------
(* Types. *)

LEMMA InitType == ProvisioningInit => ProvisioningTypeOK
<1> SUFFICES ASSUME ProvisioningInit PROVE ProvisioningTypeOK
  OBVIOUS
<1>1. bucket \in [Lane -> BucketType]
  BY ProvisioningAssumption DEF ProvisioningInit, NoBucket, UsedUp, BucketType
<1>2. /\ pacer \in [todo : SUBSET Lane, lane : Lane \cup {Nowhere}, allowed : Nat]
      /\ earned \in [Lane -> 0 .. MaxEarned] /\ restarts \in 0 .. MaxRestarts
  BY ProvisioningAssumption DEF ProvisioningInit, Resting
<1> QED BY <1>1, <1>2 DEF ProvisioningInit, ProvisioningTypeOK, BucketType, HandlerSteps, SweepSteps

HandlerTypes ==
  /\ handler \in [Request -> HandlerSteps] /\ route \in [Request -> Lane \cup {Nowhere}]
  /\ ahead \in [Request -> SUBSET Request]
JobTypes ==
  /\ record \in [Request -> {"none", "queued", "held", "bare"}] /\ flagged \subseteq Request
  /\ job \in [Request -> {"none", "taken", "running"}]
ListTypes ==
  /\ pending \in [Lane -> Seq(Request)] /\ queue \in [Lane -> Seq(Request)]
  /\ admitted \in [Lane -> Nat]
PacerTypes ==
  /\ bucket \in [Lane -> BucketType]
  /\ pacer \in [todo : SUBSET Lane, lane : Lane \cup {Nowhere}, allowed : Nat]
SweepTypes ==
  /\ sweep \in SweepSteps /\ sweepJobs \subseteq Request
  /\ sighted \subseteq Request /\ caught \subseteq Request
TimeTypes == earned \in [Lane -> 0 .. MaxEarned] /\ restarts \in 0 .. MaxRestarts

LEMMA TypesTogether ==
  ProvisioningTypeOK <=> /\ HandlerTypes /\ JobTypes /\ ListTypes /\ PacerTypes
                         /\ SweepTypes /\ TimeTypes
BY DEF ProvisioningTypeOK, HandlerTypes, JobTypes, ListTypes, PacerTypes, SweepTypes,
       TimeTypes, BucketType

LEMMA TypesTogetherPrimed ==
  HandlerTypes' /\ JobTypes' /\ ListTypes' /\ PacerTypes' /\ SweepTypes' /\ TimeTypes'
    => ProvisioningTypeOK'
BY DEF ProvisioningTypeOK, HandlerTypes, JobTypes, ListTypes, PacerTypes, SweepTypes,
       TimeTypes, BucketType

LEMMA StepType == ProvisioningTypeOK /\ [ProvisioningNext]_provisioningVars => ProvisioningTypeOK'
<1> SUFFICES ASSUME ProvisioningTypeOK, [ProvisioningNext]_provisioningVars
             PROVE  HandlerTypes' /\ JobTypes' /\ ListTypes' /\ PacerTypes' /\ SweepTypes' /\ TimeTypes'
  BY TypesTogetherPrimed
<1>0. HandlerTypes /\ JobTypes /\ ListTypes /\ PacerTypes /\ SweepTypes /\ TimeTypes
  BY TypesTogether
<1> USE DEF askVars, jobVars, listVars, sweepVars, timeVars
<1>1. CASE UNCHANGED provisioningVars
  BY <1>0, <1>1 DEF provisioningVars, HandlerTypes, JobTypes, ListTypes, PacerTypes, SweepTypes,
     TimeTypes
<1>2. ASSUME NEW r \in Request, HandlerStep(r)
      PROVE  HandlerTypes' /\ JobTypes' /\ ListTypes' /\ PacerTypes' /\ SweepTypes' /\ TimeTypes'
  <2>1. CASE Guard(r)
    BY <1>0, <2>1 DEF Guard, HandlerTypes, JobTypes, ListTypes, PacerTypes, SweepTypes,
       TimeTypes, HandlerSteps
  <2>2. CASE WriteRecord(r)
    BY <1>0, <2>2 DEF WriteRecord, At, HandlerTypes, JobTypes, ListTypes, PacerTypes, SweepTypes,
       TimeTypes, HandlerSteps
  <2>3. CASE Measure(r)
    <3>1. TargetQueues(r) \subseteq Lane
      BY LaneFacts DEF TargetQueues
    <3>2. \A q \in TargetQueues(r) : InList(pending[q]) \in SUBSET Request
      BY <1>0, <3>1 DEF InList, ListTypes
    <3> QED BY <1>0, <2>3, <3>1, <3>2 DEF Measure, At, HandlerTypes, JobTypes, ListTypes, PacerTypes,
               SweepTypes, TimeTypes, HandlerSteps
  <2>4. CASE Decide(r)
    <3>1. /\ handler' \in [Request -> HandlerSteps]
          /\ UNCHANGED <<route, ahead, jobVars, listVars, pacer, sweepVars, restarts>>
      BY <1>0, <2>4 DEF Decide, HandlerTypes, HandlerSteps
    <3>2. bucket' \in [Lane -> BucketType] /\ earned' \in [Lane -> 0 .. MaxEarned]
      <4>1. CASE ahead[r] # {}
        BY <1>0, <2>4, <4>1 DEF Decide, PacerTypes, TimeTypes
      <4>2. CASE ahead[r] = {}
        <5>1. PICK n \in 1 .. MaxWorkers, granted \in {0, 1} : Take(route[r], n, 1, granted)
          BY <2>4, <4>2 DEF Decide, WorkersServing
        <5>2. CASE route[r] \in Lane
          BY <1>0, <5>1, <5>2, TakeFacts, OpenedFacts DEF PacerTypes, TimeTypes, Take
        <5>3. CASE route[r] \notin Lane
          BY <1>0, <5>1, <5>3 DEF Take, Opened, PacerTypes, TimeTypes
        <5> QED BY <5>2, <5>3
      <4> QED BY <4>1, <4>2
    <3> QED BY <1>0, <3>1, <3>2 DEF HandlerTypes, JobTypes, ListTypes, PacerTypes, SweepTypes,
               TimeTypes
  <2>5. CASE Push(r)
    <3>1. \A q \in Lane : Append(queue[q], r) \in Seq(Request)
      BY <1>0, AppendFacts DEF ListTypes
    <3>2. queue' \in [Lane -> Seq(Request)]
      BY <1>0, <2>5, <3>1 DEF Push, ListTypes
    <3>5. \A q \in Lane : admitted[q] + 1 \in Nat
      BY <1>0 DEF ListTypes
    <3>6. admitted' \in [Lane -> Nat]
      BY <1>0, <2>5, <3>5 DEF Push, ListTypes
    <3>3. pending' \in [Lane -> Seq(Request)] /\ admitted' \in [Lane -> Nat]
      BY <1>0, <2>5, <3>6 DEF Push, ListTypes
    <3>4. HandlerTypes'
      BY <1>0, <2>5 DEF Push, At, HandlerTypes, HandlerSteps
    <3> QED BY <1>0, <2>5, <3>2, <3>3, <3>4 DEF Push, JobTypes, ListTypes, PacerTypes,
               SweepTypes, TimeTypes
  <2>6. CASE Park(r)
    <3>1. \A q \in Lane : Append(pending[q], r) \in Seq(Request)
      BY <1>0, AppendFacts DEF ListTypes
    <3>2. pending' \in [Lane -> Seq(Request)]
      BY <1>0, <2>6, <3>1 DEF Park, ListTypes
    <3>3. queue' \in [Lane -> Seq(Request)] /\ admitted' \in [Lane -> Nat]
      BY <1>0, <2>6 DEF Park, ListTypes
    <3>4. HandlerTypes'
      BY <1>0, <2>6 DEF Park, At, HandlerTypes, HandlerSteps
    <3> QED BY <1>0, <2>6, <3>2, <3>3, <3>4 DEF Park, JobTypes, ListTypes, PacerTypes,
               SweepTypes, TimeTypes
  <2> QED BY <1>2, <2>1, <2>2, <2>3, <2>4, <2>5, <2>6 DEF HandlerStep
<1>3. CASE PacerStep
  <2>1. CASE PacerWakes
    BY <1>0, <2>1 DEF PacerWakes, KnownTargets, Resting, HandlerTypes, JobTypes, ListTypes,
       PacerTypes, SweepTypes, TimeTypes
  <2>2. ASSUME NEW q \in Lane, Drain(q)
        PROVE  HandlerTypes' /\ JobTypes' /\ ListTypes' /\ PacerTypes' /\ SweepTypes' /\ TimeTypes'
    <3>5. PICK n \in 1 .. MaxWorkers : \E granted \in 0 .. Burst * n :
            /\ Take(q, n, Burst * n, granted)
            /\ pacer' = [todo |-> pacer.todo \ {q}, lane |-> q, allowed |-> granted]
      BY <2>2 DEF Drain, WorkersServing
    <3>1. PICK granted \in 0 .. Burst * n :
            /\ Take(q, n, Burst * n, granted)
            /\ pacer' = [todo |-> pacer.todo \ {q}, lane |-> q, allowed |-> granted]
      BY <3>5
    <3>2. Burst * n \in Nat
      BY BurstFacts
    <3>3. bucket' \in [Lane -> BucketType] /\ granted \in Nat
      BY <1>0, <3>1, <3>2, TakeFacts DEF PacerTypes
    <3>6. earned' \in [Lane -> 0 .. MaxEarned]
      BY <1>0, <3>1, OpenedFacts DEF Take, TimeTypes
    <3>4. UNCHANGED <<askVars, jobVars, listVars, sweepVars, restarts>>
      BY <2>2 DEF Drain
    <3> QED BY <1>0, <3>1, <3>3, <3>4, <3>6 DEF HandlerTypes, JobTypes, ListTypes, PacerTypes, SweepTypes,
               TimeTypes
  <2>3. CASE MoveOne
    <3> DEFINE q == pacer.lane
    <3>1. q \in Lane /\ pacer.allowed - 1 \in Nat
      BY <1>0, <2>3 DEF MoveOne, PacerTypes
    <3>2. pending[q] \in Seq(Request) /\ pending[q] # <<>> /\ queue[q] \in Seq(Request)
      BY <1>0, <2>3, <3>1 DEF MoveOne, ListTypes
    <3>3. Tail(pending[q]) \in Seq(Request) /\ Append(queue[q], Head(pending[q])) \in Seq(Request)
      BY <3>2
    <3>4. pending' \in [Lane -> Seq(Request)] /\ queue' \in [Lane -> Seq(Request)]
      BY <1>0, <2>3, <3>3 DEF MoveOne, ListTypes
    <3>5. admitted' \in [Lane -> Nat]
      BY <1>0, <2>3, <3>1 DEF MoveOne, ListTypes
    <3>6. PacerTypes'
      BY <1>0, <2>3, <3>1 DEF MoveOne, PacerTypes
    <3> QED BY <1>0, <2>3, <3>4, <3>5, <3>6 DEF MoveOne, HandlerTypes, JobTypes, ListTypes,
               SweepTypes, TimeTypes
  <2>4. CASE Drained
    BY <1>0, <2>4 DEF Drained, HandlerTypes, JobTypes, ListTypes, PacerTypes, SweepTypes, TimeTypes
  <2> QED BY <1>3, <2>1, <2>2, <2>3, <2>4 DEF PacerStep
<1>4. CASE SweepStep
  <2>1. CASE SweepFlags
    BY <1>0, <2>1, ProvisioningAssumption DEF SweepFlags, HandlerTypes, JobTypes, ListTypes,
       PacerTypes, SweepTypes, TimeTypes, SweepSteps, SweepAfter
  <2>2. CASE SweepReads
    BY <1>0, <2>2 DEF SweepReads, HandlerTypes, JobTypes, ListTypes,
       PacerTypes, SweepTypes, TimeTypes, SweepSteps, SweepAfter
  <2>3. ASSUME NEW r \in Request, SweepRemoves(r)
        PROVE  HandlerTypes' /\ JobTypes' /\ ListTypes' /\ PacerTypes' /\ SweepTypes' /\ TimeTypes'
    <3>1. \A q \in Lane : /\ Removed(pending[q], r) \in Seq(Request)
                          /\ Removed(queue[q], r) \in Seq(Request)
      BY <1>0, RemovedFacts DEF ListTypes
    <3>2. ListTypes'
      BY <1>0, <2>3, <3>1 DEF SweepRemoves, ListTypes
    <3> QED BY <1>0, <2>3, <3>2 DEF SweepRemoves, HandlerTypes, JobTypes,
               PacerTypes, SweepTypes, TimeTypes
  <2>4. ASSUME NEW r \in Request, SweepDrops(r)
        PROVE  HandlerTypes' /\ JobTypes' /\ ListTypes' /\ PacerTypes' /\ SweepTypes' /\ TimeTypes'
    BY <1>0, <2>4 DEF SweepDrops, DoneWith, HandlerTypes, JobTypes, ListTypes,
       PacerTypes, SweepTypes, TimeTypes, SweepSteps, SweepAfter
  <2>5. CASE SweepSkips
    BY <1>0, <2>5 DEF SweepSkips, HandlerTypes, JobTypes, ListTypes, PacerTypes, SweepTypes,
       TimeTypes
  <2>6. ASSUME NEW r \in Request, SweepLooks(r)
        PROVE  HandlerTypes' /\ JobTypes' /\ ListTypes' /\ PacerTypes' /\ SweepTypes' /\ TimeTypes'
    BY <1>0, <2>6 DEF SweepLooks, DoneWith, HandlerTypes, JobTypes, ListTypes,
       PacerTypes, SweepTypes, TimeTypes, SweepSteps, SweepAfter
  <2> QED BY <1>4, <2>1, <2>2, <2>3, <2>4, <2>5, <2>6 DEF SweepStep
<1>5. CASE WorkerStep
  <2>1. ASSUME NEW q \in Lane, Pops(q)
        PROVE  HandlerTypes' /\ JobTypes' /\ ListTypes' /\ PacerTypes' /\ SweepTypes' /\ TimeTypes'
    <3>1. queue[q] \in Seq(Request) /\ queue[q] # <<>>
      BY <1>0, <2>1 DEF Pops, ListTypes
    <3>2. Tail(queue[q]) \in Seq(Request) /\ Head(queue[q]) \in Request
      BY <3>1
    <3> QED BY <1>0, <2>1, <3>2 DEF Pops, HandlerTypes, JobTypes, ListTypes, PacerTypes,
               SweepTypes, TimeTypes
  <2>2. ASSUME NEW r \in Request, Starts(r)
        PROVE  HandlerTypes' /\ JobTypes' /\ ListTypes' /\ PacerTypes' /\ SweepTypes' /\ TimeTypes'
    BY <1>0, <2>2 DEF Starts, HandlerTypes, JobTypes, ListTypes, PacerTypes, SweepTypes, TimeTypes
  <2> QED BY <1>5, <2>1, <2>2 DEF WorkerStep
<1>7. CASE Tick
  <2>1. \A q \in Lane : Refilled(bucket[q]) \in BucketType
    BY <1>0, RefilledFacts DEF PacerTypes
  <2>2. \A q \in Lane : Counted(q, bucket[q].workers) \in 0 .. MaxEarned
    BY <1>0, CountedFacts DEF PacerTypes, BucketType, TimeTypes
  <2> QED BY <1>0, <1>7, <2>1, <2>2 DEF Tick, HandlerTypes, JobTypes, ListTypes, PacerTypes,
             SweepTypes, TimeTypes
<1>8. CASE Restart
  <2>1. NoBucket \in BucketType
    BY ProvisioningAssumption DEF NoBucket, BucketType
  <2>2. Resting \in [todo : SUBSET Lane, lane : Lane \cup {Nowhere}, allowed : Nat]
    BY DEF Resting
  <2>3. restarts + 1 \in 0 .. MaxRestarts
    BY <1>0, <1>8, ProvisioningAssumption DEF Restart, TimeTypes
  <2> QED BY <1>0, <1>8, <2>1, <2>2, <2>3 DEF Restart, HandlerTypes, JobTypes, ListTypes, PacerTypes,
             SweepTypes, TimeTypes, HandlerSteps, SweepSteps, SweepAfter
<1> QED BY <1>1, <1>2, <1>3, <1>4, <1>5, <1>7, <1>8 DEF ProvisioningNext

(* Every variable keeps its type, whatever handlers, pacer, sweep, workers  *)
(* and restarts do.                                                         *)
THEOREM ProvisioningTypeCorrect == ProvisioningSpec => []ProvisioningTypeOK
BY InitType, StepType, PTL DEF ProvisioningSpec

-----------------------------------------------------------------------------
(* The order of arrival.  A request is in no list before its handler has    *)
(* answered; who was ahead of it had been answered by then, so neither the  *)
(* decision nor the push is theirs any more; and a request that goes past   *)
(* the pending list had nobody ahead.                                       *)

Listed(r) == \E q \in Lane : r \in InList(pending[q]) \cup InList(queue[q])

OrderInv ==
  /\ \A r \in Request : Listed(r) => handler[r] = "answered"
  /\ \A r \in Request : handler[r] \in {"new", "guarded", "recorded", "push"} => ahead[r] = {}
  /\ \A r \in Request : \A a \in ahead[r] : handler[a] = "answered"
  /\ \A r \in Request : ahead[r] # {} => route[r] \in Lane
  /\ NoOvertaking

LEMMA InitOrder == ProvisioningInit => OrderInv
BY EmptyFacts DEF ProvisioningInit, OrderInv, Listed, NoOvertaking

(* The lists may lose members and keep the order of the rest. *)
LEMMA Shrunk ==
  ASSUME OrderInv, HandlerTypes, UNCHANGED <<handler, route, ahead>>,
         \A q \in Lane : /\ InList(pending'[q]) \subseteq InList(pending[q])
                         /\ InList(queue'[q]) \subseteq InList(queue[q])
                         /\ \A a, b : Precedes(pending'[q], a, b) => Precedes(pending[q], a, b)
                         /\ \A a, b : Precedes(queue'[q], a, b) => Precedes(queue[q], a, b)
  PROVE  OrderInv'
<1>1. \A r \in Request : Listed(r)' => Listed(r)
  BY DEF Listed
<1>2. NoOvertaking'
  <2> SUFFICES ASSUME NEW r \in Request, NEW a \in ahead[r]
               PROVE  /\ ~Precedes(pending'[route[r]], r, a)
                      /\ ~Precedes(queue'[route[r]], r, a)
                      /\ ~(a \in InList(pending'[route[r]]) /\ r \in InList(queue'[route[r]]))
    BY DEF NoOvertaking
  <2>1. route[r] \in Lane
    BY DEF OrderInv
  <2> QED BY <2>1 DEF OrderInv, NoOvertaking
<1> QED BY <1>1, <1>2 DEF OrderInv

LEMMA StepOrder ==
  OrderInv /\ ProvisioningTypeOK /\ [ProvisioningNext]_provisioningVars => OrderInv'
<1> SUFFICES ASSUME OrderInv, ProvisioningTypeOK, [ProvisioningNext]_provisioningVars
             PROVE  OrderInv'
  OBVIOUS
<1>0. HandlerTypes /\ ListTypes /\ PacerTypes
  BY TypesTogether
<1> USE DEF askVars, jobVars, listVars, sweepVars, timeVars
<1>1. ASSUME UNCHANGED <<handler, route, ahead, pending, queue>> PROVE OrderInv'
  BY <1>0, <1>1, Shrunk
<1>2. ASSUME NEW r \in Request, HandlerStep(r) PROVE OrderInv'
  <2>1. CASE Guard(r) \/ WriteRecord(r)
    <3>1. UNCHANGED <<route, ahead, pending, queue>>
          /\ handler[r] \in {"new", "guarded"}
          /\ \E h \in {"guarded", "recorded", "deduped"} : handler' = [handler EXCEPT ![r] = h]
      BY <2>1 DEF Guard, WriteRecord, At
    <3> QED BY <1>0, <3>1 DEF OrderInv, Listed, NoOvertaking, HandlerTypes
  <2>2. CASE Measure(r)
    <3>0. PICK q \in TargetQueues(r) :
            route' = [route EXCEPT ![r] = q] /\ ahead' = [ahead EXCEPT ![r] = InList(pending[q])]
      BY <2>2 DEF Measure
    <3>1. q \in Lane
      BY LaneFacts DEF TargetQueues
    <3>2. /\ handler[r] = "recorded" /\ handler' = [handler EXCEPT ![r] = "measured"]
          /\ route' = [route EXCEPT ![r] = q] /\ ahead' = [ahead EXCEPT ![r] = InList(pending[q])]
          /\ pending' = pending /\ queue' = queue
      BY <2>2, <3>0 DEF Measure, At
    <3>3. ~Listed(r) /\ \A p \in Lane : r \notin InList(pending[p]) /\ r \notin InList(queue[p])
      BY <3>2 DEF OrderInv, Listed
    <3>4. \A a \in InList(pending[q]) : a \in Request /\ handler[a] = "answered"
      <4>1. InList(pending[q]) \subseteq Request
        BY <1>0, <3>1 DEF ListTypes, InList
      <4> QED BY <3>1, <4>1 DEF OrderInv, Listed
    <3>5. \A p \in Lane : \A a : ~Precedes(pending[p], r, a) /\ ~Precedes(queue[p], r, a)
      BY <3>3 DEF Precedes, InList
    <3>6. NoOvertaking'
      <4> SUFFICES ASSUME NEW s \in Request, NEW a \in ahead'[s]
                   PROVE  /\ ~Precedes(pending[route'[s]], s, a)
                          /\ ~Precedes(queue[route'[s]], s, a)
                          /\ ~(a \in InList(pending[route'[s]]) /\ s \in InList(queue[route'[s]]))
        BY <3>2 DEF NoOvertaking
      <4>1. CASE s = r
        BY <1>0, <3>1, <3>2, <3>3, <3>5, <4>1 DEF HandlerTypes
      <4>2. CASE s # r
        BY <1>0, <3>2, <4>2 DEF OrderInv, NoOvertaking, HandlerTypes
      <4> QED BY <4>1, <4>2
    <3>7. \A s \in Request : Listed(s)' => Listed(s)
      BY <3>2 DEF Listed
    <3> QED BY <1>0, <3>1, <3>2, <3>4, <3>6, <3>7 DEF OrderInv, HandlerTypes
  <2>3. CASE Decide(r)
    <3>1. UNCHANGED <<route, ahead, pending, queue>> /\ handler[r] = "measured"
          /\ \/ handler' = [handler EXCEPT ![r] = "park"]
             \/ handler' = [handler EXCEPT ![r] = "push"] /\ ahead[r] = {}
      BY <2>3 DEF Decide
    <3> QED BY <1>0, <3>1 DEF OrderInv, Listed, NoOvertaking, HandlerTypes
  <2>4. CASE Push(r) \/ Park(r)
    <3> DEFINE q == route[r]
    <3>1. /\ UNCHANGED <<route, ahead>> /\ handler' = [handler EXCEPT ![r] = "answered"]
          /\ handler[r] \in {"push", "park"}
          /\ \/ /\ handler[r] = "push" /\ pending' = pending
                /\ queue' = [queue EXCEPT ![q] = Append(@, r)]
             \/ /\ handler[r] = "park" /\ queue' = queue
                /\ pending' = [pending EXCEPT ![q] = Append(@, r)]
      BY <2>4 DEF Push, Park, At
    <3> HIDE DEF q
    <3>2. /\ \A p \in Lane : r \notin InList(pending[p]) /\ r \notin InList(queue[p])
          /\ \A s \in Request : r \notin ahead[s]
          /\ handler[r] = "push" => ahead[r] = {}
      BY <3>1 DEF OrderInv, Listed
    <3>3. \A p \in Lane :
            /\ InList(pending'[p]) \subseteq InList(pending[p]) \cup {r}
            /\ InList(queue'[p]) \subseteq InList(queue[p]) \cup {r}
            /\ \A a, b : Precedes(pending'[p], a, b) => Precedes(pending[p], a, b) \/ b = r
            /\ \A a, b : Precedes(queue'[p], a, b) => Precedes(queue[p], a, b) \/ b = r
            /\ handler[r] = "park" => queue'[p] = queue[p]
      <4> SUFFICES ASSUME NEW p \in Lane
                   PROVE  /\ InList(pending'[p]) \subseteq InList(pending[p]) \cup {r}
                          /\ InList(queue'[p]) \subseteq InList(queue[p]) \cup {r}
                          /\ \A a, b : Precedes(pending'[p], a, b) => Precedes(pending[p], a, b) \/ b = r
                          /\ \A a, b : Precedes(queue'[p], a, b) => Precedes(queue[p], a, b) \/ b = r
                          /\ handler[r] = "park" => queue'[p] = queue[p]
        OBVIOUS
      <4>1. \/ pending'[p] = pending[p]
            \/ pending'[p] = Append(pending[p], r)
        BY <1>0, <3>1 DEF ListTypes
      <4>2. \/ queue'[p] = queue[p]
            \/ queue'[p] = Append(queue[p], r)
        BY <1>0, <3>1 DEF ListTypes
      <4>3. pending[p] \in Seq(Request) /\ queue[p] \in Seq(Request)
        BY <1>0 DEF ListTypes
      <4>4. /\ InList(pending'[p]) \subseteq InList(pending[p]) \cup {r}
            /\ \A a, b : Precedes(pending'[p], a, b) => Precedes(pending[p], a, b) \/ b = r
        BY <4>1, <4>3, AppendFacts
      <4>5. /\ InList(queue'[p]) \subseteq InList(queue[p]) \cup {r}
            /\ \A a, b : Precedes(queue'[p], a, b) => Precedes(queue[p], a, b) \/ b = r
        BY <4>2, <4>3, AppendFacts
      <4>6. handler[r] = "park" => queue'[p] = queue[p]
        BY <3>1
      <4> QED BY <4>4, <4>5, <4>6
    <3>4. NoOvertaking'
      <4> SUFFICES ASSUME NEW s \in Request, NEW a \in ahead[s]
                   PROVE  /\ ~Precedes(pending'[route[s]], s, a)
                          /\ ~Precedes(queue'[route[s]], s, a)
                          /\ ~(a \in InList(pending'[route[s]]) /\ s \in InList(queue'[route[s]]))
        BY <3>1 DEF NoOvertaking
      <4>1. route[s] \in Lane /\ a # r
        BY <3>2 DEF OrderInv
      <4>2. s = r => handler[r] = "park" /\ r \notin InList(queue'[route[s]])
        BY <3>1, <3>2, <3>3, <4>1
      <4> QED BY <3>3, <4>1, <4>2 DEF OrderInv, NoOvertaking
    <3>5. \A s \in Request : Listed(s)' => Listed(s) \/ s = r
      BY <3>3 DEF Listed
    <3> QED BY <1>0, <3>1, <3>4, <3>5 DEF OrderInv, HandlerTypes
  <2> QED BY <1>2, <2>1, <2>2, <2>3, <2>4 DEF HandlerStep
<1>3. CASE MoveOne
  <2> DEFINE q == pacer.lane
             x == Head(pending[q])
  <2>1. q \in Lane
    BY <1>0, <1>3 DEF MoveOne, PacerTypes
  <2>2. /\ UNCHANGED <<handler, route, ahead>> /\ pending[q] # <<>>
        /\ pending' = [pending EXCEPT ![q] = Tail(@)]
        /\ queue' = [queue EXCEPT ![q] = Append(@, x)]
    BY <1>3 DEF MoveOne
  <2>3. pending[q] \in Seq(Request) /\ queue[q] \in Seq(Request)
    BY <1>0, <2>1 DEF ListTypes
  <2>4. x \in Request
    BY <2>2, <2>3
  <2> HIDE DEF q
  <2>5. /\ x \in InList(pending[q])
        /\ InList(Tail(pending[q])) \subseteq InList(pending[q])
        /\ \A y \in InList(Tail(pending[q])) : Precedes(pending[q], x, y)
        /\ \A a, b : Precedes(Tail(pending[q]), a, b) => Precedes(pending[q], a, b)
    BY <2>2, <2>3, TailFacts
  <2>6. /\ InList(Append(queue[q], x)) = InList(queue[q]) \cup {x}
        /\ \A a, b : Precedes(Append(queue[q], x), a, b) =>
             Precedes(queue[q], a, b) \/ (b = x /\ a \in InList(queue[q]))
    BY <2>3, <2>4, AppendFacts
  <2> HIDE DEF x
  <2>7. \A p \in Lane :
          \/ p # q /\ pending'[p] = pending[p] /\ queue'[p] = queue[p]
          \/ p = q /\ pending'[p] = Tail(pending[q]) /\ queue'[p] = Append(queue[q], x)
    BY <1>0, <2>1, <2>2 DEF ListTypes
  <2>8. NoOvertaking'
    <3> SUFFICES ASSUME NEW r \in Request, NEW a \in ahead[r]
                 PROVE  /\ ~Precedes(pending'[route[r]], r, a)
                        /\ ~Precedes(queue'[route[r]], r, a)
                        /\ ~(a \in InList(pending'[route[r]]) /\ r \in InList(queue'[route[r]]))
      BY <2>2 DEF NoOvertaking
    <3>1. /\ route[r] \in Lane
          /\ ~Precedes(pending[route[r]], r, a)
          /\ ~Precedes(queue[route[r]], r, a)
          /\ ~(a \in InList(pending[route[r]]) /\ r \in InList(queue[route[r]]))
      BY DEF OrderInv, NoOvertaking
    <3>2. CASE route[r] # q
      BY <2>7, <3>1, <3>2
    <3>3. CASE route[r] = q
      <4>1. pending'[q] = Tail(pending[q]) /\ queue'[q] = Append(queue[q], x)
        BY <2>1, <2>7
      <4> QED BY <2>5, <2>6, <3>1, <3>3, <4>1
    <3> QED BY <3>2, <3>3
  <2>9. \A s \in Request : Listed(s)' => Listed(s)
    <3> SUFFICES ASSUME NEW s \in Request, NEW p \in Lane,
                        s \in InList(pending'[p]) \cup InList(queue'[p])
                 PROVE  Listed(s)
      BY DEF Listed
    <3> QED BY <2>1, <2>5, <2>6, <2>7 DEF Listed
  <2> QED BY <2>2, <2>8, <2>9 DEF OrderInv
<1>4. ASSUME NEW r \in Request, SweepRemoves(r) PROVE OrderInv'
  <2>1. \A q \in Lane : /\ pending'[q] = pending[q] \/ pending'[q] = Removed(pending[q], r)
                        /\ queue'[q] = queue[q] \/ queue'[q] = Removed(queue[q], r)
    BY <1>4 DEF SweepRemoves
  <2>2. \A q \in Lane : pending[q] \in Seq(Request) /\ queue[q] \in Seq(Request)
    BY <1>0 DEF ListTypes
  <2>3. UNCHANGED <<handler, route, ahead>>
    BY <1>4 DEF SweepRemoves
  <2>4. \A q \in Lane : /\ InList(pending'[q]) \subseteq InList(pending[q])
                        /\ InList(queue'[q]) \subseteq InList(queue[q])
                        /\ \A a, b : Precedes(pending'[q], a, b) => Precedes(pending[q], a, b)
                        /\ \A a, b : Precedes(queue'[q], a, b) => Precedes(queue[q], a, b)
    BY <2>1, <2>2, RemovedFacts
  <2> QED BY <1>0, <2>3, <2>4, Shrunk
<1>5. ASSUME NEW q \in Lane, Pops(q) PROVE OrderInv'
  <2>1. /\ queue[q] \in Seq(Request) /\ queue[q] # <<>>
        /\ pending' = pending /\ queue' = [queue EXCEPT ![q] = Tail(@)]
        /\ UNCHANGED <<handler, route, ahead>>
    BY <1>0, <1>5 DEF Pops, ListTypes
  <2>2. \A p \in Lane : queue'[p] = queue[p] \/ (p = q /\ queue'[p] = Tail(queue[q]))
    BY <1>0, <2>1 DEF ListTypes
  <2>3. \A p \in Lane : /\ InList(queue'[p]) \subseteq InList(queue[p])
                        /\ \A a, b : Precedes(queue'[p], a, b) => Precedes(queue[p], a, b)
    BY <2>1, <2>2, TailFacts
  <2> QED BY <1>0, <2>1, <2>3, Shrunk
<1>6. CASE Restart
  <2>1. /\ UNCHANGED <<route, ahead, pending, queue>>
        /\ \A r \in Request : handler'[r] = IF InFlight(r) THEN "lost" ELSE handler[r]
    BY <1>6 DEF Restart
  <2>2. \A r \in Request : handler[r] = "answered" => handler'[r] = "answered"
    BY <2>1 DEF InFlight
  <2>3. \A r \in Request : handler'[r] # "lost" => handler'[r] = handler[r]
    BY <2>1
  <2> QED BY <1>0, <2>1, <2>2, <2>3 DEF OrderInv, Listed, NoOvertaking, HandlerTypes
<1>7. CASE PacerStep
  BY <1>1, <1>3, <1>7 DEF PacerStep, PacerWakes, Drain, Drained
<1>8. CASE SweepStep
  BY <1>1, <1>4, <1>8 DEF SweepStep, SweepFlags, SweepReads, SweepSkips, SweepLooks, SweepDrops
<1>9. CASE WorkerStep
  BY <1>1, <1>5, <1>9 DEF WorkerStep, Starts
<1>10. CASE Tick
  BY <1>1, <1>10 DEF Tick
<1>11. CASE UNCHANGED provisioningVars
  BY <1>1, <1>11 DEF provisioningVars
<1> QED BY <1>2, <1>6, <1>7, <1>8, <1>9, <1>10, <1>11 DEF ProvisioningNext

(* Nobody is overtaken by a request that found them waiting.                *)
THEOREM ArrivalOrderKept == ProvisioningSpec => []NoOvertaking
<1>1. ProvisioningSpec => []OrderInv
  BY InitOrder, StepOrder, ProvisioningTypeCorrect, PTL DEF ProvisioningSpec
<1>2. OrderInv => NoOvertaking
  BY DEF OrderInv
<1> QED BY <1>1, <1>2, PTL

-----------------------------------------------------------------------------
(* The pace.  What is still to come without new tokens is what the handlers *)
(* between their take and their push have, what is left of the pacer's      *)
(* allowance, and the tokens, if there is a bucket.                         *)

Pushing(q) == {r \in Request : handler[r] = "push" /\ route[r] = q}
InHand(q) == Cardinality(Pushing(q))
Allowance(q) == IF pacer.lane = q THEN pacer.allowed ELSE 0
Tokens(q) == IF bucket[q].workers = 0 THEN 0 ELSE bucket[q].tokens
Spent(q) == admitted[q] + InHand(q) + Allowance(q) + Tokens(q)

PaceInv == \A q \in Lane : earned[q] < MaxEarned => Spent(q) <= earned[q]

PaceTypesOK ==
  \A q \in Lane :
    /\ admitted[q] \in Nat /\ InHand(q) \in Nat /\ Allowance(q) \in Nat /\ Tokens(q) \in Nat
    /\ IsFiniteSet(Pushing(q)) /\ Spent(q) \in Nat /\ earned[q] \in Nat /\ MaxEarned \in Nat

LEMMA PaceTypes == ProvisioningTypeOK => PaceTypesOK
<1> SUFFICES ASSUME ProvisioningTypeOK, NEW q \in Lane
    PROVE  /\ admitted[q] \in Nat /\ InHand(q) \in Nat /\ Allowance(q) \in Nat /\ Tokens(q) \in Nat
           /\ IsFiniteSet(Pushing(q)) /\ Spent(q) \in Nat /\ earned[q] \in Nat /\ MaxEarned \in Nat
  BY DEF PaceTypesOK
<1>1. IsFiniteSet(Pushing(q))
  BY ProvisioningAssumption, FS_Subset DEF Pushing
<1>2. InHand(q) \in Nat
  BY <1>1, FS_CardinalityType DEF InHand
<1>3. /\ admitted[q] \in Nat /\ Allowance(q) \in Nat /\ Tokens(q) \in Nat
      /\ earned[q] \in Nat /\ MaxEarned \in Nat
  BY ProvisioningAssumption DEF ProvisioningTypeOK, Allowance, Tokens
<1> QED BY <1>1, <1>2, <1>3 DEF Spent

LEMMA InitPace == ProvisioningInit => PaceInv
<1> SUFFICES ASSUME ProvisioningInit, NEW q \in Lane
             PROVE  Spent(q) <= earned[q]
  BY DEF PaceInv
<1>1. Pushing(q) = {}
  BY DEF ProvisioningInit, Pushing
<1>2. InHand(q) = 0
  BY <1>1, FS_EmptySet DEF InHand
<1>3. admitted[q] = 0 /\ Allowance(q) = 0 /\ Tokens(q) = 0 /\ earned[q] = 0
  BY LaneFacts DEF ProvisioningInit, Allowance, Resting, NoBucket, UsedUp, Tokens
<1> QED BY <1>2, <1>3 DEF Spent

LEMMA PaceTypesPrimed == ProvisioningTypeOK' => PaceTypesOK'
BY PaceTypes, PTL

(* A step that spends no more than is counted of new tokens.                *)
LEMMA Balanced ==
  ASSUME PaceInv, ProvisioningTypeOK, ProvisioningTypeOK',
         \A q \in Lane : \E d \in Nat : earned'[q] = Counted(q, d) /\ Spent(q)' <= Spent(q) + d
  PROVE  PaceInv'
<1> SUFFICES ASSUME NEW q \in Lane, earned'[q] < MaxEarned
             PROVE  Spent(q)' <= earned'[q]
  BY DEF PaceInv
<1>1. Spent(q) \in Nat /\ earned[q] \in Nat /\ MaxEarned \in Nat
  BY PaceTypes DEF PaceTypesOK
<1>2. Spent(q)' \in Nat
  BY PaceTypesPrimed DEF PaceTypesOK
<1>3. PICK d \in Nat : earned'[q] = Counted(q, d) /\ Spent(q)' <= Spent(q) + d
  OBVIOUS
<1>4. earned'[q] = earned[q] + d
  BY <1>3, CountedFacts, TypesTogether DEF TimeTypes
<1>5. Spent(q) <= earned[q]
  BY <1>1, <1>4 DEF PaceInv
<1> QED BY <1>1, <1>2, <1>3, <1>4, <1>5

(* A step without new tokens. *)
LEMMA NoneEarned ==
  ASSUME PaceInv, ProvisioningTypeOK, ProvisioningTypeOK', earned' = earned,
         \A q \in Lane : Spent(q)' <= Spent(q)
  PROVE  PaceInv'
<1>1. ASSUME NEW q \in Lane
      PROVE  earned'[q] = Counted(q, 0) /\ Spent(q)' <= Spent(q) + 0
  <2>1. Counted(q, 0) = earned[q]
    BY CountedFacts, TypesTogether DEF TimeTypes
  <2>2. Spent(q) \in Nat
    BY PaceTypes DEF PaceTypesOK
  <2> QED BY <2>1, <2>2
<1> QED BY <1>1, Balanced

(* Only one request comes to its push, or leaves it, in a step.              *)
LEMMA SameHands ==
  ASSUME NEW q \in Lane, Pushing(q)' = Pushing(q) PROVE InHand(q)' = InHand(q)
BY DEF InHand

LEMMA StepPace ==
  /\ PaceInv /\ ProvisioningTypeOK /\ ProvisioningTypeOK'
  /\ [ProvisioningNext]_provisioningVars
  => PaceInv'
<1> SUFFICES ASSUME PaceInv, ProvisioningTypeOK, ProvisioningTypeOK',
                    [ProvisioningNext]_provisioningVars
             PROVE  PaceInv'
  OBVIOUS
<1>0. HandlerTypes /\ ListTypes /\ PacerTypes /\ TimeTypes /\ PaceTypesOK /\ PaceTypesOK'
  BY TypesTogether, PaceTypes, PaceTypesPrimed
<1> USE DEF askVars, jobVars, listVars, sweepVars, timeVars
<1>1. ASSUME UNCHANGED <<handler, route, admitted, pacer, bucket, earned>>
      PROVE  PaceInv'
  <2>1. \A q \in Lane : Pushing(q)' = Pushing(q)
    BY <1>1 DEF Pushing
  <2> QED BY <1>1, <2>1 DEF PaceInv, Spent, InHand, Allowance, Tokens
<1>2. ASSUME NEW r \in Request, Guard(r) \/ WriteRecord(r) \/ Measure(r) \/ Park(r)
      PROVE  PaceInv'
  <2>1. /\ UNCHANGED <<admitted, pacer, bucket, earned>>
        /\ \A s \in Request \ {r} : handler'[s] = handler[s] /\ route'[s] = route[s]
        /\ handler[r] # "push" /\ handler'[r] # "push"
    BY <1>0, <1>2 DEF Guard, WriteRecord, Measure, Park, At, HandlerTypes
  <2>2. \A q \in Lane : Pushing(q)' = Pushing(q)
    BY <2>1 DEF Pushing
  <2>3. \A q \in Lane : InHand(q)' = InHand(q) /\ Allowance(q)' = Allowance(q)
                        /\ Tokens(q)' = Tokens(q)
    BY <2>1, <2>2 DEF InHand, Allowance, Tokens
  <2> QED BY <1>0, <2>1, <2>3, NoneEarned DEF PaceTypesOK, Spent
<1>3. ASSUME NEW r \in Request, Push(r) PROVE PaceInv'
  <2>1. /\ handler[r] = "push" /\ handler' = [handler EXCEPT ![r] = "answered"]
        /\ admitted' = [admitted EXCEPT ![route[r]] = @ + 1]
        /\ UNCHANGED <<route, pacer, bucket, earned>>
    BY <1>3 DEF Push, At
  <2> SUFFICES ASSUME NEW q \in Lane
               PROVE  Spent(q)' <= Spent(q)
    BY <2>1, NoneEarned
  <2>2. Allowance(q)' = Allowance(q) /\ Tokens(q)' = Tokens(q)
    BY <2>1 DEF Allowance, Tokens
  <2>3. CASE q # route[r]
    <3>1. Pushing(q)' = Pushing(q) /\ admitted'[q] = admitted[q]
      BY <1>0, <2>1, <2>3 DEF Pushing, HandlerTypes, ListTypes
    <3> QED BY <1>0, <2>2, <3>1, SameHands DEF PaceTypesOK, Spent
  <2>4. CASE q = route[r]
    <3>1. Pushing(q)' = Pushing(q) \ {r} /\ r \in Pushing(q) /\ admitted'[q] = admitted[q] + 1
      BY <1>0, <2>1, <2>4 DEF Pushing, HandlerTypes, ListTypes
    <3>2. InHand(q)' = InHand(q) - 1
      BY <1>0, <3>1, FS_RemoveElement DEF InHand, PaceTypesOK
    <3> QED BY <1>0, <2>2, <3>1, <3>2 DEF PaceTypesOK, Spent
  <2> QED BY <2>3, <2>4
<1>t. ASSUME NEW p \in Lane, NEW n \in 1 .. MaxWorkers, NEW wanted \in Nat, NEW granted,
             Take(p, n, wanted, granted)
      PROVE  \E d \in Nat : /\ earned'[p] = Counted(p, d)
                            /\ Tokens(p)' \in Nat /\ granted \in Nat
                            /\ Tokens(p)' + granted <= Tokens(p) + d
  <2> DEFINE d == IF bucket[p].workers = 0 THEN Burst * n ELSE 0
  <2>1. d \in Nat
    BY BurstFacts
  <2>2. earned'[p] = Counted(p, d)
    BY <1>0, <1>t, OpenedFacts DEF Take, TimeTypes
  <2>3. /\ granted \in Nat /\ bucket'[p] \in BucketType /\ bucket'[p].workers # 0
        /\ bucket'[p].tokens + granted <= IF bucket[p].workers = 0 THEN Burst * n ELSE bucket[p].tokens
    BY <1>0, <1>t, TakeFacts DEF PacerTypes
  <2>4. Tokens(p)' = bucket'[p].tokens /\ Tokens(p)' \in Nat
    BY <2>3 DEF Tokens, BucketType
  <2>5. Tokens(p)' + granted <= Tokens(p) + d
    <3>1. CASE bucket[p].workers = 0
      BY <2>1, <2>3, <2>4, <3>1 DEF Tokens
    <3>2. CASE bucket[p].workers # 0
      BY <1>0, <2>1, <2>3, <2>4, <3>2 DEF Tokens, PaceTypesOK
    <3> QED BY <3>1, <3>2
  <2> HIDE DEF d
  <2> QED BY <2>1, <2>2, <2>3, <2>4, <2>5
<1>u. ASSUME NEW p \in Lane, NEW n, NEW wanted, NEW granted, Take(p, n, wanted, granted),
             NEW q \in Lane, q # p
      PROVE  earned'[q] = earned[q] /\ Tokens(q)' = Tokens(q)
  BY <1>0, <1>u DEF Take, Opened, Tokens, PacerTypes, TimeTypes
<1>z. \A q \in Lane : Counted(q, 0) = earned[q]
  BY <1>0, CountedFacts DEF TimeTypes
<1>4. ASSUME NEW r \in Request, Decide(r) PROVE PaceInv'
  <2> DEFINE p == route[r]
  <2>1. handler[r] = "measured" /\ UNCHANGED <<route, admitted, pacer>>
    BY <1>4 DEF Decide
  <2>2. \A q \in Lane : Allowance(q)' = Allowance(q) /\ admitted'[q] = admitted[q]
    BY <2>1 DEF Allowance
  <2>3. CASE handler' = [handler EXCEPT ![r] = "park"] /\ UNCHANGED <<bucket, earned>>
    <3>1. \A q \in Lane : Pushing(q)' = Pushing(q) /\ Tokens(q)' = Tokens(q)
      BY <1>0, <2>1, <2>3 DEF Pushing, HandlerTypes, Tokens
    <3> QED BY <1>0, <2>2, <2>3, <3>1, SameHands, NoneEarned DEF PaceTypesOK, Spent
  <2>4. ASSUME NEW n \in 1 .. MaxWorkers, NEW granted \in {0, 1}, Take(p, n, 1, granted),
               handler' = [handler EXCEPT ![r] = IF granted = 1 THEN "push" ELSE "park"]
        PROVE  PaceInv'
    <3> SUFFICES ASSUME NEW q \in Lane
                 PROVE  \E d \in Nat : earned'[q] = Counted(q, d) /\ Spent(q)' <= Spent(q) + d
      BY Balanced
    <3>0. p \notin Lane => q # p
      OBVIOUS
    <3>1. CASE q # p
      <4>1. Pushing(q)' = Pushing(q)
        BY <1>0, <2>1, <2>4, <3>1 DEF Pushing, HandlerTypes
      <4>2. earned'[q] = earned[q] /\ Tokens(q)' = Tokens(q)
        BY <1>0, <2>4, <3>1 DEF Take, Opened, Tokens, PacerTypes, TimeTypes
      <4>3. Spent(q)' <= Spent(q) + 0
        BY <1>0, <2>2, <4>1, <4>2, SameHands DEF PaceTypesOK, Spent
      <4> QED BY <1>z, <4>2, <4>3
    <3>2. CASE q = p
      <4>1. PICK d \in Nat : /\ earned'[q] = Counted(q, d)
                             /\ Tokens(q)' \in Nat /\ granted \in Nat
                             /\ Tokens(q)' + granted <= Tokens(q) + d
        BY <1>t, <2>4, <3>2
      <4>3. InHand(q)' = InHand(q) + granted
        <5>1. CASE granted = 0
          <6>1. Pushing(q)' = Pushing(q)
            BY <1>0, <2>1, <2>4, <5>1 DEF Pushing, HandlerTypes
          <6> QED BY <1>0, <5>1, <6>1, SameHands DEF PaceTypesOK
        <5>2. CASE granted = 1
          <6>1. Pushing(q)' = Pushing(q) \cup {r} /\ r \notin Pushing(q)
            BY <1>0, <2>1, <2>4, <3>2, <5>2 DEF Pushing, HandlerTypes
          <6> QED BY <1>0, <5>2, <6>1, FS_AddElement DEF InHand, PaceTypesOK
        <5> QED BY <5>1, <5>2
      <4>4. Spent(q)' <= Spent(q) + d
        BY <1>0, <2>2, <4>1, <4>3 DEF PaceTypesOK, Spent
      <4> QED BY <4>1, <4>4
    <3> QED BY <3>1, <3>2
  <2> QED BY <1>4, <2>3, <2>4 DEF Decide, WorkersServing
<1>5. ASSUME NEW p \in Lane, Drain(p) PROVE PaceInv'
  <2>1. PICK n \in 1 .. MaxWorkers : \E granted \in 0 .. Burst * n :
          /\ Take(p, n, Burst * n, granted)
          /\ pacer' = [todo |-> pacer.todo \ {p}, lane |-> p, allowed |-> granted]
    BY <1>5 DEF Drain, WorkersServing
  <2>2. PICK granted \in 0 .. Burst * n :
          /\ Take(p, n, Burst * n, granted)
          /\ pacer' = [todo |-> pacer.todo \ {p}, lane |-> p, allowed |-> granted]
    BY <2>1
  <2>3. pacer.lane = Nowhere /\ UNCHANGED <<handler, route, admitted>>
    BY <1>5 DEF Drain
  <2>4. Burst * n \in Nat
    BY BurstFacts
  <2> SUFFICES ASSUME NEW q \in Lane
               PROVE  \E d \in Nat : earned'[q] = Counted(q, d) /\ Spent(q)' <= Spent(q) + d
    BY Balanced
  <2>5. /\ Pushing(q)' = Pushing(q) /\ admitted'[q] = admitted[q] /\ Allowance(q) = 0
        /\ InHand(q)' = InHand(q)
    <3>1. Pushing(q)' = Pushing(q)
      BY <2>3 DEF Pushing
    <3> QED BY <2>3, <3>1, SameHands, LaneFacts DEF Allowance
  <2>6. CASE q # p
    <3>1. Allowance(q)' = 0 /\ Tokens(q)' = Tokens(q) /\ earned'[q] = earned[q]
      BY <1>u, <2>2, <2>6 DEF Allowance
    <3>2. Spent(q)' <= Spent(q) + 0
      BY <1>0, <2>5, <3>1 DEF PaceTypesOK, Spent
    <3> QED BY <1>z, <3>1, <3>2
  <2>7. CASE q = p
    <3>1. Allowance(q)' = granted
      BY <2>2, <2>7 DEF Allowance
    <3>2. PICK d \in Nat : /\ earned'[q] = Counted(q, d)
                           /\ Tokens(q)' \in Nat /\ granted \in Nat
                           /\ Tokens(q)' + granted <= Tokens(q) + d
      BY <1>t, <2>2, <2>4, <2>7
    <3>3. Spent(q)' <= Spent(q) + d
      BY <1>0, <2>5, <3>1, <3>2 DEF PaceTypesOK, Spent
    <3> QED BY <3>2, <3>3
  <2> QED BY <2>6, <2>7
<1>6. CASE MoveOne
  <2>1. /\ pacer.lane \in Lane /\ pacer.allowed > 0 /\ pacer.allowed \in Nat
        /\ pacer' = [pacer EXCEPT !.allowed = @ - 1]
        /\ admitted' = [admitted EXCEPT ![pacer.lane] = @ + 1]
        /\ UNCHANGED <<handler, route, bucket, earned>>
    BY <1>0, <1>6 DEF MoveOne, PacerTypes
  <2> SUFFICES ASSUME NEW q \in Lane
               PROVE  Spent(q)' <= Spent(q)
    BY <2>1, NoneEarned
  <2>2. Pushing(q)' = Pushing(q) /\ Tokens(q)' = Tokens(q)
    BY <2>1 DEF Pushing, Tokens
  <2>3. CASE q # pacer.lane
    <3>1. admitted'[q] = admitted[q] /\ Allowance(q)' = Allowance(q)
      BY <1>0, <2>1, <2>3 DEF ListTypes, PacerTypes, Allowance
    <3> QED BY <1>0, <2>2, <3>1, SameHands DEF PaceTypesOK, Spent
  <2>4. CASE q = pacer.lane
    <3>1. admitted'[q] = admitted[q] + 1 /\ Allowance(q)' = Allowance(q) - 1
      BY <1>0, <2>1, <2>4 DEF ListTypes, PacerTypes, Allowance
    <3> QED BY <1>0, <2>2, <3>1, SameHands DEF PaceTypesOK, Spent
  <2> QED BY <2>3, <2>4
<1>7. CASE PacerWakes \/ Drained
  <2>1. /\ UNCHANGED <<handler, route, admitted, bucket, earned>>
        /\ pacer'.lane = Nowhere
    BY <1>0, <1>7 DEF PacerWakes, Drained, Resting, PacerTypes
  <2>2. \A q \in Lane : /\ Pushing(q)' = Pushing(q) /\ Tokens(q)' = Tokens(q)
                        /\ Allowance(q)' = 0
    BY <2>1, LaneFacts DEF Pushing, Tokens, Allowance
  <2>3. \A q \in Lane : InHand(q)' = InHand(q)
    BY <2>2, SameHands
  <2> QED BY <1>0, <2>1, <2>2, <2>3, NoneEarned DEF PaceTypesOK, Spent
<1>8. CASE Tick
  <2>1. /\ UNCHANGED <<handler, route, admitted, pacer>>
        /\ earned' = [q \in Lane |-> Counted(q, bucket[q].workers)]
        /\ bucket' = [q \in Lane |-> Refilled(bucket[q])]
    BY <1>8 DEF Tick
  <2> SUFFICES ASSUME NEW q \in Lane
               PROVE  /\ bucket[q].workers \in Nat /\ earned'[q] = Counted(q, bucket[q].workers)
                      /\ Spent(q)' <= Spent(q) + bucket[q].workers
    BY Balanced
  <2>2. InHand(q)' = InHand(q) /\ Allowance(q)' = Allowance(q) /\ admitted'[q] = admitted[q]
    <3>1. Pushing(q)' = Pushing(q)
      BY <2>1 DEF Pushing
    <3> QED BY <2>1, <3>1 DEF InHand, Allowance
  <2>3. bucket[q] \in BucketType /\ bucket'[q] = Refilled(bucket[q])
    BY <1>0, <2>1 DEF PacerTypes
  <2>4. /\ bucket'[q].workers = bucket[q].workers
        /\ bucket'[q].tokens <= bucket[q].tokens + bucket[q].workers
        /\ bucket'[q] \in BucketType
    BY <2>3, RefilledFacts
  <2>5. bucket[q].workers \in Nat /\ Tokens(q)' <= Tokens(q) + bucket[q].workers
    BY <2>3, <2>4 DEF BucketType, Tokens
  <2>6. Spent(q)' <= Spent(q) + bucket[q].workers
    BY <1>0, <2>2, <2>5 DEF Spent, PaceTypesOK
  <2> QED BY <2>1, <2>5, <2>6
<1>9. CASE Restart
  <2>1. /\ admitted' = admitted /\ earned' = earned
        /\ pacer' = Resting /\ bucket' = [q \in Lane |-> NoBucket]
        /\ handler' = [r \in Request |-> IF InFlight(r) THEN "lost" ELSE handler[r]]
    BY <1>9 DEF Restart
  <2> SUFFICES ASSUME NEW q \in Lane
               PROVE  Spent(q)' <= Spent(q)
    BY <2>1, NoneEarned
  <2>2. Pushing(q)' = {}
    BY <2>1 DEF Pushing, InFlight
  <2>3. InHand(q)' = 0
    BY <2>2, FS_EmptySet DEF InHand
  <2>4. Allowance(q)' = 0 /\ Tokens(q)' = 0
    BY <2>1, LaneFacts DEF Allowance, Tokens, Resting, NoBucket
  <2> QED BY <1>0, <2>1, <2>3, <2>4 DEF Spent, PaceTypesOK
<1>10. CASE PacerStep
  BY <1>5, <1>6, <1>7, <1>10 DEF PacerStep
<1>11. CASE SweepStep
  BY <1>1, <1>11 DEF SweepStep, SweepFlags, SweepReads, SweepSkips, SweepRemoves, SweepLooks,
     SweepDrops
<1>12. CASE WorkerStep
  BY <1>1, <1>12 DEF WorkerStep, Pops, Starts
<1>14. ASSUME NEW r \in Request, HandlerStep(r) PROVE PaceInv'
  BY <1>2, <1>3, <1>4, <1>14 DEF HandlerStep
<1>15. CASE UNCHANGED provisioningVars
  BY <1>1, <1>15 DEF provisioningVars
<1> QED BY <1>8, <1>9, <1>10, <1>11, <1>12, <1>14, <1>15 DEF ProvisioningNext

(* No interleaving of handlers and pacer admits more than the workers were  *)
(* worth.                                                                   *)
THEOREM PaceKept == ProvisioningSpec => []PaceBound
<1>1. ProvisioningSpec => []PaceInv
  BY InitPace, StepPace, ProvisioningTypeCorrect, PTL DEF ProvisioningSpec
<1>2. PaceInv /\ ProvisioningTypeOK => PaceBound
  <2> SUFFICES ASSUME PaceInv, ProvisioningTypeOK, NEW q \in Lane, earned[q] < MaxEarned
               PROVE  admitted[q] <= earned[q]
    BY DEF PaceBound
  <2> QED BY PaceTypes DEF PaceInv, PaceTypesOK, Spent
<1> QED BY <1>1, <1>2, ProvisioningTypeCorrect, PTL
-----------------------------------------------------------------------------
(* Where a job is.  A job that waits is in one list, once: of the queue it  *)
(* was sent to, after the answer, and before any worker has it.             *)

DecidedLane == {"measured", "push", "park"}

PlaceInv ==
  /\ \A q \in Lane : \A r \in InList(pending[q]) \cup InList(queue[q]) :
       handler[r] = "answered" /\ route[r] = q /\ job[r] = "none"
  /\ \A q \in Lane : InList(pending[q]) \cap InList(queue[q]) = {}
  /\ \A q \in Lane : \A r \in Request : ~Precedes(pending[q], r, r) /\ ~Precedes(queue[q], r, r)
  /\ \A r \in Request : job[r] # "none" => handler[r] = "answered"
  /\ \A r \in Request : handler[r] \in DecidedLane => route[r] \in Lane

LEMMA ListedAreRequests ==
  ASSUME HandlerTypes, ListTypes, NEW q \in Lane
  PROVE  InList(pending[q]) \subseteq Request /\ InList(queue[q]) \subseteq Request
BY DEF ListTypes, InList

(* Taking the head out of a list without copies takes it out altogether;    *)
(* so does LREM, and both leave the rest.                                   *)
LEMMA TailSplits ==
  ASSUME NEW s \in Seq(Request), s # <<>>, \A r \in Request : ~Precedes(s, r, r)
  PROVE  /\ Head(s) \in Request /\ Head(s) \notin InList(Tail(s))
         /\ InList(s) = InList(Tail(s)) \cup {Head(s)}
         /\ \A r \in Request : ~Precedes(Tail(s), r, r)
<1>1. Head(s) \in Request
  OBVIOUS
<1>2. InList(s) \subseteq InList(Tail(s)) \cup {Head(s)}
  <2> SUFFICES ASSUME NEW i \in 1 .. Len(s), i # 1
               PROVE  s[i] \in InList(Tail(s))
    BY DEF InList
  <2>1. i - 1 \in 1 .. Len(Tail(s)) /\ Tail(s)[i - 1] = s[i]
    OBVIOUS
  <2> QED BY <2>1 DEF InList
<1> QED BY <1>1, <1>2, TailFacts

LEMMA RemovedSplits ==
  ASSUME NEW s \in Seq(Request), NEW x \in Request, \A r \in Request : ~Precedes(s, r, r)
  PROVE  /\ InList(Removed(s, x)) = InList(s) \ {x}
         /\ \A r \in Request : ~Precedes(Removed(s, x), r, r)
<1>1. CASE x \notin InList(s)
  BY <1>1 DEF Removed
<1>2. CASE x \in InList(s)
  <2> DEFINE i == CHOOSE k \in 1 .. Len(s) : s[k] = x
             t == [k \in 1 .. Len(s) - 1 |-> IF k < i THEN s[k] ELSE s[k + 1]]
  <2>1. i \in 1 .. Len(s) /\ s[i] = x /\ Len(s) \in Nat
    BY <1>2 DEF InList
  <2>2. Removed(s, x) = t
    BY <1>2 DEF Removed
  <2>3. \A k \in 1 .. Len(s) : s[k] = x => k = i
    BY <2>1 DEF Precedes
  <2> HIDE DEF i
  <2>4. Len(t) = Len(s) - 1 /\ \A k \in 1 .. Len(s) - 1 : t[k] = IF k < i THEN s[k] ELSE s[k + 1]
    BY <2>1
  <2> HIDE DEF t
  <2>5. x \notin InList(t)
    <3> SUFFICES ASSUME NEW k \in 1 .. Len(s) - 1, t[k] = x PROVE FALSE
      BY <2>4 DEF InList
    <3> QED BY <2>1, <2>3, <2>4
  <2>6. InList(s) \ {x} \subseteq InList(t)
    <3> SUFFICES ASSUME NEW k \in 1 .. Len(s), s[k] # x PROVE s[k] \in InList(t)
      BY DEF InList
    <3>1. CASE k < i
      <4>1. k \in 1 .. Len(s) - 1 /\ t[k] = s[k]
        BY <2>1, <2>4, <3>1
      <4> QED BY <2>4, <4>1 DEF InList
    <3>2. CASE ~(k < i)
      <4>1. k - 1 \in 1 .. Len(s) - 1 /\ ~(k - 1 < i) /\ (k - 1) + 1 = k
        BY <2>1, <3>2
      <4>2. t[k - 1] = s[k]
        BY <2>4, <4>1
      <4> QED BY <2>4, <4>1, <4>2 DEF InList
    <3> QED BY <3>1, <3>2
  <2> QED BY <2>2, <2>5, <2>6, RemovedFacts
<1> QED BY <1>1, <1>2

LEMMA InitPlace == ProvisioningInit => PlaceInv
BY EmptyFacts DEF ProvisioningInit, PlaceInv, DecidedLane

(* Lists that lose members, of which some are now with a worker.            *)
LEMMA Thinned ==
  ASSUME PlaceInv, HandlerTypes, ListTypes, UNCHANGED <<handler, route>>,
         \A q \in Lane : /\ InList(pending'[q]) \subseteq InList(pending[q])
                         /\ InList(queue'[q]) \subseteq InList(queue[q])
                         /\ \A r \in Request : /\ ~Precedes(pending'[q], r, r)
                                               /\ ~Precedes(queue'[q], r, r),
         \A q \in Lane : \A r \in InList(pending'[q]) \cup InList(queue'[q]) : job'[r] = job[r],
         \A r \in Request : job'[r] # job[r] => handler[r] = "answered"
  PROVE  PlaceInv'
<1>1. \A q \in Lane : \A r \in InList(pending'[q]) \cup InList(queue'[q]) :
        handler[r] = "answered" /\ route[r] = q /\ job'[r] = "none"
  BY DEF PlaceInv
<1>2. \A q \in Lane : InList(pending'[q]) \cap InList(queue'[q]) = {}
  BY DEF PlaceInv
<1>3. \A r \in Request : job'[r] # "none" => handler[r] = "answered"
  BY DEF PlaceInv
<1>4. \A r \in Request : handler[r] \in DecidedLane => route[r] \in Lane
  BY DEF PlaceInv
<1> QED BY <1>1, <1>2, <1>3, <1>4 DEF PlaceInv

LEMMA StepPlace ==
  PlaceInv /\ ProvisioningTypeOK /\ [ProvisioningNext]_provisioningVars => PlaceInv'
<1> SUFFICES ASSUME PlaceInv, ProvisioningTypeOK, [ProvisioningNext]_provisioningVars
             PROVE  PlaceInv'
  OBVIOUS
<1>0. HandlerTypes /\ JobTypes /\ ListTypes /\ PacerTypes
  BY TypesTogether
<1> USE DEF askVars, jobVars, listVars, sweepVars, timeVars
<1>1. ASSUME UNCHANGED <<handler, route, pending, queue, job>> PROVE PlaceInv'
  BY <1>1 DEF PlaceInv
<1>2. ASSUME NEW r \in Request, HandlerStep(r) PROVE PlaceInv'
  <2>1. CASE Guard(r) \/ WriteRecord(r)
    <3>1. UNCHANGED <<route, pending, queue, job>> /\ handler[r] # "answered"
          /\ \E h \in {"guarded", "recorded", "deduped"} : handler' = [handler EXCEPT ![r] = h]
      BY <2>1 DEF Guard, WriteRecord, At
    <3> QED BY <1>0, <3>1, ListedAreRequests DEF PlaceInv, HandlerTypes, DecidedLane
  <2>2. CASE Measure(r)
    <3>1. PICK q \in Lane : route' = [route EXCEPT ![r] = q]
      BY <2>2, LaneFacts DEF Measure, TargetQueues
    <3>2. /\ handler[r] = "recorded" /\ handler' = [handler EXCEPT ![r] = "measured"]
          /\ route' = [route EXCEPT ![r] = q] /\ UNCHANGED <<pending, queue, job>>
      BY <2>2, <3>1 DEF Measure, At
    <3> QED BY <1>0, <3>1, <3>2, ListedAreRequests DEF PlaceInv, HandlerTypes, DecidedLane
  <2>3. CASE Decide(r)
    <3>1. UNCHANGED <<route, pending, queue, job>> /\ handler[r] = "measured"
          /\ \E h \in {"push", "park"} : handler' = [handler EXCEPT ![r] = h]
      BY <2>3 DEF Decide
    <3>2. /\ route[r] \in Lane /\ handler[r] # "answered"
          /\ \A s \in Request : handler[s] = "answered" => handler'[s] = "answered"
          /\ \A s \in Request : handler'[s] \in DecidedLane => s = r \/ handler[s] \in DecidedLane
      BY <1>0, <3>1 DEF PlaceInv, HandlerTypes, DecidedLane
    <3> QED BY <1>0, <3>1, <3>2, ListedAreRequests DEF PlaceInv
  <2>4. CASE Push(r) \/ Park(r)
    <3> DEFINE q == route[r]
    <3>1. /\ UNCHANGED <<route, job>> /\ handler' = [handler EXCEPT ![r] = "answered"]
          /\ handler[r] \in {"push", "park"}
          /\ \/ /\ pending' = pending /\ queue' = [queue EXCEPT ![q] = Append(@, r)]
             \/ /\ queue' = queue /\ pending' = [pending EXCEPT ![q] = Append(@, r)]
      BY <2>4 DEF Push, Park, At
    <3>2. q \in Lane /\ job[r] = "none"
          /\ \A p \in Lane : r \notin InList(pending[p]) /\ r \notin InList(queue[p])
      BY <1>0, <3>1 DEF PlaceInv, DecidedLane, JobTypes
    <3> HIDE DEF q
    <3>3. pending[q] \in Seq(Request) /\ queue[q] \in Seq(Request)
      BY <1>0, <3>2 DEF ListTypes
    <3>4. /\ InList(Append(pending[q], r)) = InList(pending[q]) \cup {r}
          /\ InList(Append(queue[q], r)) = InList(queue[q]) \cup {r}
          /\ \A s \in Request : /\ ~Precedes(Append(pending[q], r), s, s)
                                /\ ~Precedes(Append(queue[q], r), s, s)
      BY <3>2, <3>3, AppendFacts DEF PlaceInv
    <3>5. \A p \in Lane :
            \/ pending'[p] = pending[p] /\ queue'[p] = queue[p]
            \/ p = q /\ pending'[p] = pending[p] /\ queue'[p] = Append(queue[q], r)
            \/ p = q /\ queue'[p] = queue[p] /\ pending'[p] = Append(pending[q], r)
      BY <1>0, <3>1, <3>2 DEF ListTypes
    <3>6. \A p \in Lane : \A s \in InList(pending'[p]) \cup InList(queue'[p]) :
            handler'[s] = "answered" /\ route'[s] = p /\ job'[s] = "none"
      <4> SUFFICES ASSUME NEW p \in Lane, NEW s \in InList(pending'[p]) \cup InList(queue'[p])
                   PROVE  handler'[s] = "answered" /\ route'[s] = p /\ job'[s] = "none"
        OBVIOUS
      <4>1. (s = r /\ p = q) \/ s \in InList(pending[p]) \cup InList(queue[p])
        BY <3>4, <3>5
      <4>2. CASE s = r /\ p = q
        BY <1>0, <3>1, <3>2, <4>2 DEF HandlerTypes, q
      <4>3. CASE s \in InList(pending[p]) \cup InList(queue[p])
        BY <1>0, <3>1, <4>3, ListedAreRequests DEF HandlerTypes, PlaceInv
      <4> QED BY <4>1, <4>2, <4>3
    <3>7. \A p \in Lane : InList(pending'[p]) \cap InList(queue'[p]) = {}
      <4> SUFFICES ASSUME NEW p \in Lane PROVE InList(pending'[p]) \cap InList(queue'[p]) = {}
        OBVIOUS
      <4>1. /\ InList(pending[p]) \cap InList(queue[p]) = {}
            /\ r \notin InList(pending[p]) /\ r \notin InList(queue[p])
        BY <3>2 DEF PlaceInv
      <4> QED BY <3>4, <3>5, <4>1
    <3>8. \A p \in Lane : \A s \in Request : /\ ~Precedes(pending'[p], s, s)
                                             /\ ~Precedes(queue'[p], s, s)
      <4> SUFFICES ASSUME NEW p \in Lane, NEW s \in Request
                   PROVE  ~Precedes(pending'[p], s, s) /\ ~Precedes(queue'[p], s, s)
        OBVIOUS
      <4>1. ~Precedes(pending[p], s, s) /\ ~Precedes(queue[p], s, s)
        BY DEF PlaceInv
      <4> QED BY <3>4, <3>5, <4>1
    <3>9. \A s \in Request : /\ job'[s] # "none" => handler'[s] = "answered"
                             /\ handler'[s] \in DecidedLane => route'[s] \in Lane
      BY <1>0, <3>1 DEF PlaceInv, HandlerTypes, DecidedLane
    <3> QED BY <3>6, <3>7, <3>8, <3>9 DEF PlaceInv
  <2> QED BY <1>2, <2>1, <2>2, <2>3, <2>4 DEF HandlerStep
<1>3. CASE MoveOne
  <2> DEFINE q == pacer.lane
             x == Head(pending[q])
  <2>1. /\ q \in Lane /\ UNCHANGED <<handler, route, job>> /\ pending[q] # <<>>
        /\ pending' = [pending EXCEPT ![q] = Tail(@)]
        /\ queue' = [queue EXCEPT ![q] = Append(@, x)]
    BY <1>0, <1>3 DEF MoveOne, PacerTypes
  <2>2. pending[q] \in Seq(Request) /\ queue[q] \in Seq(Request)
    BY <1>0, <2>1 DEF ListTypes
  <2> HIDE DEF q
  <2>3. /\ x \in Request /\ x \notin InList(Tail(pending[q]))
        /\ InList(pending[q]) = InList(Tail(pending[q])) \cup {x}
        /\ \A r \in Request : ~Precedes(Tail(pending[q]), r, r)
    BY <2>1, <2>2, TailSplits DEF PlaceInv
  <2> HIDE DEF x
  <2>4. /\ InList(Append(queue[q], x)) = InList(queue[q]) \cup {x}
        /\ x \notin InList(queue[q])
        /\ \A r \in Request : ~Precedes(Append(queue[q], x), r, r)
    <3>1. x \notin InList(queue[q]) /\ \A r \in Request : ~Precedes(queue[q], r, r)
      BY <2>1, <2>3 DEF PlaceInv
    <3> QED BY <2>2, <2>3, <3>1, AppendFacts
  <2>5. \A p \in Lane :
          \/ p # q /\ pending'[p] = pending[p] /\ queue'[p] = queue[p]
          \/ p = q /\ pending'[p] = Tail(pending[q]) /\ queue'[p] = Append(queue[q], x)
    BY <1>0, <2>1 DEF ListTypes
  <2>6. \A p \in Lane : /\ InList(pending'[p]) \cup InList(queue'[p])
                             = InList(pending[p]) \cup InList(queue[p])
                        /\ InList(pending'[p]) \cap InList(queue'[p]) = {}
    <3> SUFFICES ASSUME NEW p \in Lane
                 PROVE  /\ InList(pending'[p]) \cup InList(queue'[p])
                             = InList(pending[p]) \cup InList(queue[p])
                        /\ InList(pending'[p]) \cap InList(queue'[p]) = {}
      OBVIOUS
    <3>1. InList(pending[p]) \cap InList(queue[p]) = {}
      BY DEF PlaceInv
    <3> QED BY <2>3, <2>4, <2>5, <3>1
  <2>7. \A p \in Lane : \A r \in Request : /\ ~Precedes(pending'[p], r, r)
                                           /\ ~Precedes(queue'[p], r, r)
    <3> SUFFICES ASSUME NEW p \in Lane, NEW r \in Request
                 PROVE  ~Precedes(pending'[p], r, r) /\ ~Precedes(queue'[p], r, r)
      OBVIOUS
    <3>1. ~Precedes(pending[p], r, r) /\ ~Precedes(queue[p], r, r)
      BY DEF PlaceInv
    <3> QED BY <2>3, <2>4, <2>5, <3>1
  <2> QED BY <2>1, <2>6, <2>7 DEF PlaceInv
<1>4. ASSUME NEW x \in Request, SweepRemoves(x) PROVE PlaceInv'
  <2>1. UNCHANGED <<handler, route, job>>
    BY <1>4 DEF SweepRemoves
  <2>2. \A q \in Lane : /\ pending'[q] = pending[q] \/ pending'[q] = Removed(pending[q], x)
                        /\ queue'[q] = queue[q] \/ queue'[q] = Removed(queue[q], x)
    BY <1>4 DEF SweepRemoves
  <2>3. \A q \in Lane : /\ InList(pending'[q]) \subseteq InList(pending[q])
                        /\ InList(queue'[q]) \subseteq InList(queue[q])
                        /\ \A r \in Request : /\ ~Precedes(pending'[q], r, r)
                                              /\ ~Precedes(queue'[q], r, r)
    <3> SUFFICES ASSUME NEW q \in Lane
                 PROVE  /\ InList(pending'[q]) \subseteq InList(pending[q])
                        /\ InList(queue'[q]) \subseteq InList(queue[q])
                        /\ \A r \in Request : /\ ~Precedes(pending'[q], r, r)
                                              /\ ~Precedes(queue'[q], r, r)
      OBVIOUS
    <3>1. pending[q] \in Seq(Request) /\ queue[q] \in Seq(Request)
          /\ \A r \in Request : ~Precedes(pending[q], r, r) /\ ~Precedes(queue[q], r, r)
      BY <1>0 DEF ListTypes, PlaceInv
    <3> QED BY <2>2, <3>1, RemovedSplits
  <2> QED BY <1>0, <2>1, <2>3, Thinned
<1>5. ASSUME NEW q \in Lane, Pops(q) PROVE PlaceInv'
  <2> DEFINE x == Head(queue[q])
  <2>1. /\ queue[q] \in Seq(Request) /\ queue[q] # <<>> /\ pending' = pending
        /\ queue' = [queue EXCEPT ![q] = Tail(@)] /\ job' = [job EXCEPT ![x] = "taken"]
        /\ UNCHANGED <<handler, route>>
    BY <1>0, <1>5 DEF Pops, ListTypes
  <2>2. /\ x \in Request /\ x \notin InList(Tail(queue[q]))
        /\ InList(queue[q]) = InList(Tail(queue[q])) \cup {x}
        /\ \A r \in Request : ~Precedes(Tail(queue[q]), r, r)
    BY <2>1, TailSplits DEF PlaceInv
  <2> HIDE DEF x
  <2>3. \A p \in Lane : queue'[p] = IF p = q THEN Tail(queue[q]) ELSE queue[p]
    BY <1>0, <2>1 DEF ListTypes
  <2>4. \A p \in Lane : /\ InList(pending'[p]) \subseteq InList(pending[p])
                        /\ InList(queue'[p]) \subseteq InList(queue[p])
                        /\ \A r \in Request : /\ ~Precedes(pending'[p], r, r)
                                              /\ ~Precedes(queue'[p], r, r)
    BY <2>1, <2>2, <2>3 DEF PlaceInv
  <2>5. \A p \in Lane : x \notin InList(pending'[p]) \cup InList(queue'[p])
    BY <2>1, <2>2, <2>3 DEF PlaceInv
  <2>6. handler[x] = "answered"
    BY <2>2 DEF PlaceInv
  <2>7. \A r \in Request \ {x} : job'[r] = job[r]
    BY <1>0, <2>1 DEF JobTypes
  <2>8. \A p \in Lane : InList(pending'[p]) \cup InList(queue'[p]) \subseteq Request
    BY <1>0, <2>4, ListedAreRequests
  <2> QED BY <1>0, <2>1, <2>4, <2>5, <2>6, <2>7, <2>8, Thinned
<1>6. ASSUME NEW x \in Request, Starts(x) PROVE PlaceInv'
  <2>1. /\ UNCHANGED <<handler, route, pending, queue>> /\ job[x] = "taken"
        /\ job' = [job EXCEPT ![x] = "running"]
    BY <1>6 DEF Starts
  <2>2. handler[x] = "answered" /\ \A r \in Request \ {x} : job'[r] = job[r]
    BY <1>0, <2>1 DEF PlaceInv, JobTypes
  <2>3. \A q \in Lane : \A r \in InList(pending'[q]) \cup InList(queue'[q]) : job'[r] = job[r]
    BY <1>0, <2>1, <2>2, ListedAreRequests DEF PlaceInv
  <2> QED BY <1>0, <2>1, <2>2, <2>3, Thinned DEF PlaceInv
<1>7. CASE Restart
  <2>1. /\ UNCHANGED <<route, pending, queue, job>>
        /\ \A r \in Request : handler'[r] = IF InFlight(r) THEN "lost" ELSE handler[r]
    BY <1>7 DEF Restart
  <2>2. \A r \in Request : /\ handler[r] = "answered" => handler'[r] = "answered"
                           /\ handler'[r] \in DecidedLane => handler'[r] = handler[r]
    BY <2>1 DEF InFlight, DecidedLane
  <2> QED BY <1>0, <2>1, <2>2, ListedAreRequests DEF PlaceInv
<1>8. CASE PacerStep
  BY <1>1, <1>3, <1>8 DEF PacerStep, PacerWakes, Drain, Drained
<1>9. CASE SweepStep
  BY <1>1, <1>4, <1>9 DEF SweepStep, SweepFlags, SweepReads, SweepSkips, SweepLooks, SweepDrops
<1>10. CASE WorkerStep
  BY <1>5, <1>6, <1>10 DEF WorkerStep
<1>11. CASE Tick
  BY <1>1, <1>11 DEF Tick
<1>12. CASE UNCHANGED provisioningVars
  BY <1>1, <1>12 DEF provisioningVars
<1> QED BY <1>2, <1>7, <1>8, <1>9, <1>10, <1>11, <1>12 DEF ProvisioningNext

(* A job that waits is in one list, once, and no worker has it.            *)
THEOREM PlaceInvariant == ProvisioningSpec => []PlaceInv
BY InitPlace, StepPlace, ProvisioningTypeCorrect, PTL DEF ProvisioningSpec

-----------------------------------------------------------------------------
(* The sweep.  Once its scan is past a list, no job it had caught is left   *)
(* there, nor comes there any more: the lists before it in the order of the *)
(* scan, from which the pacer moves jobs, are past as well.  In the list it *)
(* is at, those left are what it has read and not taken out yet.            *)

PendingPast(q) ==
  sweep \in {"pool", "test", "drop", "done"} \/ (q = PoolQueue /\ sweep = "sharedPending")
QueuePast(q) == sweep \in {"drop", "done"} \/ (q = PoolQueue /\ sweep = "test")

AtPending(q) == sweep \in DOMAIN SweptPending /\ SweptPending[sweep] = q
AtQueue(q) == sweep \in DOMAIN SweptQueue /\ SweptQueue[sweep] = q

SweepInv ==
  /\ sweepJobs \subseteq Enrolled /\ sighted \subseteq sweepJobs
  /\ \A r \in caught : handler[r] = "answered"
  /\ sweep = "idle" => caught = {}
  /\ sweep \notin DOMAIN SweptPending \cup DOMAIN SweptQueue \cup {"drop"} => sighted = {}
  /\ sweep \in DOMAIN SweepAfter => caught \subseteq sweepJobs
  /\ \A q \in Lane : /\ PendingPast(q) => caught \cap InList(pending[q]) = {}
                     /\ AtPending(q) => caught \cap InList(pending[q]) \subseteq sighted
                     /\ QueuePast(q) => caught \cap InList(queue[q]) = {}
                     /\ AtQueue(q) => caught \cap InList(queue[q]) \subseteq sighted

LEMMA StagesFacts ==
  /\ DOMAIN SweptPending = {"poolPending", "sharedPending"}
  /\ DOMAIN SweptQueue = {"pool", "test"}
  /\ DOMAIN SweepAfter = {"flagged", "pool", "test", "poolPending", "sharedPending"}
  /\ SweptPending["poolPending"] = PoolQueue /\ SweptPending["sharedPending"] = SharedQueue
  /\ SweptQueue["pool"] = PoolQueue /\ SweptQueue["test"] = SharedQueue
  /\ SweepAfter["flagged"] = "poolPending" /\ SweepAfter["poolPending"] = "sharedPending"
  /\ SweepAfter["sharedPending"] = "pool" /\ SweepAfter["pool"] = "test"
  /\ SweepAfter["test"] = "drop"
BY DEF SweptPending, SweptQueue, SweepAfter

LEMMA InitSweep == ProvisioningInit => SweepInv
BY StagesFacts DEF ProvisioningInit, SweepInv, PendingPast, QueuePast, AtPending, AtQueue

(* While the scan rests, lists that gain nothing it has caught keep it.     *)
LEMMA SweepRests ==
  ASSUME SweepInv, UNCHANGED sweepVars,
         \A r \in Request : handler[r] = "answered" => handler'[r] = "answered", caught \subseteq Request,
         \A q \in Lane : /\ caught \cap InList(pending'[q]) \subseteq InList(pending[q])
                         /\ caught \cap InList(queue'[q]) \subseteq
                              InList(queue[q]) \cup InList(pending[q]),
         \A q \in Lane : caught \cap InList(queue'[q]) \cap InList(pending[q]) # {} =>
                           ~PendingPast(q) /\ ~QueuePast(q) /\ ~AtQueue(q)
  PROVE  SweepInv'
<1> USE DEF sweepVars
<1>1. \A q \in Lane : /\ PendingPast(q)' = PendingPast(q) /\ AtPending(q)' = AtPending(q)
                      /\ QueuePast(q)' = QueuePast(q) /\ AtQueue(q)' = AtQueue(q)
  BY DEF PendingPast, QueuePast, AtPending, AtQueue
<1>2. ASSUME NEW q \in Lane
      PROVE  /\ PendingPast(q) => caught \cap InList(pending'[q]) = {}
             /\ AtPending(q) => caught \cap InList(pending'[q]) \subseteq sighted
             /\ QueuePast(q) => caught \cap InList(queue'[q]) = {}
             /\ AtQueue(q) => caught \cap InList(queue'[q]) \subseteq sighted
  BY DEF SweepInv
<1>3. \A r \in caught : handler'[r] = "answered"
  BY DEF SweepInv
<1> QED BY <1>1, <1>2, <1>3 DEF SweepInv

LEMMA StepSweep ==
  SweepInv /\ PlaceInv /\ ProvisioningTypeOK /\ [ProvisioningNext]_provisioningVars => SweepInv'
<1> SUFFICES ASSUME SweepInv, PlaceInv, ProvisioningTypeOK,
                    [ProvisioningNext]_provisioningVars
             PROVE  SweepInv'
  OBVIOUS
<1>0. HandlerTypes /\ JobTypes /\ ListTypes /\ PacerTypes /\ SweepTypes
  BY TypesTogether
<1>d. \A q \in Lane : InList(pending[q]) \cap InList(queue[q]) = {}
  BY DEF PlaceInv
<1> USE DEF askVars, jobVars, listVars, sweepVars, timeVars
<1>1. ASSUME UNCHANGED sweepVars, UNCHANGED <<pending, queue>>,
             \A r \in Request : handler[r] = "answered" => handler'[r] = "answered"
      PROVE  SweepInv'
  BY <1>0, <1>d, <1>1, SweepRests DEF SweepTypes
<1>2. ASSUME NEW r \in Request, Guard(r) \/ WriteRecord(r) \/ Measure(r) \/ Decide(r)
      PROVE  SweepInv'
  <2>1. UNCHANGED sweepVars /\ UNCHANGED <<pending, queue>> /\ handler[r] # "answered"
        /\ \A s \in Request \ {r} : handler'[s] = handler[s]
    BY <1>0, <1>2 DEF Guard, WriteRecord, Measure, Decide, At, HandlerTypes
  <2> QED BY <1>1, <2>1
<1>3. ASSUME NEW r \in Request, Push(r) \/ Park(r) PROVE SweepInv'
  <2> DEFINE q == route[r]
  <2>1. /\ UNCHANGED sweepVars /\ handler' = [handler EXCEPT ![r] = "answered"]
        /\ handler[r] \in {"push", "park"}
        /\ \/ /\ pending' = pending /\ queue' = [queue EXCEPT ![q] = Append(@, r)]
           \/ /\ queue' = queue /\ pending' = [pending EXCEPT ![q] = Append(@, r)]
    BY <1>3 DEF Push, Park, At
  <2>2. q \in Lane /\ r \notin caught
    BY <2>1 DEF PlaceInv, DecidedLane, SweepInv
  <2> HIDE DEF q
  <2>3. /\ InList(Append(pending[q], r)) = InList(pending[q]) \cup {r}
        /\ InList(Append(queue[q], r)) = InList(queue[q]) \cup {r}
    BY <1>0, <2>2, AppendFacts DEF ListTypes
  <2>4. \A p \in Lane : /\ InList(pending'[p]) \subseteq InList(pending[p]) \cup {r}
                        /\ InList(queue'[p]) \subseteq InList(queue[p]) \cup {r}
    BY <1>0, <2>1, <2>2, <2>3 DEF ListTypes
  <2>5. \A s \in Request : handler[s] = "answered" => handler'[s] = "answered"
    BY <1>0, <2>1 DEF HandlerTypes
  <2>6. \A p \in Lane : /\ caught \cap InList(pending'[p]) \subseteq InList(pending[p])
                        /\ caught \cap InList(queue'[p]) \subseteq InList(queue[p])
    BY <2>2, <2>4
  <2>7. \A p \in Lane : caught \cap InList(queue'[p]) \cap InList(pending[p]) = {}
    BY <1>d, <2>6
  <2> QED BY <1>0, <2>1, <2>5, <2>6, <2>7, SweepRests DEF SweepTypes
<1>4. CASE MoveOne
  <2> DEFINE q == pacer.lane
             x == Head(pending[q])
  <2>1. /\ q \in Lane /\ UNCHANGED <<handler, sweepVars>> /\ pending[q] # <<>>
        /\ pending' = [pending EXCEPT ![q] = Tail(@)]
        /\ queue' = [queue EXCEPT ![q] = Append(@, x)]
    BY <1>0, <1>4 DEF MoveOne, PacerTypes
  <2>2. pending[q] \in Seq(Request) /\ queue[q] \in Seq(Request)
    BY <1>0, <2>1 DEF ListTypes
  <2> HIDE DEF q
  <2>3. x \in Request /\ InList(pending[q]) = InList(Tail(pending[q])) \cup {x}
    BY <2>1, <2>2, TailSplits DEF PlaceInv
  <2> HIDE DEF x
  <2>4. InList(Append(queue[q], x)) = InList(queue[q]) \cup {x}
    BY <2>2, <2>3, AppendFacts
  <2>5. \A p \in Lane : /\ InList(pending'[p]) \subseteq InList(pending[p])
                        /\ \/ p # q /\ queue'[p] = queue[p]
                           \/ p = q /\ InList(queue'[p]) = InList(queue[p]) \cup {x}
    BY <1>0, <2>1, <2>3, <2>4 DEF ListTypes
  <2>6. \A p \in Lane : QueuePast(p) \/ AtQueue(p) => PendingPast(p)
    BY StagesFacts DEF QueuePast, AtQueue, PendingPast
  <2>7. ASSUME NEW p \in Lane, caught \cap InList(queue'[p]) \cap InList(pending[p]) # {}
        PROVE  ~PendingPast(p) /\ ~QueuePast(p) /\ ~AtQueue(p)
    BY <2>6, <2>7 DEF SweepInv
  <2>8. \A p \in Lane : InList(queue'[p]) \subseteq InList(queue[p]) \cup InList(pending[p])
    BY <2>3, <2>5
  <2> QED BY <1>0, <2>1, <2>5, <2>7, <2>8, SweepRests DEF SweepTypes
<1>5. ASSUME NEW q \in Lane, Pops(q) PROVE SweepInv'
  <2>1. /\ queue[q] \in Seq(Request) /\ queue[q] # <<>> /\ pending' = pending
        /\ queue' = [queue EXCEPT ![q] = Tail(@)] /\ UNCHANGED <<handler, sweepVars>>
    BY <1>0, <1>5 DEF Pops, ListTypes
  <2>2. \A p \in Lane : InList(queue'[p]) \subseteq InList(queue[p])
    BY <1>0, <2>1, TailFacts DEF ListTypes
  <2> QED BY <1>0, <1>d, <2>1, <2>2, SweepRests DEF SweepTypes
<1>6. CASE SweepFlags
  <2>1. /\ sweep = "idle" /\ UNCHANGED <<handler, pending, queue, sighted>>
        /\ sweepJobs' \subseteq Enrolled /\ caught' = sweepJobs' \cap Waiting
        /\ sweep' = IF sweepJobs' = {} THEN "done" ELSE "flagged"
    BY <1>6 DEF SweepFlags
  <2>2. \A r \in caught' : handler[r] = "answered"
    BY <2>1 DEF PlaceInv, Waiting
  <2>4. sighted = {}
    BY <2>1, StagesFacts DEF SweepInv
  <2>3. SweepInv'
    <3>1. sweepJobs' = {} => caught' = {}
      BY <2>1
    <3>2. \A q \in Lane : /\ PendingPast(q)' => caught' = {}
                          /\ QueuePast(q)' => caught' = {}
                          /\ ~AtPending(q)' /\ ~AtQueue(q)'
      BY <2>1, <3>1, StagesFacts DEF PendingPast, QueuePast, AtPending, AtQueue
    <3> QED BY <2>1, <2>2, <2>4, <3>1, <3>2 DEF SweepInv
  <2> QED BY <2>3
<1>7. CASE SweepReads
  <2>1. /\ sweep \in DOMAIN SweepAfter /\ sighted = {} /\ sweep' = SweepAfter[sweep]
        /\ sighted' = sweepJobs \cap InList(ListAt(sweep'))
        /\ UNCHANGED <<handler, pending, queue, sweepJobs, caught>>
    BY <1>7 DEF SweepReads
  <2>2. caught \subseteq sweepJobs
    BY <2>1 DEF SweepInv
  <2>3. ASSUME NEW q \in Lane
        PROVE  /\ PendingPast(q)' => PendingPast(q) \/ AtPending(q)
               /\ QueuePast(q)' => QueuePast(q) \/ AtQueue(q)
               /\ AtPending(q)' => ListAt(sweep') = pending[q]
               /\ AtQueue(q)' => ListAt(sweep') = queue[q]
    BY <2>1, StagesFacts, LaneFacts, ProvisioningAssumption
       DEF PendingPast, QueuePast, AtPending, AtQueue, ListAt, Lane
  <2>4. sweep' # "idle"
    BY <2>1, StagesFacts
  <2>5. ASSUME NEW q \in Lane
        PROVE  /\ PendingPast(q)' => caught \cap InList(pending[q]) = {}
               /\ AtPending(q)' => caught \cap InList(pending[q]) \subseteq sighted'
               /\ QueuePast(q)' => caught \cap InList(queue[q]) = {}
               /\ AtQueue(q)' => caught \cap InList(queue[q]) \subseteq sighted'
    BY <2>1, <2>2, <2>3 DEF SweepInv
  <2>6. sweep' \in DOMAIN SweptPending \cup DOMAIN SweptQueue \/ sighted' = {}
    BY <2>1, StagesFacts, EmptyFacts DEF ListAt
  <2>7. sweepJobs \subseteq Enrolled /\ \A r \in caught : handler[r] = "answered"
    BY DEF SweepInv
  <2> QED BY <2>1, <2>2, <2>4, <2>5, <2>6, <2>7 DEF SweepInv
<1>8. ASSUME NEW x \in Request, SweepRemoves(x) PROVE SweepInv'
  <2>1. /\ UNCHANGED <<handler, sweep, sweepJobs, caught>> /\ sighted' = sighted \ {x}
    BY <1>8 DEF SweepRemoves
  <2>2. ASSUME NEW q \in Lane
        PROVE  /\ InList(pending'[q]) = IF AtPending(q) THEN InList(pending[q]) \ {x}
                                                        ELSE InList(pending[q])
               /\ InList(queue'[q]) = IF AtQueue(q) THEN InList(queue[q]) \ {x}
                                                    ELSE InList(queue[q])
    <3>1. /\ pending'[q] = IF AtPending(q) THEN Removed(pending[q], x) ELSE pending[q]
          /\ queue'[q] = IF AtQueue(q) THEN Removed(queue[q], x) ELSE queue[q]
      BY <1>8 DEF SweepRemoves, AtPending, AtQueue
    <3>2. pending[q] \in Seq(Request) /\ queue[q] \in Seq(Request)
          /\ \A r \in Request : ~Precedes(pending[q], r, r) /\ ~Precedes(queue[q], r, r)
      BY <1>0 DEF ListTypes, PlaceInv
    <3> QED BY <3>1, <3>2, RemovedSplits
  <2>3. \A q \in Lane : /\ PendingPast(q)' = PendingPast(q) /\ AtPending(q)' = AtPending(q)
                        /\ QueuePast(q)' = QueuePast(q) /\ AtQueue(q)' = AtQueue(q)
    BY <2>1 DEF PendingPast, QueuePast, AtPending, AtQueue
  <2>4. ASSUME NEW q \in Lane
        PROVE  /\ PendingPast(q) => caught \cap InList(pending'[q]) = {}
               /\ AtPending(q) => caught \cap InList(pending'[q]) \subseteq sighted'
               /\ QueuePast(q) => caught \cap InList(queue'[q]) = {}
               /\ AtQueue(q) => caught \cap InList(queue'[q]) \subseteq sighted'
    BY <2>1, <2>2 DEF SweepInv
  <2> QED BY <2>1, <2>3, <2>4 DEF SweepInv
<1>s. CASE SweepSkips
  <2>1. /\ UNCHANGED <<handler, pending, queue, sweep, sweepJobs>>
        /\ sighted' = {} /\ caught' = caught \ sighted
    BY <1>s DEF SweepSkips
  <2>2. \A q \in Lane : /\ PendingPast(q)' = PendingPast(q) /\ AtPending(q)' = AtPending(q)
                        /\ QueuePast(q)' = QueuePast(q) /\ AtQueue(q)' = AtQueue(q)
    BY <2>1 DEF PendingPast, QueuePast, AtPending, AtQueue
  <2> QED BY <2>1, <2>2 DEF SweepInv
<1>9. ASSUME NEW x \in Request, SweepLooks(x) \/ SweepDrops(x) PROVE SweepInv'
  <2>1. /\ UNCHANGED <<handler, pending, queue, caught>> /\ sweep = "drop"
        /\ sweep' \in {"drop", "done"}
    BY <1>9 DEF SweepLooks, SweepDrops, DoneWith
  <2>2. caught \cap Waiting = {}
    BY <2>1 DEF SweepInv, PendingPast, QueuePast, Waiting
  <2>3. /\ sweepJobs' \subseteq Enrolled /\ sighted' \subseteq sweepJobs'
        /\ sweep' = "done" => sighted' = {}
    BY <1>9, <2>1 DEF SweepLooks, SweepDrops, DoneWith, SweepInv
  <2>4. \A q \in Lane : /\ caught \cap InList(pending[q]) = {} /\ caught \cap InList(queue[q]) = {}
                        /\ ~AtPending(q)' /\ ~AtQueue(q)'
    BY <2>1, <2>2, StagesFacts DEF Waiting, AtPending, AtQueue
  <2>5. sweep' \notin DOMAIN SweepAfter /\ sweep' # "idle"
    BY <2>1, StagesFacts
  <2>6. \A r \in caught : handler[r] = "answered"
    BY DEF SweepInv
  <2> QED BY <2>1, <2>3, <2>4, <2>5, <2>6 DEF SweepInv
<1>10. CASE Restart
  <2>1. /\ UNCHANGED <<pending, queue, caught>> /\ sweepJobs' = {} /\ sighted' = {}
        /\ sweep' = IF sweep \in {"idle", "done"} THEN sweep ELSE "lost"
        /\ \A r \in Request : handler'[r] = IF InFlight(r) THEN "lost" ELSE handler[r]
    BY <1>10 DEF Restart
  <2>2. \A r \in caught : handler'[r] = "answered"
    BY <1>0, <2>1 DEF InFlight, SweepInv, SweepTypes
  <2>3. sweep' \notin DOMAIN SweepAfter /\ (sweep' = "idle" => sweep = "idle")
    BY <2>1, StagesFacts
  <2>4. \A q \in Lane : /\ PendingPast(q)' => PendingPast(q)
                        /\ QueuePast(q)' => QueuePast(q)
                        /\ ~AtPending(q)' /\ ~AtQueue(q)'
    BY <2>1, StagesFacts DEF PendingPast, QueuePast, AtPending, AtQueue
  <2> QED BY <2>1, <2>2, <2>3, <2>4 DEF SweepInv
<1>11. CASE PacerStep
  BY <1>1, <1>4, <1>11 DEF PacerStep, PacerWakes, Drain, Drained
<1>12. CASE SweepStep
  BY <1>6, <1>7, <1>8, <1>9, <1>s, <1>12 DEF SweepStep
<1>13. CASE WorkerStep
  BY <1>1, <1>5, <1>13 DEF WorkerStep, Starts
<1>14. CASE Tick
  BY <1>1, <1>14 DEF Tick
<1>15. CASE UNCHANGED provisioningVars
  BY <1>1, <1>15 DEF provisioningVars
<1>16. ASSUME NEW r \in Request, HandlerStep(r) PROVE SweepInv'
  BY <1>2, <1>3, <1>16 DEF HandlerStep
<1> QED BY <1>10, <1>11, <1>12, <1>13, <1>14, <1>15, <1>16 DEF ProvisioningNext

(* A job that waited when the sweep of its workshop saw it waits nowhere    *)
(* once the lists are swept: for every number of jobs, and wherever the     *)
(* pacer, the workers and new requests go on meanwhile.                     *)
THEOREM SweepMissesNothing == ProvisioningSpec => []SweepIsThorough
<1>1. ProvisioningSpec => []SweepInv
  BY InitSweep, StepSweep, PlaceInvariant, ProvisioningTypeCorrect, PTL DEF ProvisioningSpec
<1>2. SweepInv => SweepIsThorough
  BY DEF SweepInv, SweepIsThorough, PendingPast, QueuePast, Waiting
<1> QED BY <1>1, <1>2, PTL

-----------------------------------------------------------------------------
(* The life of a request. *)

LEMMA InitLife == ProvisioningInit => Life!Init
BY EmptyFacts DEF ProvisioningInit, Life!Init, PlaceOf, Waiting

(* Each step moves one request on, or none.                                 *)
LEMMA SamePlaces ==
  ASSUME \A r \in Request : PlaceOf(r)' = PlaceOf(r)
  PROVE  [Life!Next]_([r \in Request |-> PlaceOf(r)])
BY DEF Life!Next

LEMMA OnePlaceMoves ==
  ASSUME NEW x \in Request, NEW from, NEW to, PlaceOf(x) = from, PlaceOf(x)' = to,
         \A r \in Request \ {x} : PlaceOf(r)' = PlaceOf(r),
         \/ from = "out" /\ to = "waiting"
         \/ from = "waiting" /\ to = "taken"
         \/ from = "waiting" /\ to = "swept" /\ x \in Enrolled
  PROVE  Life!Next
BY DEF Life!Next, Life!Enter, Life!Take, Life!Sweep, Life!Moves

(* What is in a list does not move with what becomes of the lists of others. *)
LEMMA PlaceRests ==
  ASSUME NEW r \in Request, job'[r] # "none" <=> job[r] # "none",
         r \in Waiting' <=> r \in Waiting,
         handler'[r] = "answered" <=> handler[r] = "answered"
  PROVE  PlaceOf(r)' = PlaceOf(r)
BY DEF PlaceOf

LEMMA StepLife ==
  /\ PlaceInv /\ PlaceInv' /\ SweepInv /\ ProvisioningTypeOK
  /\ [ProvisioningNext]_provisioningVars
  => [Life!Next]_([r \in Request |-> PlaceOf(r)])
<1> DEFINE Step == [Life!Next]_([r \in Request |-> PlaceOf(r)])
<1> SUFFICES ASSUME PlaceInv, PlaceInv', SweepInv, ProvisioningTypeOK,
                    [ProvisioningNext]_provisioningVars
             PROVE  Step
  OBVIOUS
<1>0. HandlerTypes /\ JobTypes /\ ListTypes /\ PacerTypes /\ SweepTypes
  BY TypesTogether
<1>w. Waiting \subseteq Request
  BY <1>0, ListedAreRequests DEF Waiting
<1> USE DEF askVars, jobVars, listVars, sweepVars, timeVars
<1>1. ASSUME UNCHANGED job, Waiting' = Waiting,
             \A r \in Request : handler'[r] = "answered" <=> handler[r] = "answered"
      PROVE  Step
  BY <1>1, PlaceRests, SamePlaces
<1>s. ASSUME UNCHANGED <<pending, queue>> PROVE Waiting' = Waiting
  BY <1>s DEF Waiting
<1>2. ASSUME NEW r \in Request, Guard(r) \/ WriteRecord(r) \/ Measure(r) \/ Decide(r)
      PROVE  Step
  <2>1. UNCHANGED <<job, pending, queue>> /\ handler[r] # "answered" /\ handler'[r] # "answered"
        /\ \A s \in Request \ {r} : handler'[s] = handler[s]
    BY <1>0, <1>2 DEF Guard, WriteRecord, Measure, Decide, At, HandlerTypes
  <2> QED BY <1>1, <1>s, <2>1
<1>3. ASSUME NEW r \in Request, Push(r) \/ Park(r) PROVE Step
  <2> DEFINE q == route[r]
  <2>1. /\ handler' = [handler EXCEPT ![r] = "answered"] /\ job' = job
        /\ handler[r] \in {"push", "park"}
        /\ \/ /\ pending' = pending /\ queue' = [queue EXCEPT ![q] = Append(@, r)]
           \/ /\ queue' = queue /\ pending' = [pending EXCEPT ![q] = Append(@, r)]
    BY <1>3 DEF Push, Park, At
  <2>2. q \in Lane /\ r \notin Waiting /\ job[r] = "none" /\ handler[r] # "answered"
    BY <1>0, <2>1 DEF PlaceInv, DecidedLane, Waiting, JobTypes
  <2> HIDE DEF q
  <2>3. /\ InList(Append(pending[q], r)) = InList(pending[q]) \cup {r}
        /\ InList(Append(queue[q], r)) = InList(queue[q]) \cup {r}
    BY <1>0, <2>2, AppendFacts DEF ListTypes
  <2>4. Waiting' = Waiting \cup {r}
    <3>1. \A p \in Lane \ {q} : pending'[p] = pending[p] /\ queue'[p] = queue[p]
      BY <1>0, <2>1, <2>2 DEF ListTypes
    <3>2. InList(pending'[q]) \cup InList(queue'[q]) = InList(pending[q]) \cup InList(queue[q]) \cup {r}
      BY <1>0, <2>1, <2>2, <2>3 DEF ListTypes
    <3> QED BY <2>2, <3>1, <3>2 DEF Waiting
  <2>5. \A s \in Request \ {r} : PlaceOf(s)' = PlaceOf(s)
    BY <1>0, <2>1, <2>4, PlaceRests DEF HandlerTypes
  <2>6. PlaceOf(r) = "out" /\ PlaceOf(r)' = "waiting"
    BY <2>1, <2>2, <2>4 DEF PlaceOf
  <2> QED BY <2>5, <2>6, OnePlaceMoves
<1>4. CASE MoveOne
  <2> DEFINE q == pacer.lane
             x == Head(pending[q])
  <2>1. /\ q \in Lane /\ UNCHANGED <<handler, job>> /\ pending[q] # <<>>
        /\ pending' = [pending EXCEPT ![q] = Tail(@)]
        /\ queue' = [queue EXCEPT ![q] = Append(@, x)]
    BY <1>0, <1>4 DEF MoveOne, PacerTypes
  <2>2. pending[q] \in Seq(Request) /\ queue[q] \in Seq(Request)
    BY <1>0, <2>1 DEF ListTypes
  <2> HIDE DEF q
  <2>3. x \in Request /\ InList(pending[q]) = InList(Tail(pending[q])) \cup {x}
    BY <2>1, <2>2, TailSplits DEF PlaceInv
  <2> HIDE DEF x
  <2>4. InList(Append(queue[q], x)) = InList(queue[q]) \cup {x}
    BY <2>2, <2>3, AppendFacts
  <2>5. \A p \in Lane \ {q} : pending'[p] = pending[p] /\ queue'[p] = queue[p]
    BY <1>0, <2>1 DEF ListTypes
  <2>6. InList(pending'[q]) \cup InList(queue'[q]) = InList(pending[q]) \cup InList(queue[q])
    BY <1>0, <2>1, <2>3, <2>4 DEF ListTypes
  <2>7. Waiting' = Waiting
    BY <2>1, <2>5, <2>6 DEF Waiting
  <2> QED BY <1>1, <2>1, <2>7
<1>5. ASSUME NEW q \in Lane, Pops(q) PROVE Step
  <2>0. /\ queue[q] \in Seq(Request) /\ queue[q] # <<>> /\ pending' = pending
        /\ queue' = [queue EXCEPT ![q] = Tail(@)] /\ handler' = handler
        /\ job' = [job EXCEPT ![Head(queue[q])] = "taken"]
    BY <1>0, <1>5 DEF Pops, ListTypes
  <2>h. /\ Head(queue[q]) \in Request
        /\ InList(queue[q]) = InList(Tail(queue[q])) \cup {Head(queue[q])}
    BY <2>0, TailSplits DEF PlaceInv
  <2>k. PICK x \in Request : x = Head(queue[q])
    BY <2>h
  <2>1. /\ queue[q] \in Seq(Request) /\ queue[q] # <<>> /\ pending' = pending
        /\ queue' = [queue EXCEPT ![q] = Tail(@)] /\ job' = [job EXCEPT ![x] = "taken"]
        /\ handler' = handler
    BY <2>0, <2>k
  <2>2. x \in Request /\ InList(queue[q]) = InList(Tail(queue[q])) \cup {x}
    BY <2>h, <2>k
  <2>3. x \in Waiting /\ job[x] = "none" /\ job'[x] = "taken"
    BY <1>0, <2>1, <2>2 DEF Waiting, PlaceInv, JobTypes
  <2>4. x \notin Waiting'
    BY <2>3 DEF Waiting, PlaceInv
  <2>5. \A r \in Request \ {x} : r \in Waiting' <=> r \in Waiting
    <3>1. \A p \in Lane \ {q} : queue'[p] = queue[p]
      BY <1>0, <2>1 DEF ListTypes
    <3>2. InList(queue'[q]) = InList(Tail(queue[q]))
      BY <1>0, <2>1 DEF ListTypes
    <3> QED BY <2>1, <2>2, <3>1, <3>2 DEF Waiting
  <2>6. \A r \in Request \ {x} : PlaceOf(r)' = PlaceOf(r)
    BY <1>0, <2>1, <2>5, PlaceRests DEF JobTypes
  <2>7. PlaceOf(x) = "waiting" /\ PlaceOf(x)' = "taken"
    BY <2>3, <2>4 DEF PlaceOf
  <2> QED BY <2>2, <2>6, <2>7, OnePlaceMoves
<1>6. ASSUME NEW x \in Request, Starts(x) PROVE Step
  <2>1. /\ UNCHANGED <<handler, pending, queue>> /\ job[x] = "taken"
        /\ job' = [job EXCEPT ![x] = "running"]
    BY <1>6 DEF Starts
  <2>2. \A r \in Request : job'[r] # "none" <=> job[r] # "none"
    BY <1>0, <2>1 DEF JobTypes
  <2> QED BY <1>s, <2>1, <2>2, PlaceRests, SamePlaces
<1>7. ASSUME NEW x \in Request, SweepRemoves(x) PROVE Step
  <2>1. UNCHANGED <<handler, job>> /\ x \in Enrolled
    BY <1>7 DEF SweepRemoves, SweepInv
  <2>2. ASSUME NEW q \in Lane
        PROVE  /\ InList(pending'[q]) = InList(pending[q]) \ {x} \/ pending'[q] = pending[q]
               /\ InList(queue'[q]) = InList(queue[q]) \ {x} \/ queue'[q] = queue[q]
    <3>1. /\ pending'[q] = Removed(pending[q], x) \/ pending'[q] = pending[q]
          /\ queue'[q] = Removed(queue[q], x) \/ queue'[q] = queue[q]
      BY <1>7 DEF SweepRemoves
    <3>2. pending[q] \in Seq(Request) /\ queue[q] \in Seq(Request)
          /\ \A r \in Request : ~Precedes(pending[q], r, r) /\ ~Precedes(queue[q], r, r)
      BY <1>0 DEF ListTypes, PlaceInv
    <3> QED BY <3>1, <3>2, RemovedSplits
  <2>3. \A r \in Request \ {x} : r \in Waiting' <=> r \in Waiting
    BY <2>2 DEF Waiting
  <2>4. x \in Waiting' => x \in Waiting
    BY <2>2 DEF Waiting
  <2>5. \A r \in Request \ {x} : PlaceOf(r)' = PlaceOf(r)
    BY <2>1, <2>3, PlaceRests
  <2>6. CASE x \in Waiting' <=> x \in Waiting
    BY <2>1, <2>5, <2>6, PlaceRests, SamePlaces
  <2>7. CASE x \in Waiting /\ x \notin Waiting'
    <3>1. handler[x] = "answered" /\ job[x] = "none"
      BY <2>7 DEF PlaceInv, Waiting
    <3>2. PlaceOf(x) = "waiting" /\ PlaceOf(x)' = "swept"
      BY <2>1, <2>7, <3>1 DEF PlaceOf
    <3> QED BY <2>1, <2>5, <3>2, OnePlaceMoves
  <2> QED BY <2>4, <2>6, <2>7
<1>8. CASE Restart
  <2>1. /\ UNCHANGED <<pending, queue, job>>
        /\ \A r \in Request : handler'[r] = IF InFlight(r) THEN "lost" ELSE handler[r]
    BY <1>8 DEF Restart
  <2>2. \A r \in Request : handler'[r] = "answered" <=> handler[r] = "answered"
    BY <2>1 DEF InFlight
  <2> QED BY <1>1, <1>s, <2>1, <2>2
<1>9. CASE PacerStep
  BY <1>1, <1>s, <1>4, <1>9 DEF PacerStep, PacerWakes, Drain, Drained
<1>10. CASE SweepStep
  BY <1>1, <1>s, <1>7, <1>10 DEF SweepStep, SweepFlags, SweepReads, SweepSkips, SweepLooks, SweepDrops
<1>11. CASE WorkerStep
  BY <1>5, <1>6, <1>11 DEF WorkerStep
<1>12. CASE Tick
  BY <1>1, <1>s, <1>12 DEF Tick
<1>13. CASE UNCHANGED provisioningVars
  BY <1>1, <1>s, <1>13 DEF provisioningVars
<1>14. ASSUME NEW r \in Request, HandlerStep(r) PROVE Step
  BY <1>2, <1>3, <1>14 DEF HandlerStep
<1> QED BY <1>8, <1>9, <1>10, <1>11, <1>12, <1>13, <1>14 DEF ProvisioningNext

(* The provision path implements the life it promises each request: nothing *)
(* that was answered is lost, doubled or revived, and a sweep takes only    *)
(* its own workshop's.                                                      *)
THEOREM RequestLifeKept == ProvisioningSpec => LifeKept
<1>1. ProvisioningSpec => []SweepInv
  BY InitSweep, StepSweep, PlaceInvariant, ProvisioningTypeCorrect, PTL DEF ProvisioningSpec
<1>2. ProvisioningSpec => Life!Spec
  BY <1>1, InitLife, StepLife, PlaceInvariant, ProvisioningTypeCorrect, PTL
     DEF ProvisioningSpec, Life!Spec
<1> QED BY <1>2 DEF LifeKept
=============================================================================
