-------------------------- MODULE BranchLockProofs --------------------------
(***************************************************************************)
(* Proofs about BranchLock, for any jobs, branches and workers and any     *)
(* number of failures.  That a lock does not expire under a job that still *)
(* waits for its slot is an assumption of the theorems that need it.       *)
(***************************************************************************)
EXTENDS BranchLock, TLAPS

(* A coroutine between SET NX and DEL is the one its branch's lock names.  *)
LockNamesHolder == \A j \in Job : Holds(j) => lock[BranchOf[j]] = j

(* A job nobody submitted is nowhere. *)
UnknownIsNowhere == \A j \in Job \ known : Places(j) = 0

NeverExpiresLive == LiveLockMayExpire = FALSE

-----------------------------------------------------------------------------
(* Type correctness. *)

LEMMA TypeInit == Init => TypeOK
BY BranchLockAssumption DEF Init, TypeOK, Steps, Drainer

LEMMA TypeNext == TypeOK /\ [Next]_vars => TypeOK'
<1> SUFFICES ASSUME TypeOK, [Next]_vars PROVE TypeOK'
  OBVIOUS
<1> USE BranchLockAssumption DEF TypeOK, Steps
<1>1. CASE UNCHANGED vars
  BY <1>1 DEF vars, lists, coros, recovery
<1>2. ASSUME NEW j \in Job, Submit(j) PROVE TypeOK'
  BY <1>2 DEF Submit, Plus, coros, recovery
<1>3. ASSUME NEW w \in Worker, NEW j \in Job, Pop(w, j) PROVE TypeOK'
  BY <1>3 DEF Pop, Minus, Goto, recovery
<1>4. ASSUME NEW j \in Job, SetLock(j) PROVE TypeOK'
  BY <1>4 DEF SetLock, Goto, lists, recovery
<1>5. ASSUME NEW j \in Job, Defer(j) PROVE TypeOK'
  BY <1>5 DEF Defer, Plus, Ends, Goto, recovery
<1>6. ASSUME NEW j \in Job, Record(j) \/ Admit(j) \/ TestEnds(j) PROVE TypeOK'
  BY <1>6 DEF Record, Admit, TestEnds, Goto, lists, recovery
<1>7. ASSUME NEW j \in Job, Report(j) PROVE TypeOK'
  BY <1>7 DEF Report, Plus, Goto, recovery
<1>8. ASSUME NEW j \in Job, Erase(j) \/ Unlock(j) PROVE TypeOK'
  BY <1>8 DEF Erase, Unlock, Goto, lists, recovery
<1>9. ASSUME NEW d \in Drainer, NEW j \in Job, DrainPop(d, j) PROVE TypeOK'
  BY <1>9 DEF DrainPop, Minus, coros, recovery
<1>10. ASSUME NEW d \in Drainer, DrainPush(d) PROVE TypeOK'
  BY <1>10 DEF DrainPush, Plus, coros, recovery
<1>11. ASSUME NEW j \in Job, Finish(j) PROVE TypeOK'
  BY <1>11 DEF Finish, Ends, Goto, lists, recovery
<1>12. ASSUME NEW b \in Branch, RecoverSkip(b) \/ RecoverBegin(b) PROVE TypeOK'
  BY <1>12 DEF RecoverSkip, RecoverBegin, lists, coros
<1>13. CASE RecoverEnd
  BY <1>13 DEF RecoverEnd, lists, coros
<1>14. ASSUME NEW w \in Worker, Crash(w) PROVE TypeOK'
  <2>1. pc' \in [Job -> Steps] /\ on' \in [Job -> Worker \cup {None}]
        /\ breaks' \in 0 .. MaxBreaks
    BY <1>14 DEF Crash, Broken
  <2>2. item' \in [Drainer -> Job \cup {None}] /\ up' \subseteq Worker
        /\ recTodo' \subseteq Branch /\ recBranch' \in Branch \cup {None}
    BY <1>14 DEF Crash, recovery
  <2> QED
    BY <1>14, <2>1, <2>2 DEF Crash, lists
<1>15. ASSUME NEW w \in Worker, Restart(w) PROVE TypeOK'
  BY <1>15 DEF Restart, lists, coros
<1>16. ASSUME NEW j \in Job, RedisFails(j) PROVE TypeOK'
  BY <1>16 DEF RedisFails, Broken, lists, recovery
<1>17. ASSUME NEW d \in Drainer, PushFails(d) PROVE TypeOK'
  BY <1>17 DEF PushFails, lists, coros, recovery
<1>18. ASSUME NEW b \in Branch, LockExpires(b) PROVE TypeOK'
  BY <1>18 DEF LockExpires, lists, coros, recovery
<1>19. ASSUME NEW j \in Job, RecordExpires(j) PROVE TypeOK'
  BY <1>19 DEF RecordExpires, lists, coros, recovery
<1> QED
  BY <1>1, <1>2, <1>3, <1>4, <1>5, <1>6, <1>7, <1>8, <1>9, <1>10, <1>11, <1>12,
     <1>13, <1>14, <1>15, <1>16, <1>17, <1>18, <1>19
  DEF Next, Coroutine, Recover, Drain, Drainer

(* Every value of the model stays in its type, whatever fails. *)
THEOREM LockTypeOK == Spec => []TypeOK
<1>1. Init => TypeOK
  BY TypeInit
<1>2. TypeOK /\ [Next]_vars => TypeOK'
  BY TypeNext
<1> QED
  BY <1>1, <1>2, PTL DEF Spec

-----------------------------------------------------------------------------
(* Exclusion. *)

LEMMA HolderNext ==
  ASSUME NeverExpiresLive
  PROVE  TypeOK /\ LockNamesHolder /\ [Next]_vars => LockNamesHolder'
<1> SUFFICES ASSUME TypeOK, LockNamesHolder, [Next]_vars,
                    NEW k \in Job, Holds(k)'
             PROVE  lock'[BranchOf[k]] = k
  BY DEF LockNamesHolder
<1> USE BranchLockAssumption DEF TypeOK, Steps, LockNamesHolder, Holds
<1>1. CASE UNCHANGED vars
  BY <1>1 DEF vars, coros
<1>2. ASSUME NEW j \in Job, Submit(j) PROVE lock'[BranchOf[k]] = k
  BY <1>2 DEF Submit, coros
<1>3. ASSUME NEW w \in Worker, NEW j \in Job, Pop(w, j) PROVE lock'[BranchOf[k]] = k
  BY <1>3 DEF Pop, Goto
<1>4. ASSUME NEW j \in Job, SetLock(j) PROVE lock'[BranchOf[k]] = k
  <2>1. CASE lock[BranchOf[j]] = None
    <3>1. lock' = [lock EXCEPT ![BranchOf[j]] = j]
          /\ pc' = [pc EXCEPT ![j] = "recording"]
      BY <1>4, <2>1 DEF SetLock, Goto
    <3>2. CASE k = j
      BY <3>1, <3>2
    <3>3. CASE k # j
      <4>1. Holds(k)
        BY <3>1, <3>3
      <4>2. BranchOf[k] # BranchOf[j]
        BY <4>1, <2>1
      <4> QED
        BY <4>1, <4>2, <3>1
    <3> QED
      BY <3>2, <3>3
  <2>2. CASE lock[BranchOf[j]] # None
    BY <1>4, <2>2 DEF SetLock, Goto
  <2> QED
    BY <2>1, <2>2
<1>5. ASSUME NEW j \in Job, Defer(j) PROVE lock'[BranchOf[k]] = k
  BY <1>5 DEF Defer, Ends, Goto
<1>6. ASSUME NEW j \in Job,
             Record(j) \/ Admit(j) \/ TestEnds(j) \/ Report(j) \/ Erase(j)
      PROVE  lock'[BranchOf[k]] = k
  <2>1. lock' = lock /\ Holds(k)
    BY <1>6 DEF Record, Admit, TestEnds, Report, Erase, Goto
  <2> QED
    BY <2>1
<1>7. ASSUME NEW j \in Job, Unlock(j) PROVE lock'[BranchOf[k]] = k
  <2>1. k # j /\ Holds(k) /\ Holds(j)
    BY <1>7 DEF Unlock, Goto
  <2>2. BranchOf[k] # BranchOf[j]
    BY <2>1
  <2> QED
    BY <1>7, <2>1, <2>2 DEF Unlock
<1>8. ASSUME NEW d \in Drainer,
             DrainPush(d) \/ PushFails(d) \/ (\E j \in Job : DrainPop(d, j))
      PROVE  lock'[BranchOf[k]] = k
  BY <1>8 DEF DrainPop, DrainPush, PushFails, coros
<1>9. ASSUME NEW j \in Job, Finish(j) PROVE lock'[BranchOf[k]] = k
  BY <1>9 DEF Finish, Ends, Goto
<1>10. ASSUME NEW b \in Branch, RecoverSkip(b) \/ RecoverBegin(b)
       PROVE lock'[BranchOf[k]] = k
  BY <1>10 DEF RecoverSkip, RecoverBegin, coros
<1>11. CASE RecoverEnd
  BY <1>11 DEF RecoverEnd, coros
<1>12. ASSUME NEW w \in Worker, Crash(w) PROVE lock'[BranchOf[k]] = k
  BY <1>12 DEF Crash, Broken
<1>13. ASSUME NEW w \in Worker, Restart(w) PROVE lock'[BranchOf[k]] = k
  BY <1>13 DEF Restart, coros
<1>14. ASSUME NEW j \in Job, RedisFails(j) PROVE lock'[BranchOf[k]] = k
  BY <1>14 DEF RedisFails, Broken
<1>15. ASSUME NEW b \in Branch, LockExpires(b) PROVE lock'[BranchOf[k]] = k
  <2>1. Holds(k) /\ lock[BranchOf[k]] = k
    BY <1>15 DEF LockExpires, coros
  <2>2. b # BranchOf[k]
    BY <1>15, <2>1 DEF LockExpires, NeverExpiresLive
  <2> QED
    BY <1>15, <2>1, <2>2 DEF LockExpires
<1>16. ASSUME NEW j \in Job, RecordExpires(j) PROVE lock'[BranchOf[k]] = k
  BY <1>16 DEF RecordExpires, coros
<1> QED
  BY <1>1, <1>2, <1>3, <1>4, <1>5, <1>6, <1>7, <1>8, <1>9, <1>10, <1>11, <1>12,
     <1>13, <1>14, <1>15, <1>16 DEF Next, Coroutine, Recover, Drain, Drainer

(* The same repo, branch and arch never run twice at a time, through any   *)
(* crashes, restarts and failed commands, if no lock expires under a job   *)
(* that is still waiting for its slot.                                     *)
THEOREM LockOneRunPerBranch ==
  ASSUME NeverExpiresLive PROVE Spec => []OneRunPerBranch
<1> DEFINE IInv == TypeOK /\ LockNamesHolder
<1>1. Init => IInv
  BY TypeInit DEF Init, LockNamesHolder, Holds
<1>2. IInv /\ [Next]_vars => IInv'
  BY TypeNext, HolderNext
<1>3. IInv => OneRunPerBranch
  BY DEF LockNamesHolder, OneRunPerBranch
<1> QED
  BY <1>1, <1>2, <1>3, PTL DEF Spec

-----------------------------------------------------------------------------
(* Where a job is. *)

LEMMA PlacesNat == TypeOK => \A k \in Job : Places(k) \in Nat
BY DEF TypeOK, Places

Conserved == \A k \in Job : Places(k)' = Places(k)

(* Steps that move a job between commands of its coroutine, or no job. *)
LEMMA StaysPut ==
  ASSUME TypeOK, UNCHANGED lists, UNCHANGED item,
         \A k \in Job : Unreported(k)' = Unreported(k)
  PROVE  Conserved
<1>1. \A k \in Job : InHand(k)' = InHand(k)
  BY DEF InHand
<1> QED
  BY <1>1 DEF Conserved, Places, lists

(* Steps that move a job, the hands of the drains left alone. *)
LEMMA MovesOnce ==
  ASSUME TypeOK, UNCHANGED item,
         \A k \in Job : /\ queued'[k] \in Int /\ deferred'[k] \in Int
                        /\ completed'[k] \in Int,
         \A k \in Job :
           queued'[k] + deferred'[k] + completed'[k] + (IF Unreported(k)' THEN 1 ELSE 0)
             = queued[k] + deferred[k] + completed[k] + (IF Unreported(k) THEN 1 ELSE 0)
  PROVE  Conserved
<1>1. \A k \in Job : InHand(k)' = InHand(k)
  BY DEF InHand
<1>2. SUFFICES ASSUME NEW k \in Job PROVE Places(k)' = Places(k)
  BY DEF Conserved
<1>3. queued'[k] + deferred'[k] + completed'[k] + (IF Unreported(k)' THEN 1 ELSE 0)
        = queued[k] + deferred[k] + completed[k] + (IF Unreported(k) THEN 1 ELSE 0)
  OBVIOUS
<1>4. InHand(k)' = InHand(k)
  BY <1>1
<1>5. /\ queued[k] \in Int /\ deferred[k] \in Int /\ completed[k] \in Int
      /\ queued'[k] \in Int /\ deferred'[k] \in Int /\ completed'[k] \in Int
  BY DEF TypeOK
<1> QED
  BY <1>3, <1>4, <1>5 DEF Places

LEMMA PopMoves ==
  ASSUME TypeOK, JobInOnePlace, NEW w \in Worker, NEW j \in Job, Pop(w, j)
  PROVE  Conserved
<1>1. ~Unreported(j) /\ Unreported(j)'
  BY DEF Pop, Goto, Unreported, JobInOnePlace, Places, TypeOK
<1>2. \A k \in Job \ {j} : Unreported(k)' = Unreported(k)
  BY DEF Pop, Goto, Unreported, TypeOK
<1>3. UNCHANGED item /\ deferred' = deferred /\ completed' = completed
      /\ queued' = Minus(queued, j)
  BY DEF Pop
<1>4. \A k \in Job : /\ queued'[k] \in Int /\ deferred'[k] \in Int
                       /\ completed'[k] \in Int
  BY <1>3 DEF TypeOK, Minus
<1>5. \A k \in Job :
        queued'[k] + deferred'[k] + completed'[k] + (IF Unreported(k)' THEN 1 ELSE 0)
          = queued[k] + deferred[k] + completed[k] + (IF Unreported(k) THEN 1 ELSE 0)
  BY <1>1, <1>2, <1>3 DEF Minus, TypeOK
<1> QED
  BY <1>3, <1>4, <1>5, MovesOnce

LEMMA DeferMoves ==
  ASSUME TypeOK, NEW j \in Job, Defer(j)
  PROVE  Conserved
<1>1. Unreported(j) /\ ~Unreported(j)'
  BY DEF Defer, Ends, Goto, Unreported, TypeOK
<1>2. \A k \in Job \ {j} : Unreported(k)' = Unreported(k)
  BY DEF Defer, Ends, Goto, Unreported, TypeOK
<1>3. UNCHANGED item /\ queued' = queued /\ completed' = completed
      /\ deferred' = Plus(deferred, j)
  BY DEF Defer
<1>4. \A k \in Job : /\ queued'[k] \in Int /\ deferred'[k] \in Int
                       /\ completed'[k] \in Int
  BY <1>3 DEF TypeOK, Plus
<1>5. \A k \in Job :
        queued'[k] + deferred'[k] + completed'[k] + (IF Unreported(k)' THEN 1 ELSE 0)
          = queued[k] + deferred[k] + completed[k] + (IF Unreported(k) THEN 1 ELSE 0)
  BY <1>1, <1>2, <1>3 DEF Plus, TypeOK
<1> QED
  BY <1>3, <1>4, <1>5, MovesOnce

LEMMA ReportMoves ==
  ASSUME TypeOK, NEW j \in Job, Report(j)
  PROVE  Conserved
<1>1. Unreported(j) /\ ~Unreported(j)'
  BY DEF Report, Goto, Unreported, TypeOK
<1>2. \A k \in Job \ {j} : Unreported(k)' = Unreported(k)
  BY DEF Report, Goto, Unreported, TypeOK
<1>3. UNCHANGED item /\ queued' = queued /\ deferred' = deferred
      /\ completed' = Plus(completed, j)
  BY DEF Report
<1>4. \A k \in Job : /\ queued'[k] \in Int /\ deferred'[k] \in Int
                       /\ completed'[k] \in Int
  BY <1>3 DEF TypeOK, Plus
<1>5. \A k \in Job :
        queued'[k] + deferred'[k] + completed'[k] + (IF Unreported(k)' THEN 1 ELSE 0)
          = queued[k] + deferred[k] + completed[k] + (IF Unreported(k) THEN 1 ELSE 0)
  BY <1>1, <1>2, <1>3 DEF Plus, TypeOK
<1> QED
  BY <1>3, <1>4, <1>5, MovesOnce

(* LPOP puts an entry in no other hand; RPUSH takes it from the only one. *)
LEMMA DrainPopMoves ==
  ASSUME TypeOK, JobInOnePlace, NEW d \in Drainer, NEW j \in Job, DrainPop(d, j)
  PROVE  Conserved /\ \A e \in Drainer : item[e] # j
<1>1. ~InHand(j)
  BY DEF DrainPop, JobInOnePlace, Places, TypeOK
<1>2. InHand(j)'
  BY DEF DrainPop, InHand, TypeOK
<1>3. \A k \in Job \ {j} : InHand(k)' = InHand(k)
  BY BranchLockAssumption DEF DrainPop, InHand, TypeOK
<1>4. \A k \in Job : Unreported(k)' = Unreported(k)
  BY DEF DrainPop, Unreported, coros
<1>5. queued' = queued /\ completed' = completed /\ deferred' = Minus(deferred, j)
  BY DEF DrainPop
<1>6. ASSUME NEW k \in Job PROVE Places(k)' = Places(k)
  <2>1. CASE k = j
    BY <2>1, <1>1, <1>2, <1>4, <1>5 DEF Places, Minus, TypeOK
  <2>2. CASE k # j
    BY <2>2, <1>3, <1>4, <1>5 DEF Places, Minus, TypeOK
  <2> QED
    BY <2>1, <2>2
<1> QED
  BY <1>1, <1>6 DEF Conserved, InHand

LEMMA DrainPushMoves ==
  ASSUME TypeOK, JobInOnePlace, NEW d \in Drainer, DrainPush(d)
  PROVE  Conserved
<1>0. PICK j \in Job : item[d] = j
  BY DEF DrainPush, TypeOK
<1>1. InHand(j)
  BY <1>0 DEF InHand
<1>2. ~InHand(j)'
  <2>1. item' = [item EXCEPT ![d] = None] /\ j # None
    BY <1>0 DEF DrainPush
  <2>2. \A e \in Drainer : item[e] = j => e = d
    BY <1>0 DEF JobInOnePlace
  <2>3. item'[d] = None
    BY <2>1 DEF TypeOK
  <2>4. ASSUME NEW e \in Drainer, item'[e] = j PROVE FALSE
    <3>1. e # d
      BY <2>1, <2>3, <2>4
    <3>2. item[e] = j
      BY <2>1, <2>4, <3>1 DEF TypeOK
    <3> QED
      BY <2>2, <3>1, <3>2
  <2> QED
    BY <2>4 DEF InHand
<1>3. \A k \in Job \ {j} : InHand(k)' = InHand(k)
  BY <1>0, BranchLockAssumption DEF DrainPush, InHand, TypeOK
<1>4. \A k \in Job : Unreported(k)' = Unreported(k)
  BY DEF DrainPush, Unreported, coros
<1>5. deferred' = deferred /\ completed' = completed /\ queued' = Plus(queued, j)
  BY <1>0 DEF DrainPush
<1>6. ASSUME NEW k \in Job PROVE Places(k)' = Places(k)
  <2>1. CASE k = j
    BY <2>1, <1>0, <1>1, <1>2, <1>4, <1>5 DEF Places, Plus, TypeOK
  <2>2. CASE k # j
    BY <2>2, <1>0, <1>3, <1>4, <1>5 DEF Places, Plus, TypeOK
  <2> QED
    BY <2>1, <2>2
<1> QED
  BY <1>6 DEF Conserved

Shrinks == breaks' = breaks + 1 /\ \A k \in Job : Places(k)' <= Places(k)

LEMMA BreakShrinks ==
  ASSUME TypeOK, UNCHANGED lists, breaks' = breaks + 1,
         \A d \in Drainer : item'[d] \in {item[d], None},
         \A k \in Job : Unreported(k)' => Unreported(k)
  PROVE  Shrinks
<1>1. \A k \in Job : InHand(k)' => InHand(k)
  BY BranchLockAssumption DEF InHand
<1> QED
  BY <1>1 DEF Shrinks, Places, lists, TypeOK

LEMMA CrashShrinks ==
  ASSUME TypeOK, NEW w \in Worker, Crash(w)
  PROVE  Shrinks
<1>1. \A d \in Drainer : item'[d] \in {item[d], None}
  BY DEF Crash
<1>2. \A k \in Job : Unreported(k)' => Unreported(k)
  BY DEF Crash, Broken, Unreported
<1>3. UNCHANGED lists /\ breaks' = breaks + 1
  BY DEF Crash, Broken
<1> QED
  BY <1>1, <1>2, <1>3, BreakShrinks

LEMMA RedisFailsShrinks ==
  ASSUME TypeOK, NEW j \in Job, RedisFails(j)
  PROVE  Shrinks
<1>1. \A d \in Drainer : item'[d] \in {item[d], None}
  BY DEF RedisFails
<1>2. \A k \in Job : Unreported(k)' => Unreported(k)
  BY DEF RedisFails, Broken, Unreported
<1>3. UNCHANGED lists /\ breaks' = breaks + 1
  BY DEF RedisFails, Broken
<1> QED
  BY <1>1, <1>2, <1>3, BreakShrinks

LEMMA PushFailsShrinks ==
  ASSUME TypeOK, NEW d \in Drainer, PushFails(d)
  PROVE  Shrinks
<1>1. \A e \in Drainer : item'[e] \in {item[e], None}
  BY DEF PushFails, TypeOK
<1>2. \A k \in Job : Unreported(k)' => Unreported(k)
  BY DEF PushFails, Unreported, coros
<1>3. UNCHANGED lists /\ breaks' = breaks + 1
  BY DEF PushFails
<1> QED
  BY <1>1, <1>2, <1>3, BreakShrinks

(* Every step but a submission keeps a job in as many places as it was in, *)
(* or, when something breaks, in fewer.                                    *)
LEMMA PlacesNext ==
  ASSUME TypeOK, JobInOnePlace, [Next]_vars
  PROVE  Conserved \/ Shrinks \/ \E j \in Job : Submit(j)
<1> USE DEF TypeOK
<1>1. CASE UNCHANGED vars
  BY <1>1, StaysPut DEF vars, coros, Unreported
<1>2. ASSUME NEW w \in Worker, NEW j \in Job, Pop(w, j) PROVE Conserved
  BY <1>2, PopMoves
<1>3. ASSUME NEW j \in Job, Defer(j) PROVE Conserved
  BY <1>3, DeferMoves
<1>4. ASSUME NEW j \in Job, Report(j) PROVE Conserved
  BY <1>4, ReportMoves
<1>5. ASSUME NEW j \in Job, SetLock(j) PROVE Conserved
  BY <1>5, StaysPut DEF SetLock, Goto, Unreported
<1>6. ASSUME NEW j \in Job, Record(j) \/ Admit(j) \/ TestEnds(j) PROVE Conserved
  BY <1>6, StaysPut DEF Record, Admit, TestEnds, Goto, Unreported
<1>7. ASSUME NEW j \in Job, Erase(j) \/ Unlock(j) PROVE Conserved
  BY <1>7, StaysPut DEF Erase, Unlock, Goto, Unreported
<1>8. ASSUME NEW j \in Job, Finish(j) PROVE Conserved
  BY <1>8, StaysPut DEF Finish, Ends, Goto, Unreported
<1>9. ASSUME NEW d \in Drainer, NEW j \in Job, DrainPop(d, j) PROVE Conserved
  BY <1>9, DrainPopMoves
<1>10. ASSUME NEW d \in Drainer, DrainPush(d) PROVE Conserved
  BY <1>10, DrainPushMoves
<1>11. ASSUME NEW b \in Branch, RecoverSkip(b) \/ RecoverBegin(b) PROVE Conserved
  BY <1>11, StaysPut DEF RecoverSkip, RecoverBegin, coros, Unreported
<1>12. CASE RecoverEnd
  BY <1>12, StaysPut DEF RecoverEnd, coros, Unreported
<1>13. ASSUME NEW w \in Worker, Restart(w) PROVE Conserved
  BY <1>13, StaysPut DEF Restart, coros, Unreported
<1>14. ASSUME NEW b \in Branch, LockExpires(b) PROVE Conserved
  BY <1>14, StaysPut DEF LockExpires, coros, Unreported
<1>15. ASSUME NEW j \in Job, RecordExpires(j) PROVE Conserved
  BY <1>15, StaysPut DEF RecordExpires, coros, Unreported
<1> QED
  BY <1>1, <1>2, <1>3, <1>4, <1>5, <1>6, <1>7, <1>8, <1>9, <1>10, <1>11, <1>12,
     <1>13, <1>14, <1>15, CrashShrinks, RedisFailsShrinks, PushFailsShrinks
  DEF Next, Coroutine, Recover, Drain, Drainer

(* No two drains have the same entry in hand. *)
LEMMA HandsNext ==
  ASSUME TypeOK, JobInOnePlace, [Next]_vars
  PROVE  \A j \in Job : \A d, e \in Drainer : item'[d] = j /\ item'[e] = j => d = e
<1> DEFINE Goal == \A j \in Job : \A d, e \in Drainer :
                     item'[d] = j /\ item'[e] = j => d = e
<1>0. \A j \in Job : \A d, e \in Drainer : item[d] = j /\ item[e] = j => d = e
  BY DEF JobInOnePlace
<1>1. ASSUME \A d \in Drainer : item'[d] \in {item[d], None} PROVE Goal
  BY <1>0, <1>1, BranchLockAssumption
<1>2. ASSUME NEW d \in Drainer, NEW j \in Job, DrainPop(d, j) PROVE Goal
  <2>1. \A e \in Drainer : item[e] # j
    BY <1>2, DrainPopMoves
  <2> QED
    BY <1>0, <1>2, <2>1 DEF DrainPop, TypeOK
<1>3. ASSUME UNCHANGED item PROVE Goal
  BY <1>0, <1>3
<1>4. ASSUME NEW d \in Drainer, DrainPush(d) \/ PushFails(d) PROVE Goal
  <2>1. \A e \in Drainer : item'[e] \in {item[e], None}
    BY <1>4 DEF DrainPush, PushFails, TypeOK
  <2> QED
    BY <2>1, <1>1
<1>5. ASSUME NEW w \in Worker, Crash(w) PROVE Goal
  <2>1. \A e \in Drainer : item'[e] \in {item[e], None}
    BY <1>5 DEF Crash
  <2> QED
    BY <2>1, <1>1
<1>6. ASSUME NEW j \in Job,
             \/ Submit(j) \/ SetLock(j) \/ Defer(j) \/ Record(j) \/ Admit(j)
             \/ TestEnds(j) \/ Report(j) \/ Erase(j) \/ Unlock(j) \/ Finish(j)
             \/ RedisFails(j) \/ RecordExpires(j)
      PROVE  Goal
  BY <1>3, <1>6 DEF Submit, SetLock, Defer, Record, Admit, TestEnds, Report, Erase,
              Unlock, Finish, RedisFails, RecordExpires
<1>7. ASSUME NEW w \in Worker, Restart(w) \/ (\E j \in Job : Pop(w, j))
      PROVE  Goal
  BY <1>3, <1>7 DEF Restart, Pop
<1>8. ASSUME NEW b \in Branch, RecoverSkip(b) \/ RecoverBegin(b) \/ LockExpires(b)
      PROVE  Goal
  BY <1>3, <1>8 DEF RecoverSkip, RecoverBegin, LockExpires
<1>9. ASSUME RecoverEnd PROVE Goal
  BY <1>9, <1>3 DEF RecoverEnd
<1>10. ASSUME UNCHANGED vars PROVE Goal
  BY <1>10, <1>3 DEF vars
<1> HIDE DEF Goal
<1>11. Goal
  BY <1>2, <1>4, <1>5, <1>6, <1>7, <1>8, <1>9, <1>10
  DEF Next, Coroutine, Recover, Drain, Drainer
<1> QED
  BY <1>11 DEF Goal

LEMMA SubmitPlaces ==
  ASSUME TypeOK, JobInOnePlace, UnknownIsNowhere, NEW j \in Job, Submit(j)
  PROVE  /\ Places(j) = 0 /\ Places(j)' = 1
         /\ \A k \in Job \ {j} : Places(k)' = Places(k)
<1>1. \A k \in Job : InHand(k)' = InHand(k) /\ Unreported(k)' = Unreported(k)
  BY DEF Submit, InHand, Unreported, coros
<1>2. Places(j) = 0
  BY DEF UnknownIsNowhere, Submit
<1>3. Places(j)' = 1
  BY <1>1, <1>2 DEF Submit, Places, Plus, TypeOK
<1>4. ASSUME NEW k \in Job, k # j PROVE Places(k)' = Places(k)
  BY <1>1, <1>4 DEF Submit, Places, Plus, TypeOK
<1> QED
  BY <1>2, <1>3, <1>4

LEMMA KnownNext ==
  ASSUME [Next]_vars, ~\E j \in Job : Submit(j)
  PROVE  known' = known
BY DEF Next, vars, Coroutine, Recover, Drain, Drainer, Crash, Restart, Pop,
       LockExpires, RecordExpires, RedisFails, PushFails, SetLock, Defer, Record,
       Admit, TestEnds, Report, Erase, Unlock, DrainPop, DrainPush, Finish,
       RecoverSkip, RecoverBegin, RecoverEnd

PlacesInv == TypeOK /\ JobInOnePlace /\ UnknownIsNowhere /\ NoJobLost

LEMMA PlacesInvInit == Init => PlacesInv
<1> SUFFICES ASSUME Init PROVE PlacesInv
  OBVIOUS
<1>1. TypeOK
  BY TypeInit
<1>2. \A j \in Job : Places(j) = 0
  BY BranchLockAssumption DEF Init, Places, InHand, Unreported
<1>3. \A d \in Drainer : item[d] = None
  BY DEF Init
<1> QED
  BY <1>1, <1>2, <1>3, BranchLockAssumption
  DEF PlacesInv, JobInOnePlace, UnknownIsNowhere, NoJobLost, Init

LEMMA BreaksGrow ==
  ASSUME TypeOK, [Next]_vars
  PROVE  breaks' \in Nat /\ (breaks' = 0 => breaks = 0)
BY BranchLockAssumption
   DEF TypeOK, Next, vars, Coroutine, Recover, Drain, Drainer, Crash, Broken,
       Restart, Pop, Submit, LockExpires, RecordExpires, RedisFails, PushFails,
       SetLock, Defer, Record, Admit, TestEnds, Report, Erase, Unlock, DrainPop,
       DrainPush, Finish, RecoverSkip, RecoverBegin, RecoverEnd

LEMMA PlacesInvNext == PlacesInv /\ [Next]_vars => PlacesInv'
<1> SUFFICES ASSUME PlacesInv, [Next]_vars PROVE PlacesInv'
  OBVIOUS
<1>1. TypeOK /\ JobInOnePlace /\ UnknownIsNowhere /\ NoJobLost
  BY DEF PlacesInv
<1>2. TypeOK'
  BY <1>1, TypeNext
<1>3. \A k \in Job : Places(k) \in Nat /\ Places(k)' \in Nat
  BY <1>1, <1>2 DEF TypeOK, Places
<1>4. \A j \in Job : \A d, e \in Drainer : item'[d] = j /\ item'[e] = j => d = e
  BY <1>1, HandsNext
<1>5. breaks' \in Nat /\ (breaks' = 0 => breaks = 0)
  BY <1>1, BreaksGrow
<1>6. ASSUME NEW j \in Job, Submit(j) PROVE PlacesInv'
  <2>1. /\ Places(j)' = 1 /\ known' = known \cup {j}
        /\ \A k \in Job \ {j} : Places(k)' = Places(k)
    BY <1>1, <1>6, SubmitPlaces DEF Submit
  <2>2. JobInOnePlace'
    BY <1>1, <1>4, <2>1 DEF JobInOnePlace
  <2>3. UnknownIsNowhere'
    BY <1>1, <2>1 DEF UnknownIsNowhere
  <2>4. NoJobLost'
    BY <1>1, <1>2, <1>5, <2>1 DEF NoJobLost, TypeOK
  <2> QED
    BY <1>2, <2>2, <2>3, <2>4 DEF PlacesInv
<1>7. CASE Conserved /\ ~\E j \in Job : Submit(j)
  <2>1. known' = known
    BY <1>7, KnownNext
  <2>2. JobInOnePlace'
    BY <1>1, <1>4, <1>7 DEF JobInOnePlace, Conserved
  <2>3. UnknownIsNowhere'
    BY <1>1, <1>7, <2>1 DEF UnknownIsNowhere, Conserved
  <2>4. NoJobLost'
    BY <1>1, <1>5, <1>7, <2>1 DEF NoJobLost, Conserved, TypeOK
  <2> QED
    BY <1>2, <2>2, <2>3, <2>4 DEF PlacesInv
<1>8. CASE Shrinks /\ ~\E j \in Job : Submit(j)
  <2>1. known' = known
    BY <1>8, KnownNext
  <2>2. breaks' # 0
    BY <1>1, <1>8 DEF Shrinks, TypeOK
  <2>3. JobInOnePlace'
    BY <1>1, <1>3, <1>4, <1>8 DEF JobInOnePlace, Shrinks
  <2>4. UnknownIsNowhere'
    BY <1>1, <1>3, <1>8, <2>1 DEF UnknownIsNowhere, Shrinks
  <2> QED
    BY <1>2, <2>2, <2>3, <2>4 DEF PlacesInv, NoJobLost
<1> QED
  BY <1>1, <1>6, <1>7, <1>8, PlacesNext

LEMMA PlacesInvariant == Spec => []PlacesInv
<1>1. Init => PlacesInv
  BY PlacesInvInit
<1>2. PlacesInv /\ [Next]_vars => PlacesInv'
  BY PlacesInvNext
<1> QED
  BY <1>1, <1>2, PTL DEF Spec

(* No order of pops, deferrals, drains, failures, expiries and recoveries  *)
(* puts a test in two places: it is never run or reported twice.           *)
THEOREM LockJobInOnePlace == Spec => []JobInOnePlace
<1>1. PlacesInv => JobInOnePlace
  BY DEF PlacesInv
<1> QED
  BY <1>1, PlacesInvariant, PTL

(* Without a failure no test is lost between the lists. *)
THEOREM LockNoJobLost == Spec => []NoJobLost
<1>1. PlacesInv => NoJobLost
  BY DEF PlacesInv
<1> QED
  BY <1>1, PlacesInvariant, PTL

-----------------------------------------------------------------------------
(* Release.                                                                *)

(* Until something breaks, a lock that is set has a coroutine of its       *)
(* branch between SET NX and DEL: the one that will delete it.             *)
LockIsHeld ==
  breaks = 0 =>
    \A b \in Branch, k \in Job : lock[b] = k => Holds(k) /\ BranchOf[k] = b

(* A job whose coroutine has reported it is in the history; so no worker   *)
(* pops it again while that coroutine still has to delete the lock.        *)
ReportedIsEntered ==
  \A j \in Job : pc[j] \in {"erasing", "unlocking", "draining"} => completed[j] >= 1

LEMMA EnteredNext ==
  TypeOK /\ JobInOnePlace /\ ReportedIsEntered /\ [Next]_vars => ReportedIsEntered'
<1> SUFFICES ASSUME TypeOK, JobInOnePlace, ReportedIsEntered, [Next]_vars, NEW k \in Job,
                    pc'[k] \in {"erasing", "unlocking", "draining"}
             PROVE  completed'[k] >= 1
  BY DEF ReportedIsEntered
<1> USE BranchLockAssumption DEF TypeOK, Steps, ReportedIsEntered
<1>1. CASE completed' = completed /\ pc[k] \in {"erasing", "unlocking", "draining"}
  BY <1>1
<1>2. CASE pc' = pc /\ completed' = completed
  BY <1>2
<1>3. ASSUME NEW j \in Job, Report(j) PROVE completed'[k] >= 1
  <2>1. completed' = Plus(completed, j)
        /\ (k # j => pc[k] \in {"erasing", "unlocking", "draining"})
    BY <1>3 DEF Report, Goto
  <2> QED
    BY <2>1 DEF Plus
<1>4. ASSUME NEW j \in Job,
             \/ SetLock(j) \/ Defer(j) \/ Record(j) \/ Admit(j) \/ TestEnds(j)
             \/ Erase(j) \/ Unlock(j) \/ Finish(j) \/ RedisFails(j)
             \/ \E w \in Worker : Pop(w, j)
      PROVE  completed'[k] >= 1
  <2>1. completed' = completed
    BY <1>4 DEF SetLock, Defer, Record, Admit, TestEnds, Erase, Unlock, Finish,
                RedisFails, Pop, lists
  <2>2. pc[k] \in {"erasing", "unlocking", "draining"}
    BY <1>4 DEF SetLock, Defer, Record, Admit, TestEnds, Erase, Unlock, Finish,
                RedisFails, Broken, Pop, Goto, Ends
  <2> QED
    BY <2>1, <2>2
<1>5. ASSUME NEW w \in Worker, Crash(w) PROVE completed'[k] >= 1
  BY <1>5 DEF Crash, Broken, lists
<1>6. CASE UNCHANGED vars
  BY <1>6 DEF vars, lists, coros
<1>7. ASSUME NEW d \in Drainer,
             DrainPush(d) \/ PushFails(d) \/ (\E j \in Job : DrainPop(d, j))
      PROVE  completed'[k] >= 1
  BY <1>7 DEF DrainPop, DrainPush, PushFails, lists, coros
<1>8. ASSUME NEW j \in Job, Submit(j) \/ RecordExpires(j) PROVE completed'[k] >= 1
  BY <1>8 DEF Submit, RecordExpires, lists, coros
<1>9. ASSUME NEW b \in Branch, RecoverSkip(b) \/ RecoverBegin(b) \/ LockExpires(b)
      PROVE  completed'[k] >= 1
  BY <1>9 DEF RecoverSkip, RecoverBegin, LockExpires, lists, coros
<1>10. ASSUME NEW w \in Worker, Restart(w) \/ RecoverEnd PROVE completed'[k] >= 1
  BY <1>10 DEF Restart, RecoverEnd, lists, coros
<1> QED
  BY <1>3, <1>4, <1>5, <1>6, <1>7, <1>8, <1>9, <1>10
  DEF Next, Coroutine, Recover, Drain, Drainer

LEMMA LockIsHeldNext ==
  TypeOK /\ JobInOnePlace /\ ReportedIsEntered /\ LockIsHeld /\ [Next]_vars => LockIsHeld'
<1> SUFFICES ASSUME TypeOK, JobInOnePlace, ReportedIsEntered, LockIsHeld, [Next]_vars,
                    breaks' = 0, NEW b \in Branch, NEW h \in Job, lock'[b] = h
             PROVE  Holds(h)' /\ BranchOf[h] = b
  BY DEF LockIsHeld
<1>0. /\ breaks = 0 /\ breaks' # breaks + 1
      /\ \A c \in Branch, k \in Job : lock[c] = k => Holds(k) /\ BranchOf[k] = c
  BY BreaksGrow DEF LockIsHeld, TypeOK
<1> DEFINE Goal == Holds(h)' /\ BranchOf[h] = b
<1>1. (lock' = lock \/ \E c \in Branch : lock' = [lock EXCEPT ![c] = None])
      /\ (\A k \in Job : Holds(k) /\ (\E c \in Branch : lock'[c] = k) => Holds(k)')
      => Goal
  BY <1>0, BranchLockAssumption DEF TypeOK
<1>2. UNCHANGED coros => \A k \in Job : Holds(k) => Holds(k)'
  BY DEF coros, Holds
<1>3. CASE UNCHANGED vars
  BY <1>1, <1>2, <1>3 DEF vars
<1>4. ASSUME NEW j \in Job, Submit(j) \/ RecordExpires(j) PROVE Goal
  BY <1>1, <1>2, <1>4 DEF Submit, RecordExpires
<1>5. ASSUME NEW w \in Worker, NEW j \in Job, Pop(w, j) PROVE Goal
  <2>1. ~Holds(j)
    <3>1. queued[j] >= 1 /\ deferred[j] >= 0 /\ Places(j) <= 1
      BY <1>5 DEF Pop, TypeOK, JobInOnePlace
    <3>2. ~Unreported(j) /\ ~(completed[j] >= 1)
      BY <3>1 DEF Places, TypeOK
    <3> QED
      BY <3>2 DEF Holds, Unreported, ReportedIsEntered
  <2>2. lock' = lock /\ pc' = [pc EXCEPT ![j] = "locking"]
    BY <1>5 DEF Pop, Goto
  <2>3. \A k \in Job : Holds(k) => Holds(k)'
    BY <2>1, <2>2 DEF Holds, TypeOK
  <2> QED
    BY <1>1, <2>2, <2>3
<1>6. ASSUME NEW j \in Job, SetLock(j) PROVE Goal
  <2>1. pc[j] = "locking" /\ ~Holds(j) /\ \A c \in Branch : lock[c] # j
    BY <1>0, <1>6, BranchLockAssumption DEF SetLock, Holds
  <2>2. CASE lock[BranchOf[j]] = None
    <3>1. /\ lock' = [lock EXCEPT ![BranchOf[j]] = j]
          /\ pc' = [pc EXCEPT ![j] = "recording"]
      BY <1>6, <2>2 DEF SetLock, Goto
    <3>2. CASE b = BranchOf[j]
      BY <3>1, <3>2 DEF Holds, TypeOK
    <3>3. CASE b # BranchOf[j]
      <4>1. lock[b] = h /\ h # j
        BY <2>1, <3>1, <3>3 DEF TypeOK
      <4> QED
        BY <1>0, <3>1, <4>1 DEF Holds, TypeOK
    <3> QED
      BY <3>2, <3>3
  <2>3. CASE lock[BranchOf[j]] # None
    <3>1. lock' = lock /\ pc' = [pc EXCEPT ![j] = "deferring"]
      BY <1>6, <2>3 DEF SetLock, Goto
    <3>2. \A k \in Job : Holds(k) => Holds(k)'
      BY <2>1, <3>1 DEF Holds, TypeOK
    <3> QED
      BY <1>1, <3>1, <3>2
  <2> QED
    BY <2>2, <2>3
<1>7. ASSUME NEW j \in Job, Defer(j) \/ Finish(j) PROVE Goal
  <2>1. lock' = lock /\ ~Holds(j) /\ pc' = [pc EXCEPT ![j] = "none"]
    BY <1>7 DEF Defer, Finish, Ends, Goto, Holds
  <2>2. \A k \in Job : Holds(k) => Holds(k)'
    BY <2>1 DEF Holds, TypeOK
  <2> QED
    BY <1>1, <2>1, <2>2
<1>8. ASSUME NEW j \in Job,
             Record(j) \/ Admit(j) \/ TestEnds(j) \/ Report(j) \/ Erase(j)
      PROVE  Goal
  <2>1. lock' = lock
    BY <1>8 DEF Record, Admit, TestEnds, Report, Erase
  <2>2. \A k \in Job : Holds(k) => Holds(k)'
    BY <1>8 DEF Record, Admit, TestEnds, Report, Erase, Goto, Holds, TypeOK
  <2> QED
    BY <1>1, <2>1, <2>2
<1>9. ASSUME NEW j \in Job, Unlock(j) PROVE Goal
  <2>1. /\ lock' = [lock EXCEPT ![BranchOf[j]] = None]
        /\ pc' = [pc EXCEPT ![j] = "draining"]
    BY <1>9 DEF Unlock, Goto
  <2>2. BranchOf[j] \in Branch
    BY BranchLockAssumption
  <2>3. \A c \in Branch : lock'[c] # j
    BY <1>0, <2>1, <2>2, BranchLockAssumption DEF TypeOK
  <2>4. \A k \in Job : Holds(k) /\ k # j => Holds(k)'
    BY <2>1 DEF Holds, TypeOK
  <2> QED
    BY <1>1, <2>1, <2>2, <2>3, <2>4
<1>10. ASSUME NEW d \in Drainer,
              DrainPush(d) \/ PushFails(d) \/ (\E j \in Job : DrainPop(d, j))
       PROVE  Goal
  BY <1>1, <1>2, <1>10 DEF DrainPop, DrainPush, PushFails
<1>11. ASSUME NEW c \in Branch, RecoverSkip(c) \/ RecoverBegin(c) PROVE Goal
  BY <1>1, <1>2, <1>11 DEF RecoverSkip, RecoverBegin
<1>12. CASE RecoverEnd
  BY <1>1, <1>2, <1>12 DEF RecoverEnd
<1>13. ASSUME NEW w \in Worker, Restart(w) PROVE Goal
  BY <1>1, <1>2, <1>13 DEF Restart
<1>14. ASSUME NEW c \in Branch, LockExpires(c) PROVE Goal
  BY <1>1, <1>2, <1>14 DEF LockExpires
<1>15. ASSUME NEW w \in Worker, Crash(w) PROVE Goal
  BY <1>0, <1>15 DEF Crash, Broken
<1>16. ASSUME NEW j \in Job, RedisFails(j) PROVE Goal
  BY <1>0, <1>16 DEF RedisFails, Broken
<1> QED
  BY <1>3, <1>4, <1>5, <1>6, <1>7, <1>8, <1>9, <1>10, <1>11, <1>12, <1>13, <1>14,
     <1>15, <1>16 DEF Next, Coroutine, Recover, Drain, Drainer

(* While nothing breaks, every lock that is set is held by a coroutine     *)
(* that goes on to delete it before it drains the deferred list: no lock   *)
(* stays behind, and a job is deferred only under such a holder.           *)
THEOREM LockHasHolder == Spec => []LockIsHeld
<1>1. Init => ReportedIsEntered /\ LockIsHeld
  BY BranchLockAssumption DEF Init, ReportedIsEntered, LockIsHeld
<1>2. PlacesInv => TypeOK /\ JobInOnePlace
  BY DEF PlacesInv
<1> QED
  BY <1>1, <1>2, PlacesInvariant, EnteredNext, LockIsHeldNext, PTL DEF Spec

-----------------------------------------------------------------------------
(* The refinement. *)

LedgerInv == PlacesInv /\ LockNamesHolder

LedgerVars == <<[j \in Job |-> StateOf(j)], breaks > 0>>

(* A step that leaves these alone is a stutter of the ledger. *)
LEMMA LedgerStutters ==
  ASSUME known' = known, completed' = completed, breaks' = breaks, Conserved,
         \A k \in Job : Executing(k)' = Executing(k)
  PROVE  UNCHANGED LedgerVars
<1>1. \A k \in Job : StateOf(k)' = StateOf(k)
  BY DEF StateOf, Conserved
<1> QED
  BY <1>1 DEF LedgerVars

LEMMA SubmitMaps ==
  ASSUME LedgerInv, NEW j \in Job, Submit(j)
  PROVE  Ledger!Submit(j)
<1> USE DEF LedgerInv, PlacesInv
<1>1. /\ Places(j) = 0 /\ Places(j)' = 1
      /\ \A k \in Job \ {j} : Places(k)' = Places(k)
  BY SubmitPlaces
<1>0. queued[j] \in Nat /\ deferred[j] \in Nat /\ completed[j] \in Nat
  BY DEF TypeOK
<1>2. completed[j] = 0 /\ ~Executing(j)
  <2>0. queued[j] + deferred[j] + completed[j] + (IF InHand(j) THEN 1 ELSE 0)
          + (IF Unreported(j) THEN 1 ELSE 0) = 0
    BY <1>1 DEF Places
  <2>1. ~Unreported(j) /\ completed[j] = 0
    BY <1>0, <2>0
  <2> QED
    BY <2>1 DEF Unreported, Executing
<1>3. /\ j \notin known /\ known' = known \cup {j} /\ completed' = completed
      /\ pc' = pc /\ breaks' = breaks
  BY DEF Submit, coros
<1>4. StateOf(j) = "unknown" /\ StateOf(j)' = "waiting"
  BY <1>1, <1>2, <1>3 DEF StateOf, Executing
<1>5. \A k \in Job \ {j} : StateOf(k)' = StateOf(k)
  BY <1>1, <1>3 DEF StateOf, Executing
<1> QED
  BY <1>3, <1>4, <1>5 DEF Ledger!Submit

(* The lock makes the job that gets past it the only one on its branch. *)
LEMMA RecordMaps ==
  ASSUME LedgerInv, NEW j \in Job, Record(j)
  PROVE  Ledger!Run(j)
<1> USE DEF LedgerInv, PlacesInv
<1>1. Conserved
  BY StaysPut DEF Record, Goto, Unreported, TypeOK
<1>2. /\ known' = known /\ completed' = completed /\ breaks' = breaks
      /\ pc[j] = "recording" /\ pc' = [pc EXCEPT ![j] = "admitting"]
  BY DEF Record, Goto, lists
<1>0. queued[j] \in Nat /\ deferred[j] \in Nat /\ completed[j] \in Nat
  BY DEF TypeOK
<1>3. Places(j) = 1 /\ completed[j] = 0
  <2>1. Unreported(j) /\ Places(j) <= 1
    BY <1>2 DEF JobInOnePlace, Unreported
  <2> QED
    BY <1>0, <2>1 DEF Places
<1>4. j \in known
  BY <1>3 DEF UnknownIsNowhere
<1>5. StateOf(j) = "waiting" /\ StateOf(j)' = "running"
  BY <1>1, <1>2, <1>3, <1>4 DEF StateOf, Executing, Conserved, TypeOK
<1>6. \A k \in Job \ {j} : StateOf(k)' = StateOf(k)
  BY <1>1, <1>2 DEF StateOf, Executing, Conserved, TypeOK
<1>7. ASSUME NEW k \in Job, BranchOf[k] = BranchOf[j], StateOf(k) = "running"
      PROVE  FALSE
  <2>1. Executing(k)
    BY <1>7 DEF StateOf
  <2>2. k = j
    BY <1>2, <1>7, <2>1 DEF LockNamesHolder, Holds, Executing
  <2> QED
    BY <1>5, <1>7, <2>2
<1> QED
  BY <1>2, <1>5, <1>6, <1>7 DEF Ledger!Run

LEMMA ReportMaps ==
  ASSUME LedgerInv, NEW j \in Job, Report(j)
  PROVE  Ledger!Complete(j)
<1> USE DEF LedgerInv, PlacesInv
<1>1. Conserved
  BY ReportMoves
<1>2. /\ known' = known /\ completed' = Plus(completed, j) /\ breaks' = breaks
      /\ pc[j] = "reporting" /\ pc' = [pc EXCEPT ![j] = "erasing"]
  BY DEF Report, Goto
<1>0. queued[j] \in Nat /\ deferred[j] \in Nat /\ completed[j] \in Nat
  BY DEF TypeOK
<1>3. Places(j) = 1 /\ completed[j] = 0
  <2>1. Unreported(j) /\ Places(j) <= 1
    BY <1>2 DEF JobInOnePlace, Unreported
  <2> QED
    BY <1>0, <2>1 DEF Places
<1>4. j \in known
  BY <1>3 DEF UnknownIsNowhere
<1>5. StateOf(j) = "running" /\ StateOf(j)' = "completed"
  BY <1>2, <1>3, <1>4 DEF StateOf, Executing, Plus, TypeOK
<1>6. \A k \in Job \ {j} : StateOf(k)' = StateOf(k)
  BY <1>1, <1>2 DEF StateOf, Executing, Conserved, Plus, TypeOK
<1> QED
  BY <1>2, <1>5, <1>6 DEF Ledger!Complete

LEMMA BreakMaps ==
  ASSUME LedgerInv, UNCHANGED <<lists, known>>, breaks' = breaks + 1,
         \A d \in Drainer : item'[d] \in {item[d], None},
         \A k \in Job : pc'[k] \in {pc[k], "none"}
  PROVE  Ledger!Break
<1> USE DEF LedgerInv, PlacesInv
<1>1. \A k \in Job : InHand(k)' => InHand(k)
  BY BranchLockAssumption DEF InHand
<1>2. \A k \in Job : Unreported(k)' => Unreported(k)
  BY DEF Unreported
<1>3. ASSUME NEW k \in Job
      PROVE  \/ StateOf(k)' = StateOf(k)
             \/ StateOf(k)' = "lost" /\ StateOf(k) \in {"waiting", "running"}
  <2>1. CASE k \notin known \/ completed[k] > 0
    BY <2>1 DEF StateOf, lists
  <2>2. CASE k \in known /\ ~(completed[k] > 0) /\ Places(k)' = 0
    <3>1. StateOf(k)' = "lost"
      BY <2>2 DEF StateOf, lists
    <3>2. StateOf(k) \in {"lost", "waiting", "running"}
      BY <2>2 DEF StateOf
    <3> QED
      BY <3>1, <3>2
  <2>3. CASE k \in known /\ ~(completed[k] > 0) /\ Places(k)' # 0
    <3>1. /\ queued'[k] = queued[k] /\ deferred'[k] = deferred[k]
          /\ completed'[k] = completed[k]
          /\ queued[k] \in Nat /\ deferred[k] \in Nat /\ completed[k] \in Nat
      BY DEF lists, TypeOK
    <3>2. Places(k) <= 1
      BY DEF JobInOnePlace
    <3>3. Places(k) # 0 /\ (Unreported(k) => Unreported(k)')
      BY <1>1, <1>2, <2>3, <3>1, <3>2 DEF Places
    <3>4. Executing(k)' = Executing(k)
      BY <3>3 DEF Executing, Unreported
    <3> QED
      BY <2>3, <3>1, <3>3, <3>4 DEF StateOf
  <2> QED
    BY <2>1, <2>2, <2>3
<1> DEFINE s == [j \in Job |-> StateOf(j)]
           L == {j \in Job : /\ s[j] \in {"waiting", "running"}
                             /\ StateOf(j)' = "lost"}
<1>4. [j \in Job |-> StateOf(j)'] = [j \in Job |-> IF j \in L THEN "lost" ELSE s[j]]
  BY <1>3
<1>5. L \in SUBSET {j \in Job : s[j] \in {"waiting", "running"}}
  OBVIOUS
<1>6. (breaks > 0)' = TRUE
  BY DEF TypeOK
<1> QED
  BY <1>4, <1>5, <1>6 DEF Ledger!Break

LEMMA LedgerInvInit == Init => LedgerInv
BY PlacesInvInit DEF LedgerInv, Init, LockNamesHolder, Holds

LEMMA LedgerInvNext ==
  ASSUME NeverExpiresLive PROVE LedgerInv /\ [Next]_vars => LedgerInv'
BY PlacesInvNext, HolderNext DEF LedgerInv, PlacesInv

LEMMA LedgerNext == LedgerInv /\ [Next]_vars => [Ledger!Next]_LedgerVars
<1> SUFFICES ASSUME LedgerInv, [Next]_vars PROVE [Ledger!Next]_LedgerVars
  OBVIOUS
<1> USE DEF LedgerInv, PlacesInv
<1> DEFINE Still == known' = known /\ completed' = completed /\ breaks' = breaks
<1>1. ASSUME NEW j \in Job, Submit(j) PROVE Ledger!Next
  BY <1>1, SubmitMaps DEF Ledger!Next
<1>2. ASSUME NEW j \in Job, Record(j) PROVE Ledger!Next
  BY <1>2, RecordMaps DEF Ledger!Next
<1>3. ASSUME NEW j \in Job, Report(j) PROVE Ledger!Next
  BY <1>3, ReportMaps DEF Ledger!Next
<1>4. ASSUME NEW w \in Worker, Crash(w) PROVE Ledger!Next
  <2>1. \A k \in Job : pc'[k] \in {pc[k], "none"}
    BY <1>4 DEF Crash, Broken
  <2>2. \A d \in Drainer : item'[d] \in {item[d], None}
    BY <1>4 DEF Crash
  <2> QED
    BY <1>4, <2>1, <2>2, BreakMaps DEF Crash, Broken, Ledger!Next
<1>5. ASSUME NEW j \in Job, RedisFails(j) PROVE Ledger!Next
  <2>1. \A k \in Job : pc'[k] \in {pc[k], "none"}
    BY <1>5 DEF RedisFails, Broken
  <2>2. \A d \in Drainer : item'[d] \in {item[d], None}
    BY <1>5 DEF RedisFails
  <2> QED
    BY <1>5, <2>1, <2>2, BreakMaps DEF RedisFails, Broken, Ledger!Next
<1>6. ASSUME NEW d \in Drainer, PushFails(d) PROVE Ledger!Next
  <2>1. \A k \in Job : pc'[k] \in {pc[k], "none"}
    BY <1>6 DEF PushFails, coros
  <2>2. \A e \in Drainer : item'[e] \in {item[e], None}
    BY <1>6 DEF PushFails, TypeOK
  <2> QED
    BY <1>6, <2>1, <2>2, BreakMaps DEF PushFails, Ledger!Next
<1>7. ASSUME NEW w \in Worker, NEW j \in Job, Pop(w, j) PROVE UNCHANGED LedgerVars
  <2>1. ~Unreported(j)
    BY <1>7 DEF Pop, JobInOnePlace, Places, TypeOK
  <2>2. \A k \in Job : Executing(k)' = Executing(k)
    BY <1>7, <2>1 DEF Pop, Goto, Executing, Unreported, TypeOK
  <2> QED
    BY <1>7, <2>2, PopMoves, LedgerStutters DEF Pop
<1>8. ASSUME NEW j \in Job, Defer(j) PROVE UNCHANGED LedgerVars
  <2>1. \A k \in Job : Executing(k)' = Executing(k)
    BY <1>8 DEF Defer, Ends, Goto, Executing, TypeOK
  <2> QED
    BY <1>8, <2>1, DeferMoves, LedgerStutters DEF Defer
<1>9. ASSUME NEW d \in Drainer, NEW j \in Job, DrainPop(d, j) PROVE UNCHANGED LedgerVars
  <2>1. \A k \in Job : Executing(k)' = Executing(k)
    BY <1>9 DEF DrainPop, coros, Executing
  <2> QED
    BY <1>9, <2>1, DrainPopMoves, LedgerStutters DEF DrainPop
<1>10. ASSUME NEW d \in Drainer, DrainPush(d) PROVE UNCHANGED LedgerVars
  <2>1. \A k \in Job : Executing(k)' = Executing(k)
    BY <1>10 DEF DrainPush, coros, Executing
  <2> QED
    BY <1>10, <2>1, DrainPushMoves, LedgerStutters DEF DrainPush
<1>11. ASSUME NEW j \in Job,
              SetLock(j) \/ Admit(j) \/ TestEnds(j) \/ Erase(j) \/ Unlock(j)
       PROVE  UNCHANGED LedgerVars
  <2>1. Still /\ UNCHANGED lists /\ UNCHANGED item
    BY <1>11 DEF SetLock, Admit, TestEnds, Erase, Unlock, lists
  <2>2. \A k \in Job : /\ Executing(k)' = Executing(k)
                       /\ Unreported(k)' = Unreported(k)
    BY <1>11 DEF SetLock, Admit, TestEnds, Erase, Unlock, Goto, Executing,
                 Unreported, TypeOK
  <2> QED
    BY <2>1, <2>2, StaysPut, LedgerStutters
<1>12. ASSUME NEW j \in Job, Finish(j) PROVE UNCHANGED LedgerVars
  <2>1. Still /\ UNCHANGED lists /\ UNCHANGED item
    BY <1>12 DEF Finish, lists
  <2>2. \A k \in Job : /\ Executing(k)' = Executing(k)
                       /\ Unreported(k)' = Unreported(k)
    BY <1>12 DEF Finish, Ends, Goto, Executing, Unreported, TypeOK
  <2> QED
    BY <2>1, <2>2, StaysPut, LedgerStutters
<1>13. ASSUME UNCHANGED <<known, lists, item, pc, breaks>>
       PROVE  UNCHANGED LedgerVars
  <2>1. Still /\ UNCHANGED lists /\ UNCHANGED item
    BY <1>13 DEF lists
  <2>2. \A k \in Job : /\ Executing(k)' = Executing(k)
                       /\ Unreported(k)' = Unreported(k)
    BY <1>13 DEF Executing, Unreported
  <2> QED
    BY <2>1, <2>2, StaysPut, LedgerStutters
<1>14. ASSUME NEW b \in Branch, RecoverSkip(b) \/ RecoverBegin(b) \/ LockExpires(b)
       PROVE  UNCHANGED LedgerVars
  BY <1>13, <1>14 DEF RecoverSkip, RecoverBegin, LockExpires, coros
<1>15. ASSUME RecoverEnd PROVE UNCHANGED LedgerVars
  BY <1>13, <1>15 DEF RecoverEnd, coros
<1>16. ASSUME NEW w \in Worker, Restart(w) PROVE UNCHANGED LedgerVars
  BY <1>13, <1>16 DEF Restart, coros
<1>17. ASSUME NEW j \in Job, RecordExpires(j) PROVE UNCHANGED LedgerVars
  BY <1>13, <1>17 DEF RecordExpires, coros
<1>18. ASSUME UNCHANGED vars PROVE UNCHANGED LedgerVars
  BY <1>13, <1>18 DEF vars, coros
<1> QED
  BY <1>1, <1>2, <1>3, <1>4, <1>5, <1>6, <1>7, <1>8, <1>9, <1>10, <1>11, <1>12,
     <1>14, <1>15, <1>16, <1>17, <1>18
  DEF Next, Coroutine, Recover, Drain, Drainer

(* The queues, the lock and the deferred lists implement the ledger: a     *)
(* test runs alone on its branch, at most once, and is lost only when a    *)
(* worker dies or a Redis command fails.                                   *)
THEOREM LockKeepsLedger ==
  ASSUME NeverExpiresLive PROVE Spec => LedgerKept
<1>1. Init => LedgerInv
  BY LedgerInvInit
<1>2. LedgerInv /\ [Next]_vars => LedgerInv'
  BY LedgerInvNext
<1>3. Init => Ledger!Init
  BY DEF Init, Ledger!Init, StateOf
<1>4. LedgerInv /\ [Next]_vars => [Ledger!Next]_LedgerVars
  BY LedgerNext
<1> QED
  BY <1>1, <1>2, <1>3, <1>4, PTL DEF Spec, LedgerKept, Ledger!Spec, LedgerVars
=============================================================================
