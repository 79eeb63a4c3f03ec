-------------------------- MODULE SysboxPoolProofs --------------------------
(***************************************************************************)
(* Proofs about the pool of Sysbox slots, for every number of slots, jobs, *)
(* waves, attempts and deaths, and with Docker failing or not.             *)
(***************************************************************************)
EXTENDS SysboxPool, FiniteSetTheorems, TLAPS

InHand == {"probing", "rebuilding", "holding", "wiping", "reiniting"}

(* A coroutine has a slot in hand exactly between the awaits where it      *)
(* should.                                                                 *)
HandsMatch == \A j \in Job : slotOf[j] # None <=> pc[j] \in InHand

(* Only a slot that came up in the warm-up is ever_ready, and the counters *)
(* follow.                                                                 *)
ReadyMatch ==
  /\ everReady = {s \in Slot : warm[s] = "ready"}
  /\ warmComplete => /\ \A s \in Slot : warm[s] \in {"ready", "failed"}
                     /\ degraded = Cardinality(Slot) - Cardinality(everReady)
  /\ readyCount = Cardinality(everReady)

(* Failures are not forgotten: a slot that is not up has failed in every   *)
(* wave so far, and one that release rebuilds in every attempt before this *)
(* one.                                                                    *)
FailsCount ==
  /\ \A s \in Slot :
       /\ warm[s] = "failed" => fails[s] >= wave
       /\ warm[s] \in {"pending", "warming"} => fails[s] >= wave - 1
  /\ \A j \in Job : pc[j] = "reiniting" => fails[slotOf[j]] >= tries[j] - 1

IInv ==
  /\ TypeOK
  /\ HandsMatch
  /\ ReadyMatch
  /\ FailsCount
  /\ SlotExclusive
  /\ LostOnlyBroken

LEMMA SlotsFinite ==
  ASSUME NEW S \in SUBSET Slot
  PROVE  IsFiniteSet(S) /\ Cardinality(S) \in Nat /\ Cardinality(S) <= Cardinality(Slot)
BY PoolAssumption, FS_Subset, FS_CardinalityType

LEMMA InitIInv == Init => IInv
<1> SUFFICES ASSUME Init PROVE IInv
  OBVIOUS
<1> USE PoolAssumption DEF Init
<1>1. TypeOK
  <2>1. 1 \in 1 .. WarmMaxAttempts /\ 0 \in 0 .. SlotReinitAttempts
        /\ 0 \in 0 .. MaxDeaths
    OBVIOUS
  <2> QED BY <2>1 DEF TypeOK
<1>2. HandsMatch /\ SlotExclusive /\ LostOnlyBroken /\ FailsCount
  BY DEF HandsMatch, InHand, SlotExclusive, LostOnlyBroken, InPool, FailsCount
<1>3. ReadyMatch
  BY FS_EmptySet DEF ReadyMatch
<1> QED BY <1>1, <1>2, <1>3 DEF IInv

(* The first warm of a slot counts it. *)
LEMMA OneMoreReady ==
  ASSUME NEW S \in SUBSET Slot, NEW s \in Slot
  PROVE  Cardinality(S \cup {s}) =
           IF s \in S THEN Cardinality(S) ELSE Cardinality(S) + 1
BY SlotsFinite, FS_AddElement

LEMMA StepIInv == IInv /\ [Next]_vars => IInv'
<1> SUFFICES ASSUME IInv, [Next]_vars PROVE IInv'
  OBVIOUS
<1> USE PoolAssumption DEF IInv, flags, warmup, jobs, InHand
<1>0. CASE UNCHANGED vars
  BY <1>0 DEF vars, TypeOK, HandsMatch, ReadyMatch, FailsCount, SlotExclusive,
     LostOnlyBroken, InPool
<1>1. ASSUME NEW s \in Slot, WarmBegin(s) PROVE IInv'
  <2> USE <1>1 DEF WarmBegin, RemoveContainer
  <2>1. TypeOK'
    BY DEF TypeOK
  <2>2. HandsMatch' /\ ReadyMatch' /\ FailsCount'
    BY DEF TypeOK, HandsMatch, ReadyMatch, FailsCount
  <2>3. SlotExclusive' /\ LostOnlyBroken'
    BY DEF TypeOK, SlotExclusive, LostOnlyBroken, InPool
  <2> QED BY <2>1, <2>2, <2>3
<1>2. ASSUME NEW s \in Slot, WarmEnd(s) PROVE IInv'
  <2>1. PICK ok \in Outcomes : /\ InitSlotEnds(s, ok)
                               /\ warm' = [warm EXCEPT ![s] = IF ok THEN "ready" ELSE "failed"]
    BY <1>2 DEF WarmEnd
  <2>2. ok \in BOOLEAN /\ s \notin everReady /\ warm[s] = "warming" /\ ~warmComplete
    BY <1>2 DEF WarmEnd, ReadyMatch, Outcomes
  <2>3. CASE ok
    <3> USE <1>2, <2>1, <2>2, <2>3 DEF WarmEnd, InitSlotEnds, SlotReady, Put
    <3>1. TypeOK' /\ HandsMatch'
      BY DEF TypeOK, HandsMatch
    <3>2. ReadyMatch'
      <4>1. Cardinality(everReady \cup {s}) = Cardinality(everReady) + 1
        BY OneMoreReady DEF TypeOK
      <4>2. readyCount' = Cardinality(everReady')
        BY <4>1 DEF ReadyMatch
      <4>3. everReady' = {t \in Slot : warm'[t] = "ready"}
        BY DEF TypeOK, ReadyMatch
      <4> QED BY <4>2, <4>3 DEF ReadyMatch
    <3>3. FailsCount' /\ SlotExclusive'
      BY DEF TypeOK, HandsMatch, FailsCount, SlotExclusive
    <3>4. LostOnlyBroken'
      BY DEF TypeOK, LostOnlyBroken, InPool
    <3> QED BY <3>1, <3>2, <3>3, <3>4
  <2>4. CASE ~ok
    <3> USE <1>2, <2>1, <2>2, <2>4 DEF WarmEnd, InitSlotEnds, SlotFailed
    <3>0. TypeOK' /\ HandsMatch'
      BY DEF TypeOK, HandsMatch
    <3>u. UNCHANGED <<everReady, readyCount, degraded, warmComplete>>
      OBVIOUS
    <3>r. {t \in Slot : warm'[t] = "ready"} = {t \in Slot : warm[t] = "ready"}
      BY DEF TypeOK
    <3>1. TypeOK' /\ HandsMatch' /\ ReadyMatch'
      BY <3>0, <3>u, <3>r DEF ReadyMatch
    <3>2. FailsCount' /\ SlotExclusive'
      BY DEF TypeOK, HandsMatch, FailsCount, SlotExclusive
    <3>3. LostOnlyBroken'
      BY DEF TypeOK, LostOnlyBroken, InPool
    <3> QED BY <3>1, <3>2, <3>3
  <2> QED BY <2>3, <2>4
<1>3. ASSUME NEW s \in Slot, Die(s) PROVE IInv'
  BY <1>3 DEF Die, TypeOK, HandsMatch, ReadyMatch, FailsCount, SlotExclusive,
     LostOnlyBroken, InPool
<1>4. CASE WaveRetry
  BY <1>4 DEF WaveRetry, TypeOK, HandsMatch, ReadyMatch, FailsCount, SlotExclusive,
     LostOnlyBroken, InPool
<1>5. CASE WarmReport
  <2> USE <1>5 DEF WarmReport
  <2>1. Cardinality(Slot) - Cardinality(everReady) \in Nat
    BY SlotsFinite DEF TypeOK
  <2>2. ReadyMatch' /\ TypeOK'
    BY <2>1 DEF TypeOK, ReadyMatch
  <2>3. HandsMatch' /\ FailsCount' /\ SlotExclusive'
    BY DEF HandsMatch, FailsCount, SlotExclusive
  <2>4. LostOnlyBroken'
    BY DEF TypeOK, ReadyMatch, FailsCount, LostOnlyBroken, InPool
  <2> QED BY <2>2, <2>3, <2>4
<1>6. ASSUME NEW j \in Job, Acquire(j) PROVE IInv'
  BY <1>6 DEF Acquire, TypeOK, HandsMatch, ReadyMatch, FailsCount, SlotExclusive,
     LostOnlyBroken, InPool
<1>7. ASSUME NEW j \in Job, NEW s \in Slot, Take(j, s) PROVE IInv'
  <2> USE <1>7 DEF Take
  <2>1. TypeOK' /\ HandsMatch'
    BY DEF TypeOK, HandsMatch, SlotExclusive
  <2>2. ReadyMatch' /\ FailsCount' /\ SlotExclusive'
    BY DEF TypeOK, HandsMatch, ReadyMatch, FailsCount, SlotExclusive
  <2>3. LostOnlyBroken'
    BY DEF TypeOK, LostOnlyBroken, HandsMatch, InPool
  <2> QED BY <2>1, <2>2, <2>3
<1>8. ASSUME NEW j \in Job, ProbeAlive(j) \/ ProbeDead(j) \/ ReleaseHealthy(j) PROVE IInv'
  <2> USE <1>8 DEF ProbeAlive, ProbeDead, ReleaseHealthy
  <2>1. TypeOK' /\ HandsMatch' /\ FailsCount'
    BY DEF TypeOK, HandsMatch, FailsCount
  <2>u. UNCHANGED <<queued, everReady, readyCount, degraded, warmComplete, warm,
                    slotOf, fails, dropped>>
    OBVIOUS
  <2>2. ReadyMatch'
    BY <2>u DEF ReadyMatch
  <2>3. SlotExclusive' /\ LostOnlyBroken'
    BY <2>u DEF SlotExclusive, LostOnlyBroken, InPool
  <2> QED BY <2>1, <2>2, <2>3
<1>9. ASSUME NEW j \in Job, ReleaseUnhealthy(j) \/ ReloadFails(j) PROVE IInv'
  <2> USE <1>9 DEF ReleaseUnhealthy, ReloadFails, BeginReinit, RemoveContainer
  <2>1. TypeOK' /\ HandsMatch'
    BY DEF TypeOK, HandsMatch
  <2>u. UNCHANGED <<queued, everReady, readyCount, degraded, warmComplete, warm,
                    slotOf, fails, dropped>>
    OBVIOUS
  <2>2. ReadyMatch' /\ SlotExclusive'
    BY <2>u DEF ReadyMatch, SlotExclusive
  <2>3. FailsCount'
    BY DEF TypeOK, HandsMatch, FailsCount
  <2>4. LostOnlyBroken'
    BY <2>u DEF LostOnlyBroken, InPool
  <2> QED BY <2>1, <2>2, <2>3, <2>4
(* A coroutine lets its slot go: rebuilt into the queue, or for good once  *)
(* acquire dropped it or release ran out of attempts.                      *)
<1>r. ASSUME NEW j \in Job, pc[j] \in InHand, SlotReady(slotOf[j]), UNCHANGED warmup,
             \A k \in Job : k # j => pc'[k] = pc[k] /\ tries'[k] = tries[k],
             pc'[j] # "reiniting", dropped' = dropped,
             slotOf' = [slotOf EXCEPT ![j] = None], TypeOK', HandsMatch'
      PROVE  IInv'
  <2> DEFINE s == slotOf[j]
  <2>1. s \in Slot /\ s # None /\ s \in everReady
    BY <1>r DEF TypeOK, HandsMatch, ReadyMatch, SlotExclusive
  <2>u. UNCHANGED <<everReady, readyCount, degraded, warmComplete, warm>>
    BY <1>r, <2>1 DEF SlotReady
  <2>2. ReadyMatch'
    BY <2>u DEF ReadyMatch
  <2>3. SlotExclusive' /\ LostOnlyBroken'
    BY <1>r, <2>1 DEF SlotReady, Put, TypeOK, HandsMatch, ReadyMatch, SlotExclusive,
       LostOnlyBroken, InPool
  <2>4. FailsCount'
    BY <1>r, <2>1 DEF SlotReady, TypeOK, HandsMatch, ReadyMatch, SlotExclusive, FailsCount
  <2> QED BY <1>r, <2>2, <2>3, <2>4
<1>f. ASSUME NEW j \in Job, pc[j] \in InHand, SlotFailed(slotOf[j]), UNCHANGED warmup,
             \A k \in Job : k # j => pc'[k] = pc[k] /\ tries'[k] = tries[k],
             pc'[j] # "reiniting",
             \/ dropped' = dropped \cup {slotOf[j]}
             \/ dropped' = dropped /\ fails[slotOf[j]] + 1 >= SlotReinitAttempts,
             slotOf' = [slotOf EXCEPT ![j] = None], TypeOK', HandsMatch'
      PROVE  IInv'
  <2>1. slotOf[j] \in Slot /\ slotOf[j] # None /\ slotOf[j] \in everReady
    BY <1>f DEF TypeOK, HandsMatch, ReadyMatch, SlotExclusive
  <2>2. ReadyMatch' /\ SlotExclusive'
    BY <1>f, <2>1 DEF SlotFailed, TypeOK, ReadyMatch, SlotExclusive
  <2>3. LostOnlyBroken'
    BY <1>f, <2>1 DEF SlotFailed, TypeOK, HandsMatch, LostOnlyBroken, InPool
  <2>4. FailsCount'
    BY <1>f, <2>1 DEF SlotFailed, TypeOK, HandsMatch, SlotExclusive, ReadyMatch, FailsCount
  <2> QED BY <1>f, <2>2, <2>3, <2>4
<1>10. ASSUME NEW j \in Job, RebuildEnd(j) PROVE IInv'
  <2>1. PICK ok \in Outcomes :
          /\ InitSlotEnds(slotOf[j], ok)
          /\ dropped' = IF ok THEN dropped ELSE dropped \cup {slotOf[j]}
    BY <1>10 DEF RebuildEnd
  <2>2. \/ SlotReady(slotOf[j]) /\ dropped' = dropped
        \/ SlotFailed(slotOf[j]) /\ dropped' = dropped \cup {slotOf[j]}
    BY <2>1 DEF InitSlotEnds, Outcomes
  <2>3. slotOf[j] \in Slot /\ slotOf[j] \in everReady
    BY <1>10 DEF RebuildEnd, TypeOK, HandsMatch, SlotExclusive, ReadyMatch
  <2>p. /\ queued' \in [Slot -> Nat] /\ alive' \subseteq Slot
        /\ everReady' = everReady /\ readyCount' = readyCount
        /\ firstReady' \in BOOLEAN
        /\ fails' \in [Slot -> Nat] /\ dropped' \subseteq Slot
    BY <2>2, <2>3 DEF SlotReady, SlotFailed, Put, TypeOK
  <2>4. TypeOK' /\ HandsMatch'
    BY <1>10, <2>p DEF RebuildEnd, TypeOK, HandsMatch
  <2>5. /\ pc[j] \in InHand /\ pc'[j] # "reiniting"
        /\ \A k \in Job : k # j => pc'[k] = pc[k] /\ tries'[k] = tries[k]
    BY <1>10 DEF RebuildEnd, TypeOK
  <2> QED BY <1>10, <1>r, <1>f, <2>2, <2>4, <2>5 DEF RebuildEnd
<1>11. ASSUME NEW j \in Job, ReinitSucceeds(j) \/ ReinitGivesUp(j) PROVE IInv'
  <2>1. slotOf[j] \in Slot /\ slotOf[j] \in everReady
    BY <1>11 DEF ReinitSucceeds, ReinitGivesUp, TypeOK, HandsMatch, SlotExclusive, ReadyMatch
  <2>p. /\ queued' \in [Slot -> Nat] /\ alive' \subseteq Slot
        /\ everReady' = everReady /\ readyCount' = readyCount
        /\ firstReady' \in BOOLEAN /\ fails' \in [Slot -> Nat]
    <3>1. CASE ReinitSucceeds(j)
      BY <3>1, <2>1 DEF ReinitSucceeds, SlotReady, Put, TypeOK
    <3>2. CASE ReinitGivesUp(j)
      BY <3>2, <2>1 DEF ReinitGivesUp, SlotFailed, TypeOK
    <3> QED BY <1>11, <3>1, <3>2
  <2>2. TypeOK' /\ HandsMatch'
    BY <1>11, <2>p DEF ReinitSucceeds, ReinitGivesUp, Done, TypeOK, HandsMatch
  <2>3. /\ pc[j] \in InHand /\ pc'[j] # "reiniting" /\ dropped' = dropped
        /\ \A k \in Job : k # j => pc'[k] = pc[k] /\ tries'[k] = tries[k]
    BY <1>11 DEF ReinitSucceeds, ReinitGivesUp, Done, TypeOK
  <2>4. ReinitGivesUp(j) => fails[slotOf[j]] + 1 >= SlotReinitAttempts
    BY <2>1 DEF ReinitGivesUp, FailsCount, TypeOK
  <2> QED BY <1>11, <1>r, <1>f, <2>2, <2>3, <2>4 DEF ReinitSucceeds, ReinitGivesUp, Done
<1>12. ASSUME NEW j \in Job, ReinitRetries(j) PROVE IInv'
  <2> USE <1>12 DEF ReinitRetries, SlotFailed
  <2>1. TypeOK' /\ HandsMatch'
    BY DEF TypeOK, HandsMatch
  <2>2. ReadyMatch' /\ SlotExclusive'
    BY DEF TypeOK, HandsMatch, ReadyMatch, SlotExclusive
  <2>3. FailsCount'
    BY DEF TypeOK, HandsMatch, SlotExclusive, FailsCount
  <2>4. LostOnlyBroken'
    BY DEF TypeOK, LostOnlyBroken, InPool
  <2> QED BY <2>1, <2>2, <2>3, <2>4
<1>13. ASSUME NEW j \in Job, WipeEnds(j) PROVE IInv'
  <2> USE <1>13 DEF WipeEnds, Done, Put
  <2>1. slotOf[j] \in Slot /\ slotOf[j] # None
    BY DEF TypeOK, HandsMatch
  <2>2. TypeOK' /\ HandsMatch'
    BY <2>1 DEF TypeOK, HandsMatch
  <2>3. ReadyMatch' /\ SlotExclusive'
    BY <2>1 DEF TypeOK, HandsMatch, ReadyMatch, SlotExclusive
  <2>4. FailsCount' /\ LostOnlyBroken'
    BY <2>1 DEF TypeOK, HandsMatch, FailsCount, LostOnlyBroken, InPool
  <2> QED BY <2>2, <2>3, <2>4
<1> QED BY <1>0, <1>1, <1>2, <1>3, <1>4, <1>5, <1>6, <1>7, <1>8, <1>9, <1>10, <1>11,
           <1>12, <1>13 DEF Next

(* The pool's books hold at every await of acquire, release and init. *)
THEOREM PoolInvariant == Spec => []IInv
BY InitIInv, StepIInv, PTL DEF Spec

(* The state is well typed; no attempt exceeds its limit. *)
THEOREM PoolTypeOK == Spec => []TypeOK
BY PoolInvariant, PTL DEF IInv

(* No slot is ever in two places: two sessions never share a container. *)
THEOREM PoolSlotExclusive == Spec => []SlotExclusive
BY PoolInvariant, PTL DEF IInv

(* A slot is lost only to rebuilds that failed: in every wave, in all of   *)
(* release's attempts, or at acquire's one.                                *)
THEOREM PoolLostOnlyBroken == Spec => []LostOnlyBroken
BY PoolInvariant, PTL DEF IInv

(* ready_count and degraded add up to the configured capacity. *)
THEOREM PoolWarmUpHonest == Spec => []WarmUpHonest
<1>1. IInv => WarmUpHonest
  <2> SUFFICES ASSUME IInv PROVE WarmUpHonest
    OBVIOUS
  <2>1. Cardinality(everReady) \in Nat /\ Cardinality(Slot) \in Nat
    BY SlotsFinite DEF IInv, TypeOK
  <2> QED BY <2>1 DEF IInv, ReadyMatch, WarmUpHonest
<1> QED BY <1>1, PoolInvariant, PTL
=============================================================================
