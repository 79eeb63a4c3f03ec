----------------------- MODULE ContainerReaperProofs -----------------------
(***************************************************************************)
(* Proofs about the container reaper, for every set of containers, every   *)
(* number of kill attempts and, unless a theorem says otherwise, every way *)
(* `docker ps` may fail.                                                   *)
(***************************************************************************)
EXTENDS ContainerReaper, TLAPS

-----------------------------------------------------------------------------
(* The inductive invariant.  A kill is awaited only of a container that is *)
(* watched and was asked for; the attempts are below the limit except at   *)
(* the container whose last kill is awaited (or was, when the poller was   *)
(* stopped).                                                               *)

KillInProgress ==
  killing # None =>
    /\ phase = "killing"
    /\ killing \in watched /\ killing \in intent
    /\ attempt = attempts[killing] /\ attempt >= 1

BelowLimit ==
  \A c \in Cid : c # killing /\ phase # "stopped" => attempts[c] < MaxKillAttempts

IntentRecorded ==
  /\ terminating \subseteq intent /\ todo \subseteq intent
  /\ \A c \in Cid : outcome[c] = "abandoned" => c \in intent

FinishedAreFinal == \A c \in finished : outcome[c] \in Final

IInv ==
  /\ TypeOK
  /\ KillInProgress
  /\ BelowLimit
  /\ IntentRecorded
  /\ FinishedAreFinal
  /\ PendingIsWatched
  /\ NothingLeftBehind

LEMMA InitIInv == Init => IInv
BY ReaperAssumption
   DEF Init, IInv, TypeOK, KillInProgress, BelowLimit, IntentRecorded,
       FinishedAreFinal, PendingIsWatched, NothingLeftBehind, Final

LEMMA StepIInv == IInv /\ [Next]_vars => IInv'
<1> SUFFICES ASSUME IInv, [Next]_vars PROVE IInv'
  OBVIOUS
<1> USE ReaperAssumption DEF IInv, docker, poller, books, history, Final
<1>0. CASE UNCHANGED vars
  BY <1>0 DEF vars, TypeOK, KillInProgress, BelowLimit, IntentRecorded,
              FinishedAreFinal, PendingIsWatched, NothingLeftBehind
<1>1. ASSUME NEW c \in Cid, Start(c) PROVE IInv'
  BY <1>1 DEF Start, TypeOK, KillInProgress, BelowLimit, IntentRecorded,
              FinishedAreFinal, PendingIsWatched, NothingLeftBehind
<1>2. ASSUME NEW c \in Cid, Exit(c) PROVE IInv'
  BY <1>2 DEF Exit, TypeOK, KillInProgress, BelowLimit, IntentRecorded,
              FinishedAreFinal, PendingIsWatched, NothingLeftBehind
<1>3. ASSUME NEW c \in Cid, Inspect(c) PROVE IInv'
  BY <1>3 DEF Inspect, TypeOK, KillInProgress, BelowLimit, IntentRecorded,
              FinishedAreFinal, PendingIsWatched, NothingLeftBehind
<1>4. ASSUME NEW c \in Cid, Watch(c) PROVE IInv'
  BY <1>4 DEF Watch, TypeOK, KillInProgress, BelowLimit, IntentRecorded,
              FinishedAreFinal, PendingIsWatched, NothingLeftBehind
<1>5. ASSUME NEW c \in Cid, RequestTerminate(c) PROVE IInv'
  BY <1>5 DEF RequestTerminate, TypeOK, KillInProgress, BelowLimit, IntentRecorded,
              FinishedAreFinal, PendingIsWatched, NothingLeftBehind
<1>6. ASSUME NEW c \in Cid, Finish(c) PROVE IInv'
  BY <1>6 DEF Finish, Forget, TypeOK, KillInProgress, BelowLimit, IntentRecorded,
              FinishedAreFinal, PendingIsWatched, NothingLeftBehind
<1>7. CASE BeginTick
  BY <1>7 DEF BeginTick, TypeOK, KillInProgress, BelowLimit, IntentRecorded,
              FinishedAreFinal, PendingIsWatched, NothingLeftBehind
<1>8. CASE ListRunning
  BY <1>8 DEF ListRunning, TypeOK, KillInProgress, BelowLimit, IntentRecorded,
              FinishedAreFinal, PendingIsWatched, NothingLeftBehind
<1>9. CASE ListRaises
  BY <1>9 DEF ListRaises, TypeOK, KillInProgress, BelowLimit, IntentRecorded,
              FinishedAreFinal, PendingIsWatched, NothingLeftBehind
<1>10. CASE ReapGone
  <2> USE <1>10 DEF ReapGone, Gone, ToKill, Resolved
  <2>1. TypeOK'
    BY DEF TypeOK
  <2>2. KillInProgress' /\ BelowLimit'
    BY DEF TypeOK, KillInProgress, BelowLimit
  <2>3. IntentRecorded' /\ FinishedAreFinal'
    BY DEF TypeOK, IntentRecorded, FinishedAreFinal
  <2>4. PendingIsWatched' /\ NothingLeftBehind'
    BY DEF TypeOK, PendingIsWatched, NothingLeftBehind
  <2> QED BY <2>1, <2>2, <2>3, <2>4
<1>11. ASSUME NEW c \in Cid, BeginKill(c) PROVE IInv'
  <2> USE <1>11 DEF BeginKill, Eligible
  <2>1. TypeOK'
    BY DEF TypeOK, BelowLimit
  <2>2. KillInProgress' /\ BelowLimit'
    BY DEF TypeOK, KillInProgress, BelowLimit, IntentRecorded
  <2>3. IntentRecorded' /\ FinishedAreFinal'
    BY DEF TypeOK, IntentRecorded, FinishedAreFinal
  <2>4. PendingIsWatched' /\ NothingLeftBehind'
    BY DEF TypeOK, PendingIsWatched, NothingLeftBehind
  <2> QED BY <2>1, <2>2, <2>3, <2>4
<1>12. CASE KillReturns
  <2> USE <1>12 DEF KillReturns, Forget, Resolved
  <2>1. TypeOK'
    BY DEF TypeOK
  <2>2. KillInProgress' /\ BelowLimit'
    BY DEF TypeOK, KillInProgress, BelowLimit
  <2>3. IntentRecorded' /\ FinishedAreFinal'
    BY DEF TypeOK, KillInProgress, IntentRecorded, FinishedAreFinal
  <2>4. PendingIsWatched' /\ NothingLeftBehind'
    BY DEF TypeOK, KillInProgress, PendingIsWatched, NothingLeftBehind
  <2> QED BY <2>1, <2>2, <2>3, <2>4
<1>13. CASE EndTick
  BY <1>13 DEF EndTick, TypeOK, KillInProgress, BelowLimit, IntentRecorded,
              FinishedAreFinal, PendingIsWatched, NothingLeftBehind
<1>14. CASE Stop
  <2> USE <1>14 DEF Stop, Resolved
  <2>1. TypeOK' /\ KillInProgress' /\ BelowLimit'
    BY DEF TypeOK, KillInProgress, BelowLimit
  <2>2. IntentRecorded' /\ FinishedAreFinal'
    BY DEF TypeOK, IntentRecorded, FinishedAreFinal
  <2>3. PendingIsWatched' /\ NothingLeftBehind'
    BY DEF TypeOK, PendingIsWatched, NothingLeftBehind
  <2> QED BY <2>1, <2>2, <2>3
<1> QED BY <1>0, <1>1, <1>2, <1>3, <1>4, <1>5, <1>6, <1>7, <1>8, <1>9, <1>10,
           <1>11, <1>12, <1>13, <1>14 DEF Next, Tick

(* The books of the reaper, its futures and its poller fit together at     *)
(* every await.                                                            *)
THEOREM ReaperInvariant == Spec => []IInv
BY InitIInv, StepIInv, PTL DEF Spec

(* The state is well typed; no attempt exceeds the limit. *)
THEOREM ReaperTypeOK == Spec => []TypeOK
BY ReaperInvariant, PTL DEF IInv

(* A pending future is always one the poller looks at. *)
THEOREM ReaperPendingIsWatched == Spec => []PendingIsWatched
BY ReaperInvariant, PTL DEF IInv

(* When a job is over nothing of its container is left in the books. *)
THEOREM ReaperNothingLeftBehind == Spec => []NothingLeftBehind
BY ReaperInvariant, PTL DEF IInv

(* Nobody is killed or abandoned whose termination was not asked for. *)
THEOREM ReaperUntargetedSurvive == Spec => []UntargetedSurvive
<1>1. IInv => UntargetedSurvive
  BY DEF IInv, IntentRecorded, KillInProgress, PendingIsWatched, TypeOK,
         UntargetedSurvive
<1> QED BY <1>1, ReaperInvariant, PTL

-----------------------------------------------------------------------------
(* What the listing shows.  While docker ps either answers or raises, a    *)
(* listing that is being picked up misses no container that runs.          *)

ListingComplete == phase = "listed" => up \subseteq running

GoneInv == IInv /\ ListingComplete /\ ExitedMeansGone

LEMMA StepGoneInv ==
  ASSUME "fails" \notin ListingFaults
  PROVE  GoneInv /\ [Next]_vars => GoneInv'
<1> SUFFICES ASSUME GoneInv, [Next]_vars PROVE GoneInv'
  OBVIOUS
<1>i. IInv'
  BY StepIInv DEF GoneInv
<1> SUFFICES ListingComplete' /\ ExitedMeansGone'
  BY <1>i DEF GoneInv
<1> USE DEF GoneInv, IInv, docker, poller, books, history, Final
<1>0. CASE UNCHANGED vars
  BY <1>0 DEF vars, ListingComplete, ExitedMeansGone
<1>1. ASSUME NEW c \in Cid, Start(c) PROVE ListingComplete' /\ ExitedMeansGone'
  BY <1>1 DEF Start, TypeOK, ListingComplete, ExitedMeansGone
<1>2. ASSUME NEW c \in Cid, Exit(c) PROVE ListingComplete' /\ ExitedMeansGone'
  BY <1>2 DEF Exit, ListingComplete, ExitedMeansGone
<1>3. ASSUME NEW c \in Cid, Inspect(c) \/ Watch(c) \/ RequestTerminate(c) \/ Finish(c)
      PROVE  ListingComplete' /\ ExitedMeansGone'
  BY <1>3 DEF Inspect, Watch, RequestTerminate, Finish, Forget, TypeOK,
              ListingComplete, ExitedMeansGone
<1>4. CASE BeginTick \/ ListRaises \/ EndTick \/ (\E c \in Cid : BeginKill(c))
  BY <1>4 DEF BeginTick, ListRaises, EndTick, BeginKill, ListingComplete,
              ExitedMeansGone
<1>5. CASE ListRunning
  BY <1>5 DEF ListRunning, ListingComplete, ExitedMeansGone
<1>6. CASE ReapGone
  BY <1>6 DEF ReapGone, Gone, Resolved, TypeOK, ListingComplete, ExitedMeansGone
<1>7. CASE KillReturns
  BY <1>7 DEF KillReturns, Forget, Resolved, TypeOK, KillInProgress,
              ListingComplete, ExitedMeansGone
<1>8. CASE Stop
  BY <1>8 DEF Stop, Resolved, TypeOK, ListingComplete, ExitedMeansGone
<1> QED BY <1>0, <1>1, <1>2, <1>3, <1>4, <1>5, <1>6, <1>7, <1>8 DEF Next, Tick

LEMMA InitGoneInv == Init => GoneInv
BY InitIInv DEF Init, GoneInv, ListingComplete, ExitedMeansGone

(* If a failing docker ps always raised, nobody would ever be told         *)
(* "exited" while the container runs.                                      *)
THEOREM ReaperExitedMeansGone ==
  ASSUME "fails" \notin ListingFaults
  PROVE  Spec => []ExitedMeansGone
<1>1. Spec => []GoneInv
  BY InitGoneInv, StepGoneInv, PTL DEF Spec
<1> QED BY <1>1, PTL DEF GoneInv

-----------------------------------------------------------------------------
(* The reaper implements ContainerWatch. *)

LEMMA InitPromise == Init => Promise!Init
BY DEF Init, Promise!Init

LEMMA StepPromise ==
  ASSUME "fails" \notin ListingFaults
  PROVE  GoneInv /\ [Next]_vars => [Promise!Next]_(Promise!vars)
<1> SUFFICES ASSUME GoneInv, [Next]_vars PROVE [Promise!Next]_(Promise!vars)
  OBVIOUS
<1>w. Gone \in SUBSET Cid /\ watched \in SUBSET Cid
  BY DEF GoneInv, IInv, TypeOK, Gone
<1> USE DEF GoneInv, IInv, docker, poller, books, history, Final
<1>0. CASE UNCHANGED vars
  BY <1>0 DEF vars, Promise!vars
<1>1. ASSUME NEW c \in Cid, Start(c) \/ Exit(c) PROVE Promise!UpChanges
  BY <1>1 DEF Start, Exit, TypeOK, Promise!UpChanges
<1>2. ASSUME NEW c \in Cid, Inspect(c) \/ Finish(c) PROVE UNCHANGED Promise!vars
  BY <1>2 DEF Inspect, Finish, TypeOK, Promise!vars
<1>3. ASSUME NEW c \in Cid, Watch(c) PROVE Promise!Watch(c)
  BY <1>3 DEF Watch, TypeOK, Promise!Watch
<1>4. ASSUME NEW c \in Cid, RequestTerminate(c) PROVE Promise!Ask(c)
  BY <1>4 DEF RequestTerminate, TypeOK, Promise!Ask
<1>5. CASE BeginTick \/ ListRunning \/ ListRaises \/ EndTick
           \/ (\E c \in Cid : BeginKill(c))
  BY <1>5 DEF BeginTick, ListRunning, ListRaises, EndTick, BeginKill, Promise!vars
<1>6. CASE ReapGone
  <2>1. CASE Gone = {}
    BY <1>6, <2>1 DEF ReapGone, TypeOK, Promise!vars
  <2>2. CASE Gone # {}
    <3>1. Promise!Tell(Gone)
      BY <1>6, <2>2 DEF ReapGone, Gone, Resolved, TypeOK, PendingIsWatched,
         ListingComplete, Promise!Tell, Promise!Outcomes
    <3>2. Promise!Next
      BY <1>w, <3>1 DEF Promise!Next, Promise!Tell
    <3> QED BY <3>2
  <2> QED BY <2>1, <2>2
<1>7. CASE KillReturns
  <2>0. killing \in Cid /\ outcome[killing] = "pending" /\ killing \in intent
        /\ killing \in watched
    BY <1>7 DEF KillReturns, KillInProgress, PendingIsWatched, TypeOK
  <2>1. CASE attempt >= MaxKillAttempts
    <3>1. Promise!Tell({killing})
      BY <1>7, <2>0, <2>1 DEF KillReturns, Resolved, TypeOK,
         Promise!Tell, Promise!Outcomes
    <3>2. {killing} \in SUBSET Cid
      BY <2>0
    <3>3. Promise!Next
      BY <3>1, <3>2 DEF Promise!Next, Promise!Tell
    <3> QED BY <3>3
  <2>2. CASE ~(attempt >= MaxKillAttempts)
    <3>1. Promise!UpChanges
      BY <1>7, <2>0, <2>2 DEF KillReturns, TypeOK, Promise!UpChanges
    <3> QED BY <3>1 DEF Promise!Next
  <2> QED BY <2>1, <2>2
<1>8. CASE Stop
  <2>1. CASE watched = {}
    BY <1>8, <2>1 DEF Stop, TypeOK, Promise!vars
  <2>2. CASE watched # {}
    <3>1. Promise!Tell(watched)
      BY <1>8, <2>2 DEF Stop, Resolved, TypeOK, PendingIsWatched,
         Promise!Tell, Promise!Outcomes
    <3>2. Promise!Next
      BY <1>w, <3>1 DEF Promise!Next, Promise!Tell
    <3> QED BY <3>2
  <2> QED BY <2>1, <2>2
<1> QED BY <1>0, <1>1, <1>2, <1>3, <1>4, <1>5, <1>6, <1>7, <1>8
        DEF Next, Tick, Promise!Next

(* Every behaviour of the reaper is one its promise allows: each waiter is *)
(* told once, "exited" only of a container that is gone, "abandoned" only  *)
(* of one whose termination was asked for.                                 *)
THEOREM ReaperKeepsPromise ==
  ASSUME "fails" \notin ListingFaults
  PROVE  Spec => PromiseKept
<1>1. Spec => []GoneInv
  BY InitGoneInv, StepGoneInv, PTL DEF Spec
<1> QED BY <1>1, InitPromise, StepPromise, PTL DEF Spec, PromiseKept, Promise!Spec
=============================================================================
