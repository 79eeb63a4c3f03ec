------------------------------- MODULE Fleets -------------------------------
(***************************************************************************)
(* The two halves of the control loop's tick (ops-server/dashboard/        *)
(* workshop_fleet.py) in one specification: the machines that are bought   *)
(* for one workshop each, and the shared machines of the self-service lane. *)
(* They have no machine in common -- a workshop's are tagged and bound to  *)
(* it, and the daily pass drops them when it reads the workers -- and meet *)
(* in two places.  A failure in either ends the tick: both have that as a  *)
(* step of their own.  And an owner's apply un-cordons the workers of any  *)
(* pool: WorkshopFleet has it as a step of the world (ApplyUncordons), and *)
(* DailyFleet plans over shared workers only.  So a behaviour is one of    *)
(* either half; subject says of which, and the other's variables rest.     *)
(***************************************************************************)
EXTENDS WorkshopFleet, DailyFleet

VARIABLE subject

vars == <<subject, fleetVars, dailyVars>>

Init ==
  /\ subject \in {"workshops", "daily"} /\ FleetInit /\ DailyInit
  /\ subject # "workshops" => \A v, w \in Workshop : booking[v] = booking[w]
                              /\ booking[w] = CHOOSE p \in Plan : TRUE
  /\ subject # "daily" => \A b \in Box : box[b] = "unborn"

OfWorkshops(A) == subject = "workshops" /\ A /\ UNCHANGED <<subject, dailyVars>>
OfDaily(A) == subject = "daily" /\ A /\ UNCHANGED <<subject, fleetVars>>

Next == OfWorkshops(FleetNext) \/ OfDaily(DailyNext)

(* The loop that both are part of goes on. *)
LoopStep == OfWorkshops(FleetPass) \/ OfDaily(PassStep)

(* So does what is due beside it: a delete, a heartbeat that is late, and  *)
(* the expiry of a deferral or of a record that nobody renews.             *)
DueStep ==
  \/ OfWorkshops(\E w \in Workshop : Unindex(w) \/ DeferralExpires(w))
  \/ OfDaily(\E b \in Box : IF b \in Running THEN hash[b] # "fresh" /\ Heartbeat(b)
                                              ELSE RecordAges(b))

Fairness == WF_vars(LoopStep) /\ WF_vars(DueStep)

Spec == Init /\ [][Next]_vars /\ Fairness

-----------------------------------------------------------------------------
(* Every variable of both halves keeps its type. *)
TypeOK == FleetTypeOK /\ DailyTypeOK
=============================================================================
