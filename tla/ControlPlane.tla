----------------------------- MODULE ControlPlane -----------------------------
(***************************************************************************)
(* The calls of the dashboard that a workshop's learners and trainers make *)
(* and the path a request for an environment takes, in one specification.  *)
(* The two meet where a call provisions (Provide, Rebuild and AppBuilds of *)
(* LiveSession end in HandlerStep of Provisioning) and where the end of a  *)
(* workshop sweeps its sessions (Stop, SweepStep).  Each module has the    *)
(* other side of these as steps of its own that may be taken at any time,  *)
(* so a behaviour is one of a component among everything the other may do  *)
(* to it: subject says of which, and the variables of the other rest.      *)
(***************************************************************************)
EXTENDS Provisioning, LiveSession

VARIABLE subject

vars == <<subject, provisioningVars, liveVars>>

Init ==
  /\ subject \in {"provisioning", "live"} /\ ProvisioningInit /\ LiveInit
  /\ subject # "provisioning" => bucket = [q \in Lane |-> NoBucket]
  /\ subject # "live" => state = "open" /\ tenantOf = [l \in Learner |-> NoTenant]

OfProvisioning(A) == subject = "provisioning" /\ A /\ UNCHANGED <<subject, liveVars>>
OfLive(A) == subject = "live" /\ A /\ UNCHANGED <<subject, provisioningVars>>

Next == OfProvisioning(ProvisioningNext) \/ OfLive(LiveNext)

(* The pacer is a task that sleeps and goes on, and a call that has begun   *)
(* runs to its answer or to a restart: one of them goes on, which is all    *)
(* that is assumed.  Nothing is assumed of learners or their apps.          *)
TaskStep == OfProvisioning(PacerStep) \/ OfLive(\E c \in Call : CallStep(c))

(* Time passes, and the buckets fill. *)
TimeStep == OfProvisioning(Tick)

Spec == Init /\ [][Next]_vars /\ WF_vars(TaskStep) /\ WF_vars(TimeStep)

-----------------------------------------------------------------------------
(* Every variable of both components keeps its type. *)
TypeOK == ProvisioningTypeOK /\ LiveTypeOK
=============================================================================
