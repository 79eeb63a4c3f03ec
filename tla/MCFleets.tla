------------------------------- MODULE MCFleets -------------------------------
(* Fleets for TLC: three kinds of booking, and hosts that are calm or hot. *)
EXTENDS Fleets

Booked(start, length, lead, hold, planned, onRoster) ==
  [start |-> start, length |-> length, lead |-> lead, hold |-> hold,
   seats |-> planned, roster |-> onRoster]

(* A large workshop that is on at once, a small one for later, and a large *)
(* one that asks for its own lead and a hold beyond its end and grace.     *)
MCPlan == {Booked(0, 1, 0, 0, 3, 0), Booked(2, 1, 0, 0, 0, 1), Booked(0, 1, 3, 3, 3, 0)}

(* Both signals at once: a hot host is braked, and another one is bought. *)
MCLoads == {{}, {"cpu", "mem"}}
===============================================================================
