------------------------ MODULE MCWeightedScheduler ------------------------
(* Small instances of WeightedScheduler for TLC. *)
EXTENDS WeightedScheduler

CONSTANTS cnfs, bats, daemon, wide, oversize

Plain == [cost |-> NotSet, suite |-> NotSet, type |-> NotSet, lane |-> NotSet,
          requires_native |-> FALSE]

(* One job per way of being classified: by suite, by type, by an explicit  *)
(* cost with an explicit lane that disagrees with it, by a cost above the  *)
(* budget, and a native job whose explicit cost is below the floor.        *)
MCJob == {cnfs, bats, daemon, wide, oversize}
MCDesc ==
  [j \in MCJob |->
    CASE j = cnfs     -> [Plain EXCEPT !.suite = "dt-cnfs", !.type = "integration-test"]
      [] j = bats     -> [Plain EXCEPT !.suite = "bats", !.cost = -1, !.requires_native = TRUE]
      [] j = daemon   -> [Plain EXCEPT !.type = "daemon"]
      [] j = wide     -> [Plain EXCEPT !.cost = 4, !.lane = "light"]
      [] j = oversize -> [Plain EXCEPT !.cost = 9]]
=============================================================================
