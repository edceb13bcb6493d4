------------------------------- MODULE MCFleet -------------------------------
(* Instances of Fleet for TLC: w1 works, w2 is idle at a lower load. *)
EXTENDS Fleet, TLC

CONSTANTS w1, w2

FleetManifest ==
  [j \in Jobs |-> [feats |-> {}, ram |-> 0, class |-> 0, challenge |-> FALSE, units |-> 1]]
Machine == [feats |-> {}, ram |-> 0, measureOnly |-> FALSE]
FleetCapabilities == {Machine}
FleetAdvertised == [w \in Workers |-> Machine]
FleetLoad == [w \in Workers |-> IF w = w1 THEN 80 ELSE 0]
ShortJobs == [j \in Jobs |-> 1]
LongJobs == [j \in Jobs |-> LeaseTicks]

=============================================================================
