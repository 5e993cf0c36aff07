--------------------------- MODULE MCScalingRounds ---------------------------
(* Instances of ScalingRounds for TLC. *)
EXTENDS ScalingRounds

NoUtil == [res \in {} |-> 0]
ComputeUtil == [res \in {"compute"} |-> 70]

(* No limit, with and without a minimum utilization. *)
Unlimited == {[upLimit |-> 0, downLimit |-> 0, minUtil |-> u] : u \in {NoUtil, ComputeUtil}}

(* Limits at least as large as the GPUs of one replica.  With smaller ones   *)
(* the rounding to whole replicas may keep the rounds from their target.     *)
WideLimits == {[upLimit |-> ul[1], downLimit |-> ul[2], minUtil |-> NoUtil] :
                  ul \in {<<3, 3>>, <<0, 4>>}}

NoTightLimit == Unlimited \cup WideLimits

SmallReplicas == 0..3
SmallGPUs == 1..3
SmallComputes == {5000, 10000}
SmallMemories == {4000, 8000}
=============================================================================
