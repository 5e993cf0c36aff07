------------------------- MODULE MCScalingLifecycle -------------------------
(* Instances of ScalingLifecycle for TLC. *)
EXTENDS ScalingLifecycle, TLC

OneGPU == [g |-> 1, c |-> 10000, m |-> 8000]
AssumedSize == [g |-> 1, c |-> 10000, m |-> 8000]
NoLimits == [upLimit |-> 0, downLimit |-> 0, minUtil |-> [res \in {} |-> 0]]

(* One replica of two GPUs, or three of one: between the two, and from one   *)
(* replica of one GPU, there are replica changes, resource changes and both, *)
(* upwards and downwards.                                                    *)
WideOrMany == {[r |-> 1, g |-> 2, c |-> 10000, m |-> 8000],
               [r |-> 3, g |-> 1, c |-> 10000, m |-> 8000]}

(* One replica of one or of two GPUs: resource changes only. *)
NarrowOrWide == {[r |-> 1, g |-> 1, c |-> 10000, m |-> 8000],
                 [r |-> 1, g |-> 2, c |-> 10000, m |-> 8000]}

Symmetry == Permutations(Calls)
=============================================================================
