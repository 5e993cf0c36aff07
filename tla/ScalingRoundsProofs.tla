------------------------- MODULE ScalingRoundsProofs -------------------------
(***************************************************************************)
(* TLAPS proofs about ScalingRounds: what a capped step does to the number *)
(* of GPUs, for any limits, configurations and sequences of demands.       *)
(***************************************************************************)
EXTENDS ScalingRounds, ScalingActionProofs

(* The rounds keep a configuration in force with whole replicas of at least  *)
(* one GPU, whatever was capped, dropped or stored on the way.               *)
RInv == cur \in Shape /\ target \in Targets /\ behavior \in Behaviors

(* What the optimizer asks for has that shape.                               *)
LEMMA TargetsAreShapes == Targets \subseteq Shape
BY ConfigAssumption DEF Targets, Config, Shape

(* What an evaluation leaves in force.                                       *)
LEMMA EvaluateShape == RInv /\ Evaluate => cur' \in Shape
<1> SUFFICES ASSUME RInv, Evaluate PROVE cur' \in Shape OBVIOUS
<1>1. target \in Shape /\ cur \in Shape BY TargetsAreShapes DEF RInv
<1>2. behavior.upLimit \in Nat /\ behavior.downLimit \in Nat
  BY ConfigAssumption DEF RInv
<1>3. Decision.desired \in Shape BY <1>1, <1>2, DecisionShape DEF Decision
<1>4. cur' \in {cur, [Decision.desired EXCEPT !.c = StoredCompute(@)],
               [cur EXCEPT !.r = Decision.desired.r]}
  BY DEF Evaluate, ApplyDecision
<1> HIDE DEF Shape
<1>5. \A u \in Shape : [u EXCEPT !.c = StoredCompute(@)] \in Shape
  BY StoredComputeNat DEF Shape
<1>6. \A u, v \in Shape : [u EXCEPT !.r = v.r] \in Shape BY DEF Shape
<1> QED BY <1>1, <1>3, <1>4, <1>5, <1>6

(* The rounds preserve RInv.                                                 *)
THEOREM RoundsInvariance == Spec => []RInv
<1>1. Init => RInv
  <2> SUFFICES ASSUME Init PROVE RInv OBVIOUS
  <2>1. cur \in Config({1}, GPUs, Computes, Memories) BY DEF Init
  <2>2. \A R \in SUBSET Nat : Config(R, GPUs, Computes, Memories) \subseteq Shape
    BY ConfigAssumption DEF Config, Shape
  <2>3. cur \in Shape BY <2>1, <2>2
  <2> QED BY <2>3 DEF Init, RInv
<1>2. RInv /\ [Next]_vars => RInv'
  <2> SUFFICES ASSUME RInv, [Next]_vars PROVE RInv' OBVIOUS
  <2>1. CASE Retarget BY <2>1 DEF RInv, Retarget, Targets
  <2>2. CASE Evaluate
    <3>1. cur' \in Shape BY <2>2, EvaluateShape
    <3>2. target' = target /\ behavior' = behavior BY <2>2 DEF Evaluate
    <3> QED BY <3>1, <3>2 DEF RInv, Targets
  <2>3. CASE UNCHANGED vars BY <2>3 DEF RInv, vars, Targets
  <2> QED BY <2>1, <2>2, <2>3 DEF Next
<1> QED BY <1>1, <1>2, PTL DEF Spec

(* RInv gives the limiter what it needs.                                     *)
LEMMA LimiterOfRound ==
    RInv => NeverPastTarget /\ StepNearLimit /\ StepGetsNearer
<1> SUFFICES ASSUME RInv PROVE NeverPastTarget /\ StepNearLimit /\ StepGetsNearer OBVIOUS
<1>1. target \in Shape /\ cur \in Shape BY TargetsAreShapes DEF RInv
<1>2. Limit \in Nat BY ConfigAssumption DEF RInv, Limit
<1>3. Limited = ApplySingleTimeScalingLimit(Limit, cur, target) BY DEF Limited
<1> QED BY <1>1, <1>2, <1>3, LimiterStep
  DEF NeverPastTarget, StepNearLimit, StepGetsNearer

(* For any limits and any sequence of demands: applySingleTimeScalingLimit   *)
(* never goes past the number of GPUs that was asked for.                    *)
THEOREM LimiterStopsAtTarget == Spec => []NeverPastTarget
<1>1. RInv => NeverPastTarget BY LimiterOfRound
<1> QED BY <1>1, RoundsInvariance, PTL

(* For any limits and any sequence of demands: the rounding to whole         *)
(* replicas adds less than one replica to what SingleTimeScalingLimit allows.*)
THEOREM LimiterNearLimit == Spec => []StepNearLimit
<1>1. RInv => StepNearLimit BY LimiterOfRound
<1> QED BY <1>1, RoundsInvariance, PTL

(* For any limits and any sequence of demands: the rounding of               *)
(* applySingleTimeScalingLimit does not eat up the step, unless a scale-down *)
(* is limited to fewer GPUs than a replica of the demand has.                *)
THEOREM LimiterGetsNearer == Spec => []StepGetsNearer
<1>1. RInv => StepGetsNearer BY LimiterOfRound
<1> QED BY <1>1, RoundsInvariance, PTL
=============================================================================
