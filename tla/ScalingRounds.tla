---------------------------- MODULE ScalingRounds ----------------------------
(***************************************************************************)
(* Successive evaluations of one autoscaler (EvaluateAndScale), without    *)
(* failures or concurrency: each round compares the configuration in force *)
(* with the one the optimizer asks for, and applies the decision.          *)
(* Grace periods and partial failures are in ScalingLifecycle.             *)
(***************************************************************************)
EXTENDS ScalingAction

CONSTANTS
    Replicas, GPUs, Computes, Memories,  \* configurations of the optimizer
    Behaviors                            \* limits and minimum utilizations

ASSUME ConfigAssumption ==
    /\ Replicas \subseteq Nat /\ GPUs \subseteq Nat \ {0}
    /\ Computes \subseteq Nat \ {0} /\ Memories \subseteq Nat \ {0}
    /\ \A b \in Behaviors : b.upLimit \in Nat /\ b.downLimit \in Nat

VARIABLES
    cur,       \* status.desiredReplicas and the desired template's requests
    target,    \* the configuration FindOptimalConfiguration returns
    rate,      \* arrival rate: 0 or not
    behavior   \* spec.behavior and spec.minTargetUtilization

vars == <<cur, target, rate, behavior>>

Targets == Config(Replicas, GPUs, Computes, Memories)

Decision == DetermineScalingAction(behavior, cur, target, rate)

(* No replica count in the status yet, and some original template.           *)
Init ==
    /\ cur \in {t \in Config({1}, GPUs, Computes, Memories) : t.c % Hundred = 0}
    /\ target \in Targets
    /\ rate \in {0, 1}
    /\ behavior \in Behaviors

(* The load changed: the optimizer (or, without traffic, the minimum         *)
(* configuration) asks for something else.                                   *)
Retarget ==
    /\ target' \in Targets
    /\ rate' \in {0, 1}
    /\ UNCHANGED <<cur, behavior>>

(* EvaluateAndScale after the grace period has passed.                       *)
Evaluate ==
    /\ Decision.action # "None"
    /\ cur' = ApplyDecision(cur, Decision)
    /\ UNCHANGED <<target, rate, behavior>>

Next == Retarget \/ Evaluate

(* The service monitor evaluates a registered autoscaler again and again.    *)
Spec == Init /\ [][Next]_vars /\ WF_vars(Evaluate)

-----------------------------------------------------------------------------
Settled == Decision.action = "None"

(* While the demand stays the same the rounds come to an end: the autoscaler *)
(* does not go on patching the workload, and no limit keeps it from getting  *)
(* there (determineScalingAction, applySingleTimeScalingLimit).              *)
Converges == []<><<Retarget>>_vars \/ <>[]Settled

(* The limit that applies to the decision, and what the limiter makes of it. *)
Limit == IF Decision.action = "ScaleUp" THEN behavior.upLimit ELSE behavior.downLimit
Limited == ApplySingleTimeScalingLimit(Limit, cur, target)

(* A step of the limiter never goes past what was asked for: a scale-up      *)
(* never allocates more GPUs than desired, a scale-down never leaves fewer,  *)
(* although the limiter rounds to whole replicas of the desired size.        *)
NeverPastTarget ==
    /\ TotalGPUs(target) > TotalGPUs(cur) => TotalGPUs(Limited) <= TotalGPUs(target)
    /\ TotalGPUs(target) < TotalGPUs(cur) => TotalGPUs(Limited) >= TotalGPUs(target)

(* One step changes the number of GPUs by at most the limit and less than    *)
(* one replica: that is what the rounding in applySingleTimeScalingLimit     *)
(* may add to SingleTimeScalingLimit, in either direction.                   *)
StepNearLimit ==
    Limit > 0 => Diff(TotalGPUs(Limited), TotalGPUs(cur)) < Limit + target.g

(* Every step gets nearer to the GPUs that were asked for: the rounding up   *)
(* to whole replicas in applySingleTimeScalingLimit never takes back all of  *)
(* the step.  It may when a scale-down is limited to fewer GPUs than one     *)
(* replica has, and the rounds then stop short of the demand.                *)
StepGetsNearer ==
    (/\ TotalGPUs(target) # TotalGPUs(cur)
     /\ TotalGPUs(target) > TotalGPUs(cur) \/ Limit = 0 \/ Limit >= target.g) =>
        Diff(TotalGPUs(Limited), TotalGPUs(target)) < Diff(TotalGPUs(cur), TotalGPUs(target))

=============================================================================
