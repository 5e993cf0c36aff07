---------------------------- MODULE ScalingAction ----------------------------
(***************************************************************************)
(* The scaling decision of internal/scaler/scaling_action.go as operators: *)
(* compare the current with the desired configuration, block a scale-down  *)
(* by MinTargetUtilization, cap the step by SingleTimeScalingLimit.        *)
(*                                                                         *)
(* A configuration has r replicas of g GPUs each; every GPU is requested   *)
(* with c compute and every replica with m memory.  The floats of the code *)
(* are integers in hundredths: c is in 1/100 percent, m in 1/100 GB, a     *)
(* utilization ratio in 1/100.  The thresholds of 0.01 become 1.  The text *)
(* of the reasons and the log lines are left out.                          *)
(***************************************************************************)
EXTENDS Integers

Hundred == 100

Config(R, G, C, M) == [r : R, g : G, c : C, m : M]

(* optimizer.ResourceConfiguration: totals over all replicas.                *)
TotalGPUs(x) == x.r * x.g
TotalCompute(x) == x.r * x.g * x.c
TotalMemory(x) == x.r * x.m

Diff(a, b) == IF a > b THEN a - b ELSE b - a

(* A ResourceClaimTemplate stores compute as int64(RequestedCompute), that   *)
(* is, without the fraction of a percent.                                    *)
StoredCompute(c) == (c \div Hundred) * Hundred

ComputeEqual(cur, des) == Diff(TotalCompute(des), TotalCompute(cur)) <= 1
MemoryEqual(cur, des) ==
    Hundred * Diff(TotalMemory(des), TotalMemory(cur)) <= TotalMemory(cur)

MemoryDiffers(cur, des) == Diff(cur.m, des.m) > 1
PerReplicaDiffers(cur, des) ==
    cur.g # des.g \/ Diff(cur.c, des.c) > 1 \/ MemoryDiffers(cur, des)

(* The comparison of determineScalingAction: total compute first, memory     *)
(* only when the compute totals are the same.                                *)
CompareTotals(cur, des) ==
    LET more == TotalCompute(des) > TotalCompute(cur)
        less == TotalCompute(des) < TotalCompute(cur)
    IN  IF ComputeEqual(cur, des) /\ MemoryEqual(cur, des)
        THEN [action |-> "None", replicaChange |-> FALSE,
              resourceChange |-> FALSE, desired |-> des]
        ELSE [action |-> IF more \/ (~less /\ TotalMemory(des) > TotalMemory(cur))
                         THEN "ScaleUp" ELSE "ScaleDown",
              replicaChange |-> cur.r # des.r,
              resourceChange |-> IF more \/ less THEN PerReplicaDiffers(cur, des)
                                 ELSE MemoryDiffers(cur, des),
              desired |-> des]

(* calculateResourceUtilization: compute, also as a proxy for any other      *)
(* resource, and the constant 1.0 for memory.                                *)
Utilization(res, des) == IF res = "memory" THEN Hundred ELSE des.c

(* checkMinTargetUtilization: TRUE blocks a scale-down.  minUtil maps the    *)
(* configured resources to their minimum ratio.                              *)
UtilizationBlocks(minUtil, dec, rate) ==
    /\ dec.action = "ScaleDown"
    /\ rate # 0
    /\ \E res \in DOMAIN minUtil :
        minUtil[res] > 0 /\ Utilization(res, dec.desired) >= minUtil[res]

(* The total number of GPUs a capped step aims at.                           *)
LimitedTotalGPUs(limit, cur, des) ==
    IF TotalGPUs(des) > TotalGPUs(cur) THEN TotalGPUs(cur) + limit
    ELSE IF TotalGPUs(cur) - limit < 1 THEN 1 ELSE TotalGPUs(cur) - limit

(* A slip: the cap is applied to a change within the limit as well.          *)
AlwaysCapped(limit, cur, des) ==
    LET total == LimitedTotalGPUs(limit, cur, des)
    IN  IF limit <= 0 \/ TotalGPUs(des) = TotalGPUs(cur) THEN des
        ELSE IF total >= des.g THEN [des EXCEPT !.r = (total + des.g - 1) \div des.g]
             ELSE [des EXCEPT !.r = 1, !.g = total]

(* A slip: a replica is added for a rest of zero as well.                    *)
RoundedUpTwice(limit, cur, des) ==
    LET total == LimitedTotalGPUs(limit, cur, des)
    IN  IF limit <= 0 \/ Diff(TotalGPUs(des), TotalGPUs(cur)) <= limit THEN des
        ELSE IF total >= des.g THEN [des EXCEPT !.r = total \div des.g + 1]
             ELSE [des EXCEPT !.r = 1, !.g = total]

(* applySingleTimeScalingLimit: the configuration it leaves in the decision. *)
(* A limit of 0 stands for "not configured".                                 *)
ApplySingleTimeScalingLimit(limit, cur, des) ==
    LET total == LimitedTotalGPUs(limit, cur, des)
        full == total \div des.g
        rest == total % des.g
    IN  IF limit <= 0 \/ Diff(TotalGPUs(des), TotalGPUs(cur)) <= limit THEN des
        ELSE IF total >= des.g
             THEN [des EXCEPT !.r = IF rest > 0 THEN full + 1 ELSE full]
             ELSE [des EXCEPT !.r = 1, !.g = total]

(* determineScalingAction.  behavior holds the two limits and minUtil.       *)
DetermineScalingAction(behavior, cur, des, rate) ==
    LET dec == CompareTotals(cur, des)
        limit == IF dec.action = "ScaleUp" THEN behavior.upLimit
                 ELSE behavior.downLimit
    IN  IF UtilizationBlocks(behavior.minUtil, dec, rate)
        THEN [dec EXCEPT !.action = "None", !.replicaChange = FALSE,
                         !.resourceChange = FALSE]
        ELSE IF dec.action = "None" THEN dec
        ELSE [dec EXCEPT !.desired = ApplySingleTimeScalingLimit(limit, cur, des)]

(* A slip: the status is only written with a resource change.                *)
ForgetReplicas(cur, dec) ==
    IF dec.action = "None" \/ ~dec.resourceChange THEN cur
    ELSE [dec.desired EXCEPT !.c = StoredCompute(@)]

(* updateScalingStatus and executeScalingChanges: what the next evaluation   *)
(* sees as current.  The replica count comes from status.desiredReplicas,    *)
(* which is always written; the rest from the template, which only a         *)
(* resource change replaces.                                                 *)
ApplyDecision(cur, dec) ==
    IF dec.action = "None" THEN cur
    ELSE IF dec.resourceChange
         THEN [dec.desired EXCEPT !.c = StoredCompute(@)]
         ELSE [cur EXCEPT !.r = dec.desired.r]
=============================================================================
