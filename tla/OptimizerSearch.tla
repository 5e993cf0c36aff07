-------------------------- MODULE OptimizerSearch --------------------------
(***************************************************************************)
(* An evaluation of one autoscaler, round after round: EvaluateAndScale of *)
(* internal/scaler/scaler.go turns a sample of metrics into a workload,    *)
(* FindOptimalConfiguration of internal/optimizer/resource_optimizer.go    *)
(* searches the configurations one at a time, and what it found is applied *)
(* and recorded, to correct the estimates of the next round.               *)
(*                                                                         *)
(* A metric that is missing or cannot be read is 0, as the getters of      *)
(* metric_handler.go return.  Whether a configuration that was found is    *)
(* applied (determineScalingAction and the grace period) is in             *)
(* ScalingAction and ScalingLifecycle: here it may or may not be.          *)
(***************************************************************************)
EXTENDS LatencyModel

CONSTANTS
    Specs,      \* specs of the autoscaler: limits and target latencies
    Samples,    \* what the metrics may say at the start of a round
    Defaults,   \* the target latencies of defaults.go
    MaxRounds,  \* bound on the rounds
    None

Targets == {"e2e", "ttft", "itl"}

ASSUME SearchAssumption ==
    /\ Specs \subseteq [minR : Nat, maxR : Nat \ {0},
                        minG : Nat \ {0}, maxG : Nat \ {0},
                        minC : 1..100, maxC : 1..100, stepC : Nat \ {0},
                        minM : Nat, maxM : Nat, stepM : Nat \ {0},
                        target : [Targets -> Nat \cup {None}]]
    /\ Samples \subseteq [rate : Nat, prompt : Nat, out : Nat, prefill : Nat, mem : Nat,
                          itl : Nat, ttft : Nat]
    /\ Defaults \in [Targets -> Nat]
    /\ MaxRounds \in Nat
    /\ None \notin Nat /\ None \notin Nat \X Nat

VARIABLES
    spec,    \* the autoscaler's spec
    last,    \* status.scalingResults.lastEstimation
    load,    \* the workload of this round
    pc,      \* "idle", "try", "shrink" or "found"
    at,      \* replicas and GPUs per replica to try next
    tested,  \* replicas and GPUs of lastTestedConfig
    best,    \* bestConfig
    rounds   \* rounds so far

vars == <<spec, last, load, pc, at, tested, best, rounds>>

-----------------------------------------------------------------------------
(* The offsets of a round, from the estimates and offsets of the last one    *)
(* that was recorded.  Whichever latency is looked at first is only ever     *)
(* raised; the other one gets its difference, whatever its sign.             *)
Raised(prev, measured, stored) == prev + NotNegative(measured - (stored - prev))
Shifted(prev, measured, stored) == prev + (measured - (stored - prev))

NoOffsets == [itl |-> 0, ttft |-> 0]

LatencyOffsets(l, m) ==
    IF l = None THEN NoOffsets
    ELSE IF m.itl > 0 /\ l.itl > 0
    THEN [itl |-> Raised(l.itlOff, m.itl, l.itl),
          ttft |-> Shifted(l.ttftOff, m.ttft, l.ttft)]
    ELSE IF m.ttft > 0 /\ l.ttft > 0
    THEN [itl |-> Shifted(l.itlOff, m.itl, l.itl),
          ttft |-> Raised(l.ttftOff, m.ttft, l.ttft)]
    ELSE [itl |-> l.itlOff, ttft |-> l.ttftOff]

(* The offsets do not count without traffic.                                 *)
Workload(m, l) ==
    LET off == IF m.rate = 0 THEN NoOffsets ELSE LatencyOffsets(l, m)
    IN  [rate |-> m.rate, prompt |-> m.prompt, out |-> m.out,
         prefill |-> m.prefill, mem |-> m.mem,
         itlOff |-> off.itl, ttftOff |-> off.ttft]

EffectiveTarget(t) == IF spec.target[t] = None THEN Defaults[t] ELSE spec.target[t]

(* Without traffic: the minimum of every limit, and no estimate.             *)
MinConfig == [r |-> spec.minR, g |-> spec.minG, c |-> spec.minC, m |-> spec.minM,
              est |-> [stable |-> TRUE, itl |-> 0, ttft |-> 0, e2e |-> 0]]

-----------------------------------------------------------------------------
(* evaluateConfiguration: the memory has no part in the verdict.             *)
EvaluateConfiguration(w, r, g, c, m) ==
    [r |-> r, g |-> g, c |-> c, m |-> m, est |-> Latency(w, r, g, c)]

Meets(config) ==
    config.est.stable /\ \A t \in Targets : config.est[t] <= EffectiveTarget(t)

(* The budget of GPUs is that of the largest configuration.                  *)
MaxGPUs(r) == Least(spec.maxG, (spec.maxG * spec.maxR) \div r)

(* A slip in it: rounding to a step rounds down.                             *)
AlignedDown(w, g) ==
    spec.minM + (NotNegative(MemoryNeed(w, g) - spec.minM) \div spec.stepM) * spec.stepM

(* The least memory of the policy, min + x * step, that is enough.           *)
AlignedMemory(w, g) ==
    spec.minM + CeilDiv(NotNegative(MemoryNeed(w, g) - spec.minM), spec.stepM) * spec.stepM

MinCompute(w, g) == Most(ThreadOccupancy(w, g), spec.minC)

(* Slips in the order of the loops: replicas first, and a replica count that *)
(* is never advanced.                                                        *)
ReplicasFirst(r, g) == IF r < spec.maxR THEN <<r + 1, g>>
                       ELSE IF g < spec.maxG THEN <<1, g + 1>> ELSE <<r + 1, 1>>
SameReplicas(r, g) == IF g < MaxGPUs(r) THEN <<r, g + 1>> ELSE <<r, 1>>

(* More GPUs before more replicas.                                           *)
NextTry(r, g) == IF g < MaxGPUs(r) THEN <<r, g + 1>> ELSE <<r + 1, 1>>

Init ==
    /\ spec \in Specs
    /\ last = None /\ load = None /\ tested = None /\ best = None
    /\ pc = "idle" /\ at = <<1, 1>> /\ rounds = 0

(* A round starts.  The autoscaler may not be readable for the offsets.      *)
EvaluateAndScale ==
    /\ pc = "idle" /\ rounds < MaxRounds
    /\ \E m \in Samples, l \in {last, None} :
         LET w == Workload(m, l)
         IN  /\ load' = w
             /\ pc' = IF w.rate = 0 THEN "found" ELSE "try"
             /\ best' = IF w.rate = 0 THEN MinConfig ELSE None
    /\ at' = <<1, 1>> /\ tested' = None /\ rounds' = rounds + 1
    /\ UNCHANGED <<spec, last>>

(* The memory needed is above the limit: the configuration is not tried.     *)
SkipsConfiguration ==
    /\ pc = "try" /\ at[1] <= spec.maxR
    /\ MemoryNeed(load, at[2]) > spec.maxM
    /\ at' = NextTry(at[1], at[2])
    /\ UNCHANGED <<spec, last, load, pc, tested, best, rounds>>

(* The configuration is tried with all the compute; when it meets the        *)
(* targets, so it does with the least memory, and the compute is shrunk.     *)
TriesConfiguration ==
    LET r == at[1]
        g == at[2]
        config == EvaluateConfiguration(load, r, g, spec.maxC, spec.maxM)
        aligned == EvaluateConfiguration(load, r, g, spec.maxC, AlignedMemory(load, g))
    IN  /\ pc = "try" /\ r <= spec.maxR
        /\ MemoryNeed(load, g) <= spec.maxM
        /\ tested' = at
        /\ IF Meets(config)
           THEN /\ best' = IF Meets(aligned) THEN aligned ELSE config
                /\ pc' = IF Meets(aligned) THEN "shrink" ELSE "found"
                /\ UNCHANGED at
           ELSE at' = NextTry(r, g) /\ UNCHANGED <<best, pc>>
        /\ UNCHANGED <<spec, last, load, rounds>>

(* A slip in the shrinking loop: its last step is not taken.                 *)
ShrinksShort ==
    LET c == best.c - spec.stepC
        smaller == EvaluateConfiguration(load, best.r, best.g, c, best.m)
    IN  /\ pc = "shrink"
        /\ IF c > MinCompute(load, best.g) /\ Meets(smaller)
           THEN best' = smaller /\ UNCHANGED pc
           ELSE pc' = "found" /\ UNCHANGED best
        /\ UNCHANGED <<spec, last, load, at, tested, rounds>>

(* The compute is taken back step by step, as long as the targets are met.   *)
ShrinksCompute ==
    LET c == best.c - spec.stepC
        smaller == EvaluateConfiguration(load, best.r, best.g, c, best.m)
    IN  /\ pc = "shrink"
        /\ IF c >= MinCompute(load, best.g) /\ Meets(smaller)
           THEN best' = smaller /\ UNCHANGED pc
           ELSE pc' = "found" /\ UNCHANGED best
        /\ UNCHANGED <<spec, last, load, at, tested, rounds>>

(* Nothing meets the targets: the last configuration tried has to do, or     *)
(* the round ends with an error when none was tried.                         *)
FallsBack ==
    /\ pc = "try" /\ at[1] > spec.maxR
    /\ IF tested = None THEN pc' = "idle" /\ UNCHANGED best
       ELSE /\ pc' = "found"
            /\ best' = EvaluateConfiguration(load, tested[1], tested[2], spec.maxC, spec.maxM)
    /\ UNCHANGED <<spec, last, load, at, tested, rounds>>

(* A slip in what is recorded: zero is taken for an estimate.                *)
AnyEstimation == [itl |-> best.est.itl, ttft |-> best.est.ttft,
                  itlOff |-> load.itlOff, ttftOff |-> load.ttftOff]

(* updateScalingStatus: only an estimate above zero is recorded.             *)
Estimation ==
    IF best.est.e2e <= 0 THEN last
    ELSE [itl |-> best.est.itl, ttft |-> best.est.ttft,
          itlOff |-> load.itlOff, ttftOff |-> load.ttftOff]

Applies ==
    /\ pc = "found" /\ pc' = "idle"
    /\ last' = Estimation
    /\ UNCHANGED <<spec, load, at, tested, best, rounds>>

(* No change is needed, the grace period runs, or a request failed.          *)
AppliesNothing ==
    /\ pc = "found" /\ pc' = "idle"
    /\ UNCHANGED <<spec, last, load, at, tested, best, rounds>>

Next ==
    \/ EvaluateAndScale
    \/ SkipsConfiguration
    \/ TriesConfiguration
    \/ ShrinksCompute
    \/ FallsBack
    \/ Applies
    \/ AppliesNothing

Spec == Init /\ [][Next]_vars

(* An evaluation is a call that runs to its end.                             *)
FairSpec ==
    /\ Spec
    /\ WF_vars(SkipsConfiguration \/ TriesConfiguration \/ ShrinksCompute
                 \/ FallsBack \/ Applies \/ AppliesNothing)

-----------------------------------------------------------------------------
Configs == [r : Nat, g : Nat \ {0}, c : Nat \ {0}, m : Nat,
            est : [stable : BOOLEAN, itl : Nat, ttft : Nat, e2e : Int]]

(* Latencies are not negative whatever the offsets are: a round in which one *)
(* of the two latencies was not measured makes the offset of that one        *)
(* negative.  No replicas: scale to zero, without traffic.                   *)
TypeOK ==
    /\ spec \in Specs
    /\ last = None \/ last \in [itl : Nat, ttft : Nat, itlOff : Int, ttftOff : Int]
    /\ load = None \/ load \in [rate : Nat, prompt : Nat, out : Nat, prefill : Nat, mem : Nat,
                               itlOff : Int, ttftOff : Int]
    /\ pc \in {"idle", "try", "shrink", "found"}
    /\ at \in (1..(spec.maxR + 1)) \X (1..spec.maxG)
    /\ tested \in ((1..spec.maxR) \X (1..spec.maxG)) \cup {None}
    /\ best \in Configs \cup {None}
    /\ rounds \in 0..MaxRounds

(* The search ended with a configuration, with traffic to search for.        *)
Searched == pc = "found" /\ load.rate > 0

Fitting == {p \in (1..spec.maxR) \X (1..spec.maxG) : MemoryNeed(load, p[2]) <= spec.maxM}
Meeting == {p \in Fitting :
              Meets(EvaluateConfiguration(load, p[1], p[2], spec.maxC, spec.maxM))}
Before(p, q) == p[1] < q[1] \/ (p[1] = q[1] /\ p[2] < q[2])

(* What FindOptimalConfiguration returns has the memory its estimate asks    *)
(* for and the compute, as far as the limits allow, and is within the        *)
(* limits, except that rounding the memory up to a step may pass the largest *)
(* one by less than a step.  (Nothing makes the user's least memory smaller  *)
(* than the largest: of the two, the greater one counts.)                    *)
EnoughWithinLimits ==
    Searched =>
      /\ best.r \in 1..spec.maxR /\ best.g \in 1..spec.maxG
      /\ best.c <= spec.maxC
      /\ best.c >= Least(spec.maxC, MinCompute(load, best.g))
      /\ MemoryNeed(load, best.g) <= best.m
      /\ best.m < Most(spec.minM, spec.maxM) + spec.stepM

(* The configuration found has the fewest replicas, and for these the fewest *)
(* GPUs, that meet the targets with all the compute; if it misses them, then *)
(* so does every other one, and it is the largest that fits in memory, as    *)
(* the comment "which should be at max replicas" expects.                    *)
FirstThatMeets ==
    Searched =>
      LET p == <<best.r, best.g>>
      IN  IF Meets(best) THEN p \in Meeting /\ \A q \in Meeting : ~Before(q, p)
          ELSE /\ Meeting = {}
               /\ p \in Fitting /\ \A q \in Fitting : ~Before(p, q)
               /\ p[1] = spec.maxR /\ best.c = spec.maxC

(* The loop stops shrinking at the first compute that misses.  For a single  *)
(* replica nothing below that one meets the targets either, so what the loop *)
(* keeps is the least compute of the grid.                                   *)
SmallestCompute ==
    (Searched /\ Meets(best) /\ best.r = 1) =>
      \A c \in MinCompute(load, best.g)..(best.c - 1) :
        (best.c - c) % spec.stepC = 0 =>
          ~Meets(EvaluateConfiguration(load, 1, best.g, c, best.m))

(* A round without traffic, which is also what a failed collection looks     *)
(* like, and a round whose load no configuration can carry, leave the        *)
(* estimates and offsets of the earlier rounds alone.                        *)
OnlyEstimatesRecorded ==
    [][last' # last => /\ load.rate > 0
                       /\ best.est.stable]_vars

(* Every evaluation ends.  The monitoring loop starts one in a goroutine for *)
(* every trigger and waits for none: those that did not end would pile up    *)
(* (notifyScalingAction, FindOptimalConfiguration).                          *)
EvaluationEnds == pc # "idle" ~> pc = "idle"

(* A configuration that is said to meet the targets takes at least as long   *)
(* as serving a request takes: the time in the queue is added to it.         *)
WaitAddsToService ==
    (Searched /\ Meets(best)) => best.est.e2e >= best.est.ttft + best.est.itl * load.out
=============================================================================
