---------------------------- MODULE LatencyModel ----------------------------
(***************************************************************************)
(* What the optimizer expects of a configuration before it asks for it:    *)
(* the resources a workload needs on each GPU (resource_estimator.go), the *)
(* latency it would see (latency_estimator.go) and the time it would spend *)
(* in the queue (queue.go).                                                *)
(*                                                                         *)
(* The program computes in floating point.  Here time is counted in ticks, *)
(* tokens in blocks, memory in gigabytes and ratios in percent, all rounded*)
(* down except the memory, which the program rounds up.  Probabilities are *)
(* fractions, so that the wait is rounded once.  The model and the GPU are *)
(* known ones: the calibration of an unknown architecture is left out.     *)
(***************************************************************************)
EXTENDS Integers

CONSTANTS
    Second,    \* ticks in a second
    RateUnit,  \* rates are counted in 1/RateUnit requests per second
    Hint,      \* batch, cap on batched tokens, cache hit rate and speedup
    Arch,      \* costs of the model: see the ASSUME
    GPU        \* speedup and contention of the GPU registry

ASSUME ModelAssumption ==
    /\ Second \in Nat \ {0} /\ RateUnit \in Nat \ {0}
    /\ Hint \in [batch : Nat \ {0}, maxBatched : Nat, hit : 0..100, speedup : Nat]
    /\ Arch \in [threads : Nat,                   \* % of a GPU, per token
                 weights : Nat, kv : Nat, act : Nat, attention : Nat, long : Nat \ {0},
                 prefill : Nat, weightRead : Nat, kvRead : Nat,
                 kernel : Nat, sync : Nat]
    /\ GPU \in [speedUp : 0..100, contention : Nat]

(* An overhead of 20% on the memory, which a measurement raises to 30%.      *)
DefaultOverhead == 120
MaxMemoryOverheadFactor == 130

(* An estimate that no target allows: a wait that is infinite.               *)
Forever == 1000000

Least(a, b) == IF a <= b THEN a ELSE b
Most(a, b) == IF a >= b THEN a ELSE b
CeilDiv(a, b) == (a + b - 1) \div b
NotNegative(x) == Most(0, x)

-----------------------------------------------------------------------------
(* Resources per GPU.  A workload w has a rate, prompt, output and measured  *)
(* prefill tokens, the memory measured, which is 0 unless the claim has      *)
(* exactly one GPU, and the offsets of the previous rounds.                  *)

PrefillTokens(w) ==
    Least((w.prompt * (100 - Hint.hit) * Hint.batch) \div 100, Hint.maxBatched)

ThreadOccupancy(w, g) ==
    Least(100, (Most(PrefillTokens(w), Hint.batch) * Arch.threads) \div g)

(* The batch counts twice for the cache: once in the tokens, once more here. *)
(* Attention only counts for long prompts; it grows with their length, the   *)
(* power of 1.3 taken as 1.                                                  *)
MemoryAt(w, prefill, g, overhead) ==
    LET attention == IF w.prompt <= Arch.long THEN 0
                     ELSE (Arch.attention * prefill * w.prompt) \div Arch.long
        raw == Arch.weights + Arch.kv * Hint.batch * Hint.batch * (w.prompt + w.out)
               + Arch.act * prefill + attention
    IN  CeilDiv(raw * overhead, 100 * g)

(* The tokens of a prefill for the tuning: those measured, or else one       *)
(* prompt, and no more than the batch leaves room for.                       *)
TuningTokens(w) ==
    IF w.prefill > 0 THEN w.prefill ELSE Least(w.prompt, Hint.maxBatched - Hint.batch)

(* TuneWithMetrics: memory measured on one GPU can only raise the overhead.  *)
TunedOverhead(w) ==
    LET estimate == MemoryAt(w, TuningTokens(w), 1, DefaultOverhead)
    IN  IF TuningTokens(w) <= 0 \/ estimate = 0 THEN DefaultOverhead
        ELSE Most(DefaultOverhead,
                  Least(MaxMemoryOverheadFactor, (100 * w.mem) \div estimate))

MemoryNeed(w, g) == MemoryAt(w, PrefillTokens(w), g, TunedOverhead(w))

-----------------------------------------------------------------------------
(* Latency of one request on a replica of g GPUs with c percent of each.     *)

AllocationImpact(occupancy, c) ==
    LET ratio == Least(100, (100 * occupancy) \div c)
    IN  IF ratio < 50 THEN -((100 - ratio) * GPU.speedUp) \div 100
        ELSE IF ratio > 80 THEN ((ratio - 80) * GPU.contention) \div 100
        ELSE 0

Scaled(cost, g, impact) == (cost * (100 + impact)) \div (100 * g)

Prefill(w, g, impact) ==
    LET saved == (Hint.speedup * Hint.hit) \div 100
        cost == Arch.prefill * w.prompt * Hint.batch
        left == IF Hint.hit > 0 /\ saved <= 100 THEN (cost * (100 - saved)) \div 100
                ELSE cost
        overhead == Arch.kernel + (IF g > 1 THEN Arch.sync * g ELSE 0)
    IN  NotNegative(Scaled(left, g, impact) + w.ttftOff) + overhead

(* A slip in it: an offset may make it negative.                             *)
InterTokenUnclamped(w, g, impact) ==
    Scaled(Arch.weightRead + Arch.kvRead * w.prompt, g, impact) + w.itlOff

InterToken(w, g, impact) ==
    NotNegative(Scaled(Arch.weightRead + Arch.kvRead * w.prompt, g, impact) + w.itlOff)

-----------------------------------------------------------------------------
(* The queue in front of r replicas, whose load is a/b: a the service time   *)
(* asked for and b what one replica serves in the same time.                 *)

Asked(rate, service) == rate * service
OneServes == RateUnit * Second

(* Both sides of Erlang's fraction for r replicas are multiplied by          *)
(* r! * b^r: top is then its term for r, below the sum of those before it.   *)
ErlangTerms(a) ==
    LET terms[r \in Nat] ==
          IF r = 0 THEN [top |-> 1, below |-> 0]
          ELSE LET before == terms[r - 1]
               IN  [top |-> a * before.top,
                    below |-> (before.below + before.top) * OneServes * r]
    IN  terms

(* The probability that all r replicas are busy: a fraction, both sides of   *)
(* which are multiplied by the load that is left.                            *)
ErlangC(a, r) ==
    LET t == ErlangTerms(a)[r]
        left == r * OneServes - a
    IN  [num |-> t.top * left, den |-> t.below * left + t.top * r * OneServes]

(* The wait, by the service time.  It divides by what one replica has left,  *)
(* whatever their number.                                                    *)
QueueWait(rate, r) ==
    [service \in Nat |->
       LET a == Asked(rate, service)
           busy == ErlangC(a, r)
           over(rest) == (RateUnit * service * service * busy.num) \div (busy.den * rest)
       IN  IF busy.num = 0 THEN 0
           ELSE IF a = OneServes THEN Forever
           ELSE IF a < OneServes THEN over(OneServes - a) ELSE -over(a - OneServes)]

(* AddQueuingResults: an unstable queue leaves the totals at zero.           *)
Latency(w, r, g, c) ==
    LET impact  == AllocationImpact(ThreadOccupancy(w, g), c)
        itl     == InterToken(w, g, impact)
        prefill == Prefill(w, g, impact)
        service == prefill + itl * w.out
    IN  IF Asked(w.rate, service) >= r * OneServes
        THEN [stable |-> FALSE, itl |-> itl, ttft |-> 0, e2e |-> 0]
        ELSE [stable |-> TRUE, itl |-> itl, ttft |-> prefill,
              e2e |-> QueueWait(w.rate, r)[service] + service]
=============================================================================
