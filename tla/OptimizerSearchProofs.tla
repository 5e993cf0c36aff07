----------------------- MODULE OptimizerSearchProofs -----------------------
(***************************************************************************)
(* TLAPS proofs about OptimizerSearch: for any specs with positive steps,  *)
(* compute between 1 and 100 percent and any other limits, scale to zero   *)
(* included, for any samples and number of rounds, and any model and GPU.  *)
(* What they need of the estimates is in LatencyModelProofs.               *)
(***************************************************************************)
EXTENDS OptimizerSearch, LatencyModelProofs, TLAPS

Grid == (1..spec.maxR) \X (1..spec.maxG)

Estimations == [itl : Nat, ttft : Nat, itlOff : Int, ttftOff : Int]

(* The types, except for the time in the queue.                              *)
Typed ==
    /\ spec \in Specs
    /\ last = None \/ last \in Estimations
    /\ load = None \/ load \in Loads
    /\ pc \in {"idle", "try", "shrink", "found"}
    /\ pc # "idle" => load \in Loads
    /\ at \in (1..(spec.maxR + 1)) \X (1..spec.maxG)
    /\ pc \in {"shrink", "found"} => best.est.itl \in Nat /\ best.est.ttft \in Nat

(* The search has gone through the pairs of replicas and GPUs before at in   *)
(* order, and the last one that fits in memory was tried.                    *)
Tried ==
    pc = "try" =>
        /\ load.rate > 0
        /\ \A q \in Meeting : ~Before(q, at)
        /\ tested = None => \A q \in Fitting : ~Before(q, at)
        /\ tested # None =>
            /\ tested \in Fitting
            /\ \A q \in Fitting : Before(q, at) => ~Before(tested, q)
            /\ tested \notin Meeting

(* A configuration that is being shrunk meets the targets.                   *)
Shrinking ==
    pc = "shrink" => load.rate > 0 /\ Meets(best)

(* What the theorems say, also while the configuration is being shrunk.      *)
Enough ==
    /\ best.r \in 1..spec.maxR /\ best.g \in 1..spec.maxG
    /\ best.c \in Nat \ {0} /\ best.c <= spec.maxC
    /\ best.c >= Least(spec.maxC, MinCompute(load, best.g))
    /\ MemoryNeed(load, best.g) <= best.m
    /\ best.m < Most(spec.minM, spec.maxM) + spec.stepM

First ==
    LET p == <<best.r, best.g>>
    IN  IF Meets(best) THEN p \in Meeting /\ \A q \in Meeting : ~Before(q, p)
        ELSE /\ Meeting = {}
             /\ p \in Fitting /\ \A q \in Fitting : ~Before(p, q)
             /\ p[1] = spec.maxR /\ best.c = spec.maxC

Chosen == pc = "shrink" \/ Searched => Enough /\ First

(* Without traffic the least configuration is taken, with no estimate, and   *)
(* an estimate above zero is one of a stable queue.                          *)
Estimated ==
    pc \in {"shrink", "found"} =>
        /\ load.rate = 0 => best.est.e2e = 0
        /\ ~best.est.stable => best.est.e2e = 0

IInv == Typed /\ Tried /\ Shrinking /\ Chosen /\ Estimated

-----------------------------------------------------------------------------
(* The order of the search.                                                  *)
LEMMA SpecLimits ==
    ASSUME spec \in Specs
    PROVE  /\ spec.maxR \in Nat \ {0} /\ spec.maxG \in Nat \ {0}
           /\ spec.minC \in Nat \ {0} /\ spec.maxC \in Nat \ {0} /\ spec.stepC \in Nat \ {0}
           /\ spec.minM \in Nat /\ spec.maxM \in Nat /\ spec.stepM \in Nat \ {0}
BY SearchAssumption

(* The least compute is a number at least as large as the limit.             *)
LEMMA MinComputeInt ==
    ASSUME spec \in Specs, load \in Loads, NEW g \in Nat \ {0}
    PROVE  MinCompute(load, g) \in Int /\ MinCompute(load, g) >= spec.minC
<1>1. ThreadOccupancy(load, g) \in Int BY ThreadOccupancyNat DEF Loads
<1>2. spec.minC \in Int BY SpecLimits
<1> QED BY <1>1, <1>2 DEF MinCompute, Most

(* The budget of GPUs never cuts the GPUs of a replica.                      *)
LEMMA AllGPUs ==
    ASSUME spec \in Specs, NEW r \in 1..spec.maxR
    PROVE  MaxGPUs(r) = spec.maxG
<1>1. spec.maxR \in Nat \ {0} /\ spec.maxG \in Nat \ {0} /\ r \in Nat \ {0}
  BY SpecLimits
<1>2. spec.maxG * r <= spec.maxG * spec.maxR BY <1>1, ProductMonotonic
<1>3. spec.maxG * spec.maxR \in Nat BY <1>1, Products
<1>4. (spec.maxG * spec.maxR) \div r >= spec.maxG BY <1>1, <1>2, <1>3, QuotientAtLeast
<1>5. (spec.maxG * spec.maxR) \div r \in Nat BY <1>1, <1>3, Quotients
<1> QED BY <1>1, <1>4, <1>5 DEF MaxGPUs, Least

(* What comes before the next pair is this pair and what comes before it.    *)
LEMMA NextInOrder ==
    ASSUME Typed, at[1] <= spec.maxR
    PROVE  /\ at \in Grid /\ at = <<at[1], at[2]>>
           /\ NextTry(at[1], at[2]) \in (1..(spec.maxR + 1)) \X (1..spec.maxG)
           /\ \A q \in Grid : Before(q, NextTry(at[1], at[2])) => Before(q, at) \/ q = at
           /\ Before(at, NextTry(at[1], at[2]))
<1>1. /\ spec.maxR \in Nat \ {0} /\ spec.maxG \in Nat \ {0}
      /\ at \in (1..(spec.maxR + 1)) \X (1..spec.maxG)
  BY SpecLimits DEF Typed
<1>2. PICK r \in 1..spec.maxR, g \in 1..spec.maxG : at = <<r, g>> /\ at[1] = r /\ at[2] = g
  BY <1>1
<1>3. MaxGPUs(r) = spec.maxG BY <1>2, AllGPUs DEF Typed
<1>4. at \in Grid BY <1>2 DEF Grid
<1>5. NextTry(r, g) \in (1..(spec.maxR + 1)) \X (1..spec.maxG)
  BY <1>1, <1>2, <1>3 DEF NextTry
<1>6. ASSUME NEW x \in 1..spec.maxR, NEW y \in 1..spec.maxG, Before(<<x, y>>, NextTry(r, g))
      PROVE  Before(<<x, y>>, <<r, g>>) \/ (x = r /\ y = g)
  <2>1. CASE g < spec.maxG
    <3>1. NextTry(r, g) = <<r, g + 1>> BY <1>3, <2>1 DEF NextTry
    <3>2. x < r \/ (x = r /\ y < g + 1) BY <1>6, <3>1 DEF Before
    <3> QED BY <1>1, <3>2 DEF Before
  <2>2. CASE ~(g < spec.maxG)
    <3>1. NextTry(r, g) = <<r + 1, 1>> BY <1>3, <2>2 DEF NextTry
    <3>2. x < r + 1 \/ (x = r + 1 /\ y < 1) BY <1>6, <3>1 DEF Before
    <3> QED BY <1>1, <2>2, <3>2 DEF Before
  <2> QED BY <2>1, <2>2
<1>7. Before(<<r, g>>, NextTry(r, g)) BY <1>1, <1>2 DEF NextTry, Before
<1> QED BY <1>2, <1>4, <1>5, <1>6, <1>7 DEF Grid

(* What fits in memory is one of the pairs, what meets the targets fits.     *)
LEMMA FittingInGrid == Fitting \subseteq Grid /\ Meeting \subseteq Fitting
BY DEF Fitting, Meeting, Grid

(* The memory has no part in the verdict.                                    *)
LEMMA VerdictWithoutMemory ==
    \A w, r, g, c, m, n : Meets(EvaluateConfiguration(w, r, g, c, m))
                            <=> Meets(EvaluateConfiguration(w, r, g, c, n))
BY DEF Meets, EvaluateConfiguration

(* What the search goes by does not change with a spec and a load that stay. *)
LEMMA SameSearch ==
    ASSUME UNCHANGED <<spec, load>>
    PROVE  /\ Fitting' = Fitting /\ Meeting' = Meeting /\ Grid' = Grid
           /\ \A x : Meets(x)' <=> Meets(x)
BY DEF Fitting, Meeting, Grid, Meets, EffectiveTarget

(* The memory of a configuration that was aligned.                           *)
LEMMA AlignedEnough ==
    ASSUME spec \in Specs, NEW g, MemoryNeed(load, g) \in Nat,
           MemoryNeed(load, g) <= spec.maxM
    PROVE  /\ MemoryNeed(load, g) <= AlignedMemory(load, g)
           /\ AlignedMemory(load, g) < Most(spec.minM, spec.maxM) + spec.stepM
<1> DEFINE need == MemoryNeed(load, g)
           x == NotNegative(need - spec.minM)
           y == CeilDiv(x, spec.stepM) * spec.stepM
<1>1. /\ spec.minM \in Nat /\ spec.maxM \in Nat /\ spec.stepM \in Nat \ {0}
      /\ need \in Nat /\ need <= spec.maxM
  BY SpecLimits
<1> HIDE DEF need
<1>2. x \in Nat /\ x >= need - spec.minM /\ (x = 0 \/ x = need - spec.minM)
  BY <1>1 DEF NotNegative, Most
<1> HIDE DEF x
<1>3. y \in Nat /\ x <= y /\ y < x + spec.stepM BY <1>1, <1>2, RoundedUp, Products
<1> HIDE DEF y
<1>4. AlignedMemory(load, g) = spec.minM + y BY DEF AlignedMemory, y, x, need
<1>5. need <= spec.minM + y BY <1>1, <1>2, <1>3
<1>6. spec.minM + y < Most(spec.minM, spec.maxM) + spec.stepM
  BY <1>1, <1>2, <1>3 DEF Most
<1> QED BY <1>4, <1>5, <1>6 DEF need

-----------------------------------------------------------------------------
(* The steps.                                                                *)

(* At first there is nothing to say.                                         *)
LEMMA InitSearch == Init => IInv
<1> SUFFICES ASSUME Init PROVE IInv OBVIOUS
<1>1. at \in (1..(spec.maxR + 1)) \X (1..spec.maxG) BY SpecLimits DEF Init
<1> QED BY <1>1 DEF Init, IInv, Typed, Tried, Shrinking, Chosen, Searched, Estimated

(* A round starts: the offsets are integers, whatever was measured.          *)
LEMMA WorkloadTyped ==
    ASSUME NEW m \in Samples, NEW l, l = None \/ l \in Estimations
    PROVE  Workload(m, l) \in Loads /\ Workload(m, l).rate = m.rate
<1>1. m \in [rate : Nat, prompt : Nat, out : Nat, prefill : Nat, mem : Nat,
             itl : Nat, ttft : Nat]
  BY SearchAssumption
<1>2. \A p, x, s \in Int : Raised(p, x, s) \in Int /\ Shifted(p, x, s) \in Int
  BY NotNegative1 DEF Raised, Shifted
<1>3. l # None => LatencyOffsets(l, m) \in [itl : Int, ttft : Int]
  <2> SUFFICES ASSUME l # None PROVE LatencyOffsets(l, m) \in [itl : Int, ttft : Int]
    OBVIOUS
  <2>1. /\ l.itl \in Int /\ l.ttft \in Int /\ l.itlOff \in Int /\ l.ttftOff \in Int
        /\ m.itl \in Int /\ m.ttft \in Int
    BY <1>1 DEF Estimations
  <2> QED BY <1>2, <2>1 DEF LatencyOffsets
<1>4. LatencyOffsets(l, m) \in [itl : Int, ttft : Int]
  BY <1>3 DEF LatencyOffsets, NoOffsets
<1> DEFINE off == IF m.rate = 0 THEN NoOffsets ELSE LatencyOffsets(l, m)
<1>5. off \in [itl : Int, ttft : Int] BY <1>4 DEF NoOffsets
<1> HIDE DEF off
<1> QED BY <1>1, <1>5 DEF Workload, Loads, off

(* A round starts at the first pair, or without traffic is over.             *)
LEMMA RoundStarts == IInv /\ EvaluateAndScale => IInv'
<1> SUFFICES ASSUME IInv, EvaluateAndScale PROVE IInv' OBVIOUS
<1>1. PICK m \in Samples, l \in {last, None} :
        /\ load' = Workload(m, l)
        /\ pc' = IF Workload(m, l).rate = 0 THEN "found" ELSE "try"
        /\ best' = IF Workload(m, l).rate = 0 THEN MinConfig ELSE None
  BY DEF EvaluateAndScale
<1>2. load' \in Loads /\ load'.rate = m.rate
  BY <1>1, WorkloadTyped DEF IInv, Typed
<1>3. /\ load'.rate \in Nat
      /\ pc' = IF load'.rate = 0 THEN "found" ELSE "try"
      /\ best' = IF load'.rate = 0 THEN MinConfig ELSE None
      /\ at' = <<1, 1>> /\ tested' = None /\ UNCHANGED <<spec, last>>
  BY <1>1, <1>2 DEF EvaluateAndScale, Loads
<1>4. spec \in Specs BY DEF IInv, Typed
<1>5. at' \in (1..(spec'.maxR + 1)) \X (1..spec'.maxG) BY <1>3, <1>4, SpecLimits
<1>6. (best'.est.itl \in Nat /\ best'.est.ttft \in Nat) \/ pc' = "try" BY <1>3 DEF MinConfig
<1>7. Typed' BY <1>2, <1>3, <1>4, <1>5, <1>6 DEF IInv, Typed
<1>8. Tried'
  <2>1. \A q \in Grid' : ~Before(q, at')
    BY <1>3, <1>4, SpecLimits DEF Grid, Before
  <2> QED BY <1>3, <2>1, FittingInGrid DEF Tried, Fitting, Meeting, Grid
<1>9. Shrinking' /\ Chosen' BY <1>3 DEF Shrinking, Chosen, Searched
<1>10. Estimated' BY <1>3 DEF Estimated, MinConfig
<1> QED BY <1>7, <1>8, <1>9, <1>10 DEF IInv

(* A configuration that does not fit in memory is passed over.               *)
LEMMA SkipKeeps == IInv /\ SkipsConfiguration => IInv'
<1> SUFFICES ASSUME IInv, SkipsConfiguration PROVE IInv' OBVIOUS
<1>0. Typed /\ Tried /\ pc = "try" /\ at[1] <= spec.maxR /\ load \in Loads
  BY DEF IInv, SkipsConfiguration, Typed
<1>1. /\ UNCHANGED <<spec, last, load, pc, tested, best>>
      /\ at' = NextTry(at[1], at[2]) /\ MemoryNeed(load, at[2]) > spec.maxM
  BY DEF SkipsConfiguration
<1>2. at \notin Fitting
  <2>1. at[2] \in Nat \ {0} BY <1>0, SpecLimits DEF Typed
  <2>2. MemoryNeed(load, at[2]) \in Nat BY <1>0, <2>1, MemoryNeedNat DEF Loads
  <2>3. spec.maxM \in Nat BY <1>0, SpecLimits DEF Typed
  <2> QED BY <1>1, <2>2, <2>3 DEF Fitting
<1>3. Typed' BY <1>0, <1>1, NextInOrder DEF Typed
<1>4. \A q \in Fitting : Before(q, at') => Before(q, at)
  BY <1>0, <1>1, <1>2, NextInOrder, FittingInGrid
<1>5. Tried' BY <1>0, <1>1, <1>4, SameSearch, FittingInGrid DEF Tried
<1>6. Shrinking' /\ Chosen' /\ Estimated'
  BY <1>0, <1>1 DEF Shrinking, Chosen, Searched, Estimated
<1> QED BY <1>3, <1>5, <1>6 DEF IInv

(* A configuration is tried: either it is the first that meets the targets,  *)
(* or the search goes on behind it.                                          *)
LEMMA TryKeeps == IInv /\ TriesConfiguration => IInv'
<1> SUFFICES ASSUME IInv, TriesConfiguration PROVE IInv' OBVIOUS
<1> DEFINE r == at[1]
           g == at[2]
           config == EvaluateConfiguration(load, r, g, spec.maxC, spec.maxM)
           aligned == EvaluateConfiguration(load, r, g, spec.maxC, AlignedMemory(load, g))
<1>0. Typed /\ Tried /\ pc = "try" /\ r <= spec.maxR /\ load \in Loads
  BY DEF IInv, TriesConfiguration, Typed
<1>1. /\ UNCHANGED <<spec, last, load>> /\ tested' = at
      /\ MemoryNeed(load, g) <= spec.maxM
      /\ IF Meets(config)
         THEN /\ best' = IF Meets(aligned) THEN aligned ELSE config
              /\ pc' = IF Meets(aligned) THEN "shrink" ELSE "found"
              /\ UNCHANGED at
         ELSE at' = NextTry(r, g) /\ UNCHANGED <<best, pc>>
  BY DEF TriesConfiguration
<1>2. /\ at \in Grid /\ at = <<r, g>> /\ r \in 1..spec.maxR /\ g \in 1..spec.maxG
      /\ g \in Nat \ {0}
  BY <1>0, NextInOrder, SpecLimits DEF Grid, Typed
<1>3. at \in Fitting BY <1>1, <1>2 DEF Fitting, Grid
<1>4. Meets(aligned) <=> Meets(config) BY VerdictWithoutMemory
<1>5. Meets(config) <=> at \in Meeting BY <1>3 DEF Meeting
<1>6. at # None BY <1>2, SpecLimits, SearchAssumption DEF Grid
<1>7. CASE ~Meets(config)
  <2>1. at' = NextTry(r, g) /\ UNCHANGED <<best, pc>> BY <1>1, <1>7
  <2>2. Typed' BY <1>0, <1>1, <2>1, NextInOrder DEF Typed
  <2>3. \A q \in Grid : Before(q, at') => Before(q, at) \/ q = at
    BY <1>0, <2>1, NextInOrder
  <2>4. \A q \in Meeting : ~Before(q, at')
    BY <1>0, <1>5, <1>7, <2>3, FittingInGrid DEF Tried
  <2>5. \A q \in Grid : Before(q, at) \/ q = at => ~Before(at, q)
    BY <1>2, SpecLimits DEF Grid, Before, Typed
  <2>6. Tried'
    BY <1>0, <1>1, <1>3, <1>5, <1>6, <1>7, <2>1, <2>3, <2>4, <2>5, SameSearch, FittingInGrid
    DEF Tried
  <2>7. Shrinking' /\ Chosen' /\ Estimated'
    BY <1>0, <2>1 DEF Shrinking, Chosen, Searched, Estimated
  <2> QED BY <2>2, <2>6, <2>7 DEF IInv
<1>8. CASE Meets(config)
  <2>1. best' = aligned /\ pc' = "shrink" /\ at' = at BY <1>1, <1>4, <1>8
  <2>2. /\ aligned.r = r /\ aligned.g = g /\ aligned.c = spec.maxC
        /\ aligned.m = AlignedMemory(load, g)
        /\ aligned.est = Latency(load, r, g, spec.maxC)
    BY DEF EvaluateConfiguration
  <2> HIDE DEF aligned
  <2>3. spec.maxC \in Nat \ {0} BY <1>0, SpecLimits DEF Typed
  <2>4. Typed' /\ Estimated'
    <3>1. load.rate > 0 BY <1>0 DEF Tried
    <3>2. r \in Nat \ {0} /\ g \in Nat \ {0} BY <1>0, <1>2, SpecLimits DEF Typed
    <3>3. /\ aligned.est.itl \in Nat /\ aligned.est.ttft \in Nat
          /\ ~aligned.est.stable => aligned.est.e2e = 0
      BY <1>0, <2>2, <2>3, <3>2, LatencyNat
    <3> QED BY <1>0, <1>1, <1>2, <2>1, <3>1, <3>3 DEF Typed, Estimated, Loads
  <2>5. Tried' /\ Shrinking'
    BY <1>0, <1>1, <1>4, <1>8, <2>1, SameSearch DEF Tried, Shrinking
  <2>6. First'
    <3>1. <<best'.r, best'.g>> = at BY <1>2, <2>1, <2>2
    <3>2. Meets(best)' BY <1>1, <1>4, <1>8, <2>1, SameSearch DEF Meets, EffectiveTarget
    <3>3. at \in Meeting' /\ \A q \in Meeting' : ~Before(q, at)
      BY <1>0, <1>1, <1>5, <1>8, SameSearch DEF Tried
    <3> QED BY <3>1, <3>2, <3>3 DEF First
  <2>7. Enough'
    <3>1. MemoryNeed(load, g) \in Nat BY <1>0, <1>2, MemoryNeedNat DEF Loads
    <3>2. /\ MemoryNeed(load, g) <= AlignedMemory(load, g)
          /\ AlignedMemory(load, g) < Most(spec.minM, spec.maxM) + spec.stepM
      BY <1>0, <1>1, <3>1, AlignedEnough DEF Typed
    <3>3. spec.maxC >= Least(spec.maxC, MinCompute(load, g))
      BY <1>0, <1>2, <2>3, MinComputeInt DEF Typed, Least
    <3> QED BY <1>1, <1>2, <2>1, <2>2, <2>3, <3>2, <3>3 DEF Enough, MinCompute
  <2> QED BY <2>4, <2>5, <2>6, <2>7 DEF IInv, Chosen
<1> QED BY <1>7, <1>8

(* Shrinking keeps the replicas, the GPUs and the memory, and goes no lower  *)
(* than the compute that is needed.                                          *)
LEMMA ShrinkKeeps == IInv /\ ShrinksCompute => IInv'
<1> SUFFICES ASSUME IInv, ShrinksCompute PROVE IInv' OBVIOUS
<1> DEFINE c == best.c - spec.stepC
           smaller == EvaluateConfiguration(load, best.r, best.g, c, best.m)
<1>0. /\ Typed /\ pc = "shrink" /\ load \in Loads /\ spec \in Specs /\ Shrinking /\ Estimated
      /\ Enough /\ First
  BY DEF IInv, ShrinksCompute, Typed, Chosen
<1>1. UNCHANGED <<spec, last, load, at, tested>> BY DEF ShrinksCompute
<1>2. CASE UNCHANGED best /\ pc' = "found"
  <2>1. Typed' /\ Estimated' BY <1>0, <1>1, <1>2 DEF Typed, Estimated
  <2>2. Tried' /\ Shrinking' BY <1>2 DEF Tried, Shrinking
  <2>3. Enough' BY <1>0, <1>1, <1>2 DEF Enough, MinCompute
  <2>4. First'
    <3>1. Meets(best)' <=> Meets(best) BY <1>1, <1>2 DEF Meets, EffectiveTarget
    <3> QED BY <1>0, <1>1, <1>2, <3>1, SameSearch DEF First
  <2> QED BY <2>1, <2>2, <2>3, <2>4 DEF IInv, Chosen
<1>3. CASE c >= MinCompute(load, best.g) /\ Meets(smaller) /\ best' = smaller /\ pc' = pc
  <2>1. /\ smaller.r = best.r /\ smaller.g = best.g /\ smaller.c = c /\ smaller.m = best.m
        /\ smaller.est = Latency(load, best.r, best.g, c)
    BY DEF EvaluateConfiguration
  <2> HIDE DEF smaller
  <2>2. /\ best.r \in Nat \ {0} /\ best.g \in Nat \ {0}
        /\ best.c \in Nat /\ best.c <= spec.maxC
        /\ spec.maxC \in Nat /\ spec.stepC \in Nat \ {0} /\ spec.minC \in Nat \ {0}
        /\ spec.maxG \in Nat
    BY <1>0, SpecLimits DEF Enough
  <2>3. MinCompute(load, best.g) \in Int /\ MinCompute(load, best.g) >= spec.minC
    BY <1>0, <2>2, MinComputeInt
  <2>4. c \in Nat \ {0} /\ c <= spec.maxC /\ c >= Least(spec.maxC, MinCompute(load, best.g))
    BY <1>3, <2>2, <2>3 DEF Least
  <2> HIDE DEF c
  <2>5. Typed' /\ Estimated'
    <3> DEFINE e == Latency(load, best.r, best.g, c)
    <3>1. load \in Loads /\ smaller.est = e BY <1>0, <2>1
    <3>2. e.itl \in Nat /\ e.ttft \in Nat /\ (~e.stable => e.e2e = 0)
      BY <2>2, <2>4, <3>1, LatencyNat
    <3> HIDE DEF e
    <3>3. /\ smaller.est.itl \in Nat /\ smaller.est.ttft \in Nat
          /\ ~smaller.est.stable => smaller.est.e2e = 0
      BY <3>1, <3>2
    <3> QED BY <1>0, <1>1, <1>3, <3>3 DEF Typed, Estimated, Shrinking, Loads
  <2>6. Meets(best)' BY <1>1, <1>3 DEF Meets, EffectiveTarget
  <2>7. Tried' /\ Shrinking' BY <1>0, <1>1, <1>3, <2>6 DEF Tried, Shrinking
  <2>8. Enough' BY <1>0, <1>1, <1>3, <2>1, <2>4 DEF Enough, MinCompute
  <2>9. First'
    <3>1. Meets(best) BY <1>0 DEF Shrinking
    <3> QED BY <1>0, <1>1, <1>3, <2>1, <2>6, <3>1, SameSearch DEF First
  <2> QED BY <2>5, <2>7, <2>8, <2>9 DEF IInv, Chosen
<1> QED BY <1>2, <1>3 DEF ShrinksCompute

(* All pairs were gone through: the one tried last is the largest that fits. *)
LEMMA FallBackKeeps == IInv /\ FallsBack => IInv'
<1> SUFFICES ASSUME IInv, FallsBack PROVE IInv' OBVIOUS
<1>0. /\ Typed /\ Tried /\ pc = "try" /\ at[1] > spec.maxR /\ load \in Loads /\ spec \in Specs
      /\ UNCHANGED <<spec, last, load, at, tested>>
  BY DEF IInv, FallsBack, Typed
<1>1. CASE tested = None
  <2>1. pc' = "idle" BY <1>1 DEF FallsBack
  <2> QED BY <1>0, <2>1 DEF IInv, Typed, Tried, Shrinking, Chosen, Searched, Estimated
<1>2. CASE tested # None
  <2> DEFINE r == tested[1]
             g == tested[2]
             config == EvaluateConfiguration(load, r, g, spec.maxC, spec.maxM)
  <2>1. pc' = "found" /\ best' = config BY <1>2 DEF FallsBack
  <2>2. /\ config.r = r /\ config.g = g /\ config.c = spec.maxC /\ config.m = spec.maxM
        /\ config.est = Latency(load, r, g, spec.maxC)
    BY DEF EvaluateConfiguration
  <2>3. \A q \in Grid : Before(q, at)
    BY <1>0, SpecLimits DEF Grid, Before, Typed
  <2>4. /\ tested \in Fitting /\ tested \notin Meeting /\ Meeting = {}
        /\ \A q \in Fitting : ~Before(tested, q)
    BY <1>0, <1>2, <2>3, FittingInGrid DEF Tried
  <2>5. /\ spec.maxR \in Nat \ {0} /\ spec.maxG \in Nat \ {0} /\ spec.maxC \in Nat \ {0}
        /\ spec.maxM \in Nat /\ spec.minM \in Nat /\ spec.stepM \in Nat \ {0}
    BY <1>0, SpecLimits
  <2>6. /\ tested = <<r, g>> /\ r \in 1..spec.maxR /\ g \in 1..spec.maxG /\ g \in Nat \ {0}
        /\ MemoryNeed(load, g) <= spec.maxM
    BY <2>4, <2>5 DEF Fitting
  <2>7. ~Meets(config) BY <2>4 DEF Meeting
  <2>8. r = spec.maxR
    <3>1. <<spec.maxR, g>> \in Fitting BY <2>5, <2>6 DEF Fitting
    <3>2. ~Before(tested, <<spec.maxR, g>>) BY <2>4, <3>1
    <3> QED BY <2>5, <2>6, <3>2 DEF Before
  <2>9. MinCompute(load, g) \in Int BY <1>0, <2>6, MinComputeInt
  <2> HIDE DEF config
  <2>10. Typed'
    BY <1>0, <2>1, <2>2, <2>5, <2>6, LatencyNat DEF Typed
  <2>11. Estimated'
    <3>1. load.rate > 0 BY <1>0 DEF Tried
    <3>2. ~config.est.stable => config.est.e2e = 0 BY <1>0, <2>2, <2>5, <2>6, LatencyNat
    <3> QED BY <1>0, <2>1, <3>1, <3>2 DEF Estimated, Loads
  <2>12. Tried' /\ Shrinking' BY <2>1 DEF Tried, Shrinking
  <2>13. Enough'
    <3>1. spec.maxC >= Least(spec.maxC, MinCompute(load, g)) BY <2>5, <2>9 DEF Least
    <3>2. spec.maxM < Most(spec.minM, spec.maxM) + spec.stepM BY <2>5 DEF Most
    <3> QED BY <1>0, <2>1, <2>2, <2>5, <2>6, <3>1, <3>2 DEF Enough, MinCompute
  <2>14. First'
    <3>1. ~Meets(best)' BY <1>0, <2>1, <2>7 DEF Meets, EffectiveTarget
    <3>2. <<best'.r, best'.g>> = tested BY <2>1, <2>2, <2>6
    <3> QED BY <1>0, <2>1, <2>2, <2>4, <2>6, <2>8, <3>1, <3>2, SameSearch DEF First
  <2> QED BY <2>10, <2>11, <2>12, <2>13, <2>14 DEF IInv, Chosen
<1> QED BY <1>1, <1>2

(* The round ends.                                                           *)
LEMMA RoundEnds == IInv /\ (Applies \/ AppliesNothing) => IInv'
<1> SUFFICES ASSUME IInv, Applies \/ AppliesNothing PROVE IInv' OBVIOUS
<1>1. pc = "found" /\ pc' = "idle" /\ UNCHANGED <<spec, load, at, tested, best>>
  BY DEF Applies, AppliesNothing
<1>2. last' = None \/ last' \in Estimations
  <2>1. load.itlOff \in Int /\ load.ttftOff \in Int /\ best.est.itl \in Nat /\ best.est.ttft \in Nat
    BY <1>1 DEF IInv, Typed, Loads
  <2>2. last' \in {last, [itl |-> best.est.itl, ttft |-> best.est.ttft,
                          itlOff |-> load.itlOff, ttftOff |-> load.ttftOff]}
    BY DEF Applies, AppliesNothing, Estimation
  <2> QED BY <2>1, <2>2 DEF IInv, Typed, Estimations
<1>3. Typed' BY <1>1, <1>2 DEF IInv, Typed
<1> QED BY <1>1, <1>3 DEF IInv, Tried, Shrinking, Chosen, Searched, Estimated

(* The invariant is about these variables only.                              *)
LEMMA StutterKeeps == IInv /\ UNCHANGED vars => IInv'
<1> SUFFICES ASSUME IInv, UNCHANGED vars PROVE IInv' OBVIOUS
<1>0. UNCHANGED <<spec, last, load, pc, at, tested, best>> BY DEF vars
<1>1. Meets(best)' <=> Meets(best) BY <1>0 DEF Meets, EffectiveTarget
<1>2. Typed' /\ Estimated' /\ Shrinking'
  BY <1>0, <1>1 DEF IInv, Typed, Estimated, Shrinking
<1>3. Tried' BY <1>0, SameSearch DEF IInv, Tried
<1>4. Enough => Enough' BY <1>0 DEF Enough, MinCompute
<1>5. First => First' BY <1>0, <1>1, SameSearch DEF First
<1> QED BY <1>0, <1>2, <1>3, <1>4, <1>5 DEF IInv, Chosen, Searched

(* IInv is inductive.                                                        *)
LEMMA SearchInductive == IInv /\ [Next]_vars => IInv'
BY RoundStarts, SkipKeeps, TryKeeps, ShrinkKeeps, FallBackKeeps, RoundEnds, StutterKeeps
DEF Next

(* The inductive invariant holds in every reachable state.                   *)
LEMMA SearchInvariance == Spec => []IInv
BY InitSearch, SearchInductive, PTL DEF Spec

-----------------------------------------------------------------------------
(* What FindOptimalConfiguration returns has the memory and the compute that *)
(* its estimate asks for, as far as the limits allow, and passes the limits  *)
(* only by rounding the memory up to a step.                                 *)
THEOREM FoundIsEnough == Spec => []EnoughWithinLimits
<1>1. IInv => EnoughWithinLimits BY DEF IInv, Chosen, Enough, EnoughWithinLimits
<1> QED BY <1>1, SearchInvariance, PTL

(* FindOptimalConfiguration stops at the first pair of replicas and GPUs     *)
(* that meets the targets, and when there is none it falls back on the       *)
(* largest that fits in memory.                                              *)
THEOREM FoundIsFirst == Spec => []FirstThatMeets
<1>1. IInv => FirstThatMeets BY DEF IInv, Chosen, First, FirstThatMeets
<1> QED BY <1>1, SearchInvariance, PTL

-----------------------------------------------------------------------------
(* The rest of the types: what was tried and what was found.                 *)
Records ==
    /\ tested \in ((1..spec.maxR) \X (1..spec.maxG)) \cup {None}
    /\ best \in Configs \cup {None}
    /\ pc \in {"shrink", "found"} => best \in Configs
    /\ rounds \in 0..MaxRounds

(* A configuration that is evaluated is one, its wait included.              *)
LEMMA EvaluatedTyped ==
    ASSUME NEW w \in Loads, NEW r \in Nat \ {0}, NEW g \in Nat \ {0}, NEW c \in Nat \ {0},
           NEW m \in Nat
    PROVE  EvaluateConfiguration(w, r, g, c, m) \in Configs
BY LatencyNat DEF EvaluateConfiguration, Configs

LEMMA AlignedNat ==
    ASSUME spec \in Specs, NEW g, MemoryNeed(load, g) \in Nat
    PROVE  AlignedMemory(load, g) \in Nat
<1> DEFINE x == NotNegative(MemoryNeed(load, g) - spec.minM)
<1>1. spec.minM \in Nat /\ spec.stepM \in Nat \ {0} BY SpecLimits
<1>2. x \in Nat BY <1>1, NotNegative1
<1> HIDE DEF x
<1>3. CeilDiv(x, spec.stepM) \in Nat BY <1>1, <1>2, RoundedUp
<1>4. CeilDiv(x, spec.stepM) * spec.stepM \in Nat BY <1>1, <1>3, Products
<1>5. AlignedMemory(load, g) = spec.minM + CeilDiv(x, spec.stepM) * spec.stepM
  BY DEF AlignedMemory, x
<1> QED BY <1>1, <1>4, <1>5

(* Every step keeps them.                                                    *)
LEMMA RecordsKept == IInv /\ Records /\ [Next]_vars => Records'
<1> SUFFICES ASSUME IInv, Records, [Next]_vars PROVE Records' OBVIOUS
<1>0. Typed /\ spec \in Specs BY DEF IInv, Typed
<1>1. /\ spec.maxR \in Nat \ {0} /\ spec.maxG \in Nat \ {0} /\ spec.maxC \in Nat \ {0}
      /\ spec.stepC \in Nat \ {0} /\ spec.minC \in Nat \ {0} /\ spec.maxM \in Nat
  BY <1>0, SpecLimits
<1>2. CASE EvaluateAndScale
  <2>1. PICK m \in Samples, l \in {last, None} :
          /\ load' = Workload(m, l)
          /\ pc' = IF Workload(m, l).rate = 0 THEN "found" ELSE "try"
          /\ best' = IF Workload(m, l).rate = 0 THEN MinConfig ELSE None
    BY <1>2 DEF EvaluateAndScale
  <2>2. (pc' = "found" /\ best' = MinConfig) \/ (pc' = "try" /\ best' = None) BY <2>1
  <2>3. MinConfig \in Configs
    <3>1. /\ spec.minR \in Nat /\ spec.minG \in Nat \ {0} /\ spec.minC \in Nat \ {0}
          /\ spec.minM \in Nat
      BY <1>0, SearchAssumption
    <3> QED BY <3>1 DEF MinConfig, Configs
  <2>4. rounds' \in 0..MaxRounds /\ tested' = None
    BY <1>2, SearchAssumption DEF EvaluateAndScale, Records
  <2> QED BY <2>2, <2>3, <2>4 DEF Records
<1>3. CASE SkipsConfiguration BY <1>3 DEF SkipsConfiguration, Records
<1>4. CASE TriesConfiguration
  <2> DEFINE r == at[1]
             g == at[2]
             config == EvaluateConfiguration(load, r, g, spec.maxC, spec.maxM)
             aligned == EvaluateConfiguration(load, r, g, spec.maxC, AlignedMemory(load, g))
  <2>1. /\ pc = "try" /\ r <= spec.maxR /\ tested' = at /\ UNCHANGED <<spec, rounds>>
        /\ \/ best' \in {aligned, config} /\ pc' \in {"shrink", "found"}
           \/ UNCHANGED <<best, pc>>
    BY <1>4 DEF TriesConfiguration
  <2>2. /\ load \in Loads /\ at \in Grid /\ r \in Nat \ {0} /\ g \in Nat \ {0}
    BY <1>0, <1>1, <2>1 DEF Typed, Grid
  <2>3. MemoryNeed(load, g) \in Nat BY <2>2, MemoryNeedNat DEF Loads
  <2>4. AlignedMemory(load, g) \in Nat BY <1>0, <2>3, AlignedNat
  <2>5. config \in Configs BY <1>1, <2>2, EvaluatedTyped
  <2>6. aligned \in Configs BY <1>1, <2>2, <2>4, EvaluatedTyped
  <2> HIDE DEF config, aligned
  <2> QED BY <2>1, <2>2, <2>5, <2>6 DEF Records, Grid
<1>5. CASE ShrinksCompute
  <2> DEFINE c == best.c - spec.stepC
             smaller == EvaluateConfiguration(load, best.r, best.g, c, best.m)
  <2>1. /\ pc = "shrink" /\ UNCHANGED <<spec, tested, rounds>>
        /\ \/ c >= MinCompute(load, best.g) /\ best' = smaller
           \/ UNCHANGED best
    BY <1>5 DEF ShrinksCompute
  <2>2. /\ load \in Loads /\ best \in Configs /\ best.r \in Nat \ {0} /\ best.g \in Nat \ {0}
        /\ best.c \in Nat /\ best.m \in Nat
    <3>1. best.r \in 1..spec.maxR BY <2>1 DEF IInv, Chosen, Enough
    <3> QED BY <1>0, <1>1, <2>1, <3>1 DEF Records, Configs, Typed
  <2>3. MinCompute(load, best.g) \in Int /\ MinCompute(load, best.g) >= spec.minC
    BY <1>0, <2>2, MinComputeInt
  <2>4. c >= MinCompute(load, best.g) => smaller \in Configs
    <3>1. c >= MinCompute(load, best.g) => c \in Nat \ {0} BY <1>1, <2>2, <2>3
    <3> QED BY <2>2, <3>1, EvaluatedTyped
  <2> HIDE DEF smaller
  <2> QED BY <2>1, <2>2, <2>4 DEF Records
<1>6. CASE FallsBack
  <2>1. /\ pc = "try" /\ UNCHANGED <<spec, tested, rounds>>
        /\ \/ pc' = "idle" /\ UNCHANGED best
           \/ /\ tested # None
              /\ best' = EvaluateConfiguration(load, tested[1], tested[2], spec.maxC, spec.maxM)
    BY <1>6 DEF FallsBack
  <2>2. CASE pc' = "idle" /\ UNCHANGED best BY <2>1, <2>2 DEF Records
  <2>3. CASE /\ tested # None
             /\ best' = EvaluateConfiguration(load, tested[1], tested[2], spec.maxC, spec.maxM)
    <3>1. load \in Loads /\ tested[1] \in Nat \ {0} /\ tested[2] \in Nat \ {0}
      BY <1>0, <1>1, <2>1, <2>3 DEF Typed, Records
    <3>2. best' \in Configs BY <1>1, <2>3, <3>1, EvaluatedTyped
    <3> QED BY <2>1, <3>2 DEF Records
  <2> QED BY <2>1, <2>2, <2>3
<1>7. CASE Applies \/ AppliesNothing BY <1>7 DEF Applies, AppliesNothing, Records
<1>8. CASE UNCHANGED vars BY <1>8 DEF vars, Records
<1> QED BY <1>2, <1>3, <1>4, <1>5, <1>6, <1>7, <1>8 DEF Next

(* The estimates of the optimizer are numbers, and those of one request not  *)
(* negative, in every round and whatever offsets the earlier rounds left;    *)
(* nothing that the queue divides by is zero.  The limits are any with       *)
(* positive steps, also those of an autoscaler that scales to zero.          *)
THEOREM SearchTyped == Spec => []TypeOK
<1>1. Init => Records BY SearchAssumption DEF Init, Records
<1>2. IInv /\ Records => TypeOK BY DEF IInv, Typed, Records, TypeOK, Estimations, Loads
<1> QED BY <1>1, <1>2, RecordsKept, SearchInvariance, PTL DEF Spec

-----------------------------------------------------------------------------
(* A single replica that misses its targets misses them with less compute.   *)
LEMMA LessComputeMisses ==
    ASSUME spec \in Specs, NEW w \in Loads, NEW g \in Nat \ {0}, NEW m,
           NEW c \in Nat \ {0}, NEW d \in Nat \ {0}, c <= d,
           Meets(EvaluateConfiguration(w, 1, g, c, m))
    PROVE  Meets(EvaluateConfiguration(w, 1, g, d, m))
<1> DEFINE k == EvaluateConfiguration(w, 1, g, c, m)
           l == EvaluateConfiguration(w, 1, g, d, m)
<1>1. k.est = Latency(w, 1, g, c) /\ l.est = Latency(w, 1, g, d) BY DEF EvaluateConfiguration
<1> HIDE DEF k, l
<1>2. Meets(k) BY DEF k
<1>3. k.est.stable /\ \A t \in Targets : k.est[t] <= EffectiveTarget(t) BY <1>2 DEF Meets
<1>4. /\ l.est.stable /\ l.est.itl <= k.est.itl /\ l.est.ttft <= k.est.ttft
      /\ l.est.e2e <= k.est.e2e
  BY <1>1, <1>3, LessComputeIsSlower
<1>5. /\ l.est \in [stable : BOOLEAN, itl : Nat, ttft : Nat, e2e : Int]
      /\ k.est \in [stable : BOOLEAN, itl : Nat, ttft : Nat, e2e : Int]
  BY <1>1, LatencyNat
<1>6. ASSUME NEW t \in Targets PROVE l.est[t] <= EffectiveTarget(t)
  <2>1. EffectiveTarget(t) \in Int
    <3>1. spec.target \in [Targets -> Nat \cup {None}] /\ Defaults \in [Targets -> Nat]
      BY SearchAssumption
    <3> QED BY <3>1 DEF EffectiveTarget
  <2>2. k.est[t] <= EffectiveTarget(t) BY <1>3
  <2>3. l.est[t] \in Int /\ k.est[t] \in Int /\ l.est[t] <= k.est[t]
    BY <1>4, <1>5 DEF Targets
  <2> QED BY <2>1, <2>2, <2>3
<1>7. Meets(l) BY <1>4, <1>6 DEF Meets
<1> QED BY <1>7 DEF l

(* The shrinking loop stops at a compute that misses, or at the least one.   *)
LEMMA ShrunkToTheLeast ==
    ASSUME IInv, ShrinksCompute, pc' = "found"
    PROVE  SmallestCompute'
<1> DEFINE d == best.c - spec.stepC
           smaller == EvaluateConfiguration(load, best.r, best.g, d, best.m)
<1>1. /\ UNCHANGED <<spec, load, best>> /\ pc = "shrink"
      /\ ~(d >= MinCompute(load, best.g) /\ Meets(smaller))
  BY DEF ShrinksCompute
<1>2. /\ Typed /\ spec \in Specs /\ load \in Loads /\ Enough
  BY <1>1 DEF IInv, Typed, Chosen
<1>3. /\ best.g \in Nat \ {0} /\ best.c \in Nat /\ spec.stepC \in Nat \ {0}
      /\ spec.minC \in Nat \ {0} /\ spec.maxG \in Nat
  BY <1>2, SpecLimits DEF Enough
<1> DEFINE low == MinCompute(load, best.g)
<1>4. low \in Int /\ low >= spec.minC BY <1>2, <1>3, MinComputeInt
<1> HIDE DEF low
<1> SUFFICES ASSUME best.r = 1, NEW c \in low..(best.c - 1), (best.c - c) % spec.stepC = 0,
                    Meets(EvaluateConfiguration(load, 1, best.g, c, best.m))
             PROVE  FALSE
  <2>1. SmallestCompute' <=>
          ((Searched' /\ Meets(best)' /\ best'.r = 1) =>
             \A c \in (MinCompute(load, best.g)..(best.c - 1))' :
               ((best.c - c) % spec.stepC = 0)' =>
                 ~(Meets(EvaluateConfiguration(load, 1, best.g, c, best.m)))')
    BY DEF SmallestCompute
  <2>2. (MinCompute(load, best.g)..(best.c - 1))' = low..(best.c - 1)
    BY <1>1 DEF low, MinCompute
  <2>3. \A c : Meets(EvaluateConfiguration(load, 1, best.g, c, best.m))'
                 <=> Meets(EvaluateConfiguration(load, 1, best.g, c, best.m))
    BY <1>1 DEF Meets, EffectiveTarget, EvaluateConfiguration
  <2> QED BY <1>1, <2>1, <2>2, <2>3
<1>5. c \in Nat \ {0} /\ c < best.c
  <2>1. c \in Int /\ low <= c /\ c <= best.c - 1 BY <1>3, <1>4
  <2>2. spec.minC \in Int /\ spec.minC > 0 BY <1>3
  <2> QED BY <1>3, <1>4, <2>1, <2>2
<1>6. c <= d
  <2> DEFINE n == best.c - c
             s == spec.stepC
  <2>1. n \in Nat \ {0} /\ s \in Nat \ {0} /\ n % s = 0 BY <1>3, <1>5
  <2> HIDE DEF n, s
  <2>2. s <= n BY <2>1
  <2> QED BY <1>3, <1>5, <2>2 DEF n, s
<1>7. d \in Nat \ {0} /\ d >= low BY <1>3, <1>4, <1>5, <1>6
<1>8. ~Meets(EvaluateConfiguration(load, 1, best.g, d, best.m)) BY <1>1, <1>7 DEF low
<1> HIDE DEF d
<1> QED BY <1>2, <1>3, <1>5, <1>6, <1>7, <1>8, LessComputeMisses

(* For a single replica the shrinking loop of FindOptimalConfiguration finds *)
(* the least compute of its grid that meets the targets: stopping at the     *)
(* first compute that misses loses nothing, since an estimate never gets     *)
(* better with less compute.                                                 *)
THEOREM FoundIsSmallest == Spec => []SmallestCompute
<1>1. Init => SmallestCompute BY DEF Init, SmallestCompute, Searched
<1>2. ASSUME IInv, SmallestCompute, [Next]_vars PROVE SmallestCompute'
  <2>1. CASE EvaluateAndScale
    <3>1. PICK m \in Samples, l \in {last, None} :
            load' = Workload(m, l) /\ pc' = IF Workload(m, l).rate = 0 THEN "found" ELSE "try"
      BY <2>1 DEF EvaluateAndScale
    <3>2. pc' = "found" => load'.rate = 0 BY <3>1
    <3> QED BY <3>2 DEF SmallestCompute, Searched
  <2>2. CASE SkipsConfiguration
    <3>1. pc' = "try" BY <2>2 DEF SkipsConfiguration
    <3> QED BY <3>1 DEF SmallestCompute, Searched
  <2>3. CASE TriesConfiguration
    <3>1. pc' # "found" BY <2>3, VerdictWithoutMemory DEF TriesConfiguration
    <3> QED BY <3>1 DEF SmallestCompute, Searched
  <2>4. CASE ShrinksCompute
    <3>1. pc' # "found" => SmallestCompute' BY DEF SmallestCompute, Searched
    <3> QED BY <1>2, <2>4, <3>1, ShrunkToTheLeast
  <2>5. CASE FallsBack
    <3>1. pc' = "found" => ~Meets(best)'
      <4> SUFFICES ASSUME pc' = "found" PROVE ~Meets(best)' OBVIOUS
      <4>1. /\ UNCHANGED <<spec, load>> /\ tested # None /\ pc = "try"
            /\ best' = EvaluateConfiguration(load, tested[1], tested[2], spec.maxC, spec.maxM)
        BY <2>5 DEF FallsBack
      <4>2. tested \in Fitting /\ tested \notin Meeting BY <1>2, <4>1 DEF IInv, Tried
      <4>3. ~Meets(EvaluateConfiguration(load, tested[1], tested[2], spec.maxC, spec.maxM))
        BY <4>2 DEF Meeting
      <4> QED BY <4>1, <4>3 DEF Meets, EffectiveTarget
    <3> QED BY <3>1 DEF SmallestCompute, Searched
  <2>6. CASE Applies \/ AppliesNothing
    <3>1. pc' = "idle" BY <2>6 DEF Applies, AppliesNothing
    <3> QED BY <3>1 DEF SmallestCompute, Searched
  <2>7. CASE UNCHANGED vars
    <3>1. UNCHANGED <<spec, load, pc, best>> BY <2>7 DEF vars
    <3>2. \A x : Meets(x)' <=> Meets(x) BY <3>1, SameSearch
    <3> QED BY <1>2, <3>1, <3>2
        DEF SmallestCompute, Searched, MinCompute, Meets, EffectiveTarget, EvaluateConfiguration
  <2> QED BY <1>2, <2>1, <2>2, <2>3, <2>4, <2>5, <2>6, <2>7 DEF Next
<1> QED BY <1>1, <1>2, SearchInvariance, PTL DEF Spec

(* updateScalingStatus records no estimate of a round without traffic or of  *)
(* a load that no configuration could carry.                                 *)
THEOREM RecordedIsEstimated == Spec => OnlyEstimatesRecorded
<1>1. ASSUME IInv, [Next]_vars, last' # last
      PROVE  load.rate > 0 /\ best.est.stable
  <2>1. Applies
    BY <1>1
    DEF Next, vars, EvaluateAndScale, SkipsConfiguration, TriesConfiguration, ShrinksCompute,
        FallsBack, AppliesNothing
  <2>2. ~(best.est.e2e <= 0) BY <1>1, <2>1 DEF Applies, Estimation
  <2>3. best.est.e2e # 0 BY <2>2
  <2>4. load.rate \in Nat BY <1>1, <2>1 DEF IInv, Typed, Applies, Loads
  <2> QED BY <1>1, <2>1, <2>3, <2>4 DEF IInv, Estimated, Applies
<1>2. IInv /\ [Next]_vars => [last' # last => load.rate > 0 /\ best.est.stable]_vars
  BY <1>1
<1> QED BY <1>2, SearchInvariance, PTL DEF Spec, OnlyEstimatesRecorded

-----------------------------------------------------------------------------
(* What was found carries the estimate of the load it was found for.         *)
EstimateKept ==
    pc = "shrink" \/ Searched => best = EvaluateConfiguration(load, best.r, best.g, best.c, best.m)

LEMMA EstimateKeptStep == IInv /\ EstimateKept /\ [Next]_vars => EstimateKept'
<1> SUFFICES ASSUME IInv, EstimateKept, [Next]_vars PROVE EstimateKept' OBVIOUS
<1>1. ASSUME NEW w, NEW r, NEW g, NEW c, NEW m
      PROVE  LET x == EvaluateConfiguration(w, r, g, c, m)
             IN  x = EvaluateConfiguration(w, x.r, x.g, x.c, x.m)
  BY DEF EvaluateConfiguration
<1>2. CASE EvaluateAndScale
  <2>1. PICK m \in Samples, l \in {last, None} :
          load' = Workload(m, l) /\ pc' = IF Workload(m, l).rate = 0 THEN "found" ELSE "try"
    BY <1>2 DEF EvaluateAndScale
  <2>2. (pc' = "found" /\ load'.rate = 0) \/ pc' = "try" BY <2>1
  <2> QED BY <2>2 DEF EstimateKept, Searched
<1>3. CASE SkipsConfiguration
  <2>1. pc' = "try" BY <1>3 DEF SkipsConfiguration
  <2> QED BY <2>1 DEF EstimateKept, Searched
<1>4. CASE TriesConfiguration
  <2> DEFINE config == EvaluateConfiguration(load, at[1], at[2], spec.maxC, spec.maxM)
             aligned == EvaluateConfiguration(load, at[1], at[2], spec.maxC,
                                              AlignedMemory(load, at[2]))
  <2>1. /\ pc = "try" /\ UNCHANGED load
        /\ best' \in {config, aligned} \/ UNCHANGED pc
    BY <1>4 DEF TriesConfiguration
  <2>2. CASE UNCHANGED pc BY <2>1, <2>2 DEF EstimateKept, Searched
  <2>3. CASE best' \in {config, aligned}
    <3>1. best' = EvaluateConfiguration(load, best'.r, best'.g, best'.c, best'.m)
      BY <1>1, <2>3
    <3> QED BY <2>1, <3>1 DEF EstimateKept
  <2> QED BY <2>1, <2>2, <2>3
<1>5. CASE ShrinksCompute
  <2> DEFINE smaller == EvaluateConfiguration(load, best.r, best.g, best.c - spec.stepC, best.m)
  <2>1. pc = "shrink" /\ UNCHANGED load /\ (best' = smaller \/ UNCHANGED best)
    BY <1>5 DEF ShrinksCompute
  <2>2. CASE UNCHANGED best BY <2>1, <2>2 DEF EstimateKept
  <2>3. CASE best' = smaller
    <3>1. best' = EvaluateConfiguration(load, best'.r, best'.g, best'.c, best'.m)
      BY <1>1, <2>3
    <3> QED BY <2>1, <3>1 DEF EstimateKept
  <2> QED BY <2>1, <2>2, <2>3
<1>6. CASE FallsBack
  <2> DEFINE config == EvaluateConfiguration(load, tested[1], tested[2], spec.maxC, spec.maxM)
  <2>1. UNCHANGED load /\ (pc' = "idle" \/ best' = config) BY <1>6 DEF FallsBack
  <2>2. CASE pc' = "idle" BY <2>2 DEF EstimateKept, Searched
  <2>3. CASE best' = config
    <3>1. best' = EvaluateConfiguration(load, best'.r, best'.g, best'.c, best'.m)
      BY <1>1, <2>3
    <3> QED BY <2>1, <3>1 DEF EstimateKept
  <2> QED BY <2>1, <2>2, <2>3
<1>7. CASE Applies \/ AppliesNothing
  <2>1. pc' = "idle" BY <1>7 DEF Applies, AppliesNothing
  <2> QED BY <2>1 DEF EstimateKept, Searched
<1>8. CASE UNCHANGED vars BY <1>8 DEF vars, EstimateKept, Searched
<1> QED BY <1>2, <1>3, <1>4, <1>5, <1>6, <1>7, <1>8 DEF Next

(* Where the wait adds to the service and where it takes away from it: that  *)
(* depends on whether the load would fit a single replica, whatever the      *)
(* number of replicas.                                                       *)
WaitSign ==
    Searched /\ best.est.stable =>
      LET service == best.est.ttft + best.est.itl * load.out
      IN  IF Asked(load.rate, service) <= OneServes THEN best.est.e2e >= service
          ELSE best.est.e2e <= service

(* AddQueuingResults divides by what is left of one replica: the end-to-end  *)
(* latency of what FindOptimalConfiguration returns is at least the time of  *)
(* service when one replica could carry the load, and at most that when      *)
(* more replicas are needed.  WaitAddsToService fails there, only there.     *)
THEOREM WaitAddsBelowOneReplica == Spec => []WaitSign
<1>1. Init => EstimateKept BY DEF Init, EstimateKept, Searched
<1>2. ASSUME IInv, EstimateKept PROVE WaitSign
  <2> SUFFICES ASSUME Searched, best.est.stable PROVE WaitSign BY DEF WaitSign
  <2> DEFINE r == best.r
             g == best.g
             c == best.c
             s == ServiceTime(load, g, c)
  <2>1. pc = "found" /\ load \in Loads /\ spec \in Specs /\ Enough
    BY <1>2 DEF IInv, Typed, Chosen, Searched
  <2>2. r \in Nat \ {0} /\ g \in Nat \ {0} /\ c \in Nat \ {0} BY <2>1, SpecLimits DEF Enough
  <2>3. best.est = Latency(load, r, g, c)
    BY <1>2, <2>1 DEF EstimateKept, EvaluateConfiguration
  <2>4. load.rate \in Nat BY <2>1 DEF Loads
  <2>5. s \in Nat BY <2>1, <2>2, PartsAntitone
  <2> DEFINE asked == Asked(load.rate, s)
             wait == QueueWait(load.rate, r)[s]
  <2>6. asked \in Nat /\ r * OneServes \in Nat
    BY <2>2, <2>4, <2>5, OneServesSome, Products DEF Asked
  <2>7. ~(asked >= r * OneServes)
    <3>1. Latency(load, r, g, c).stable <=> ~(asked >= r * OneServes) BY LatencyParts, Zenon
    <3>2. Latency(load, r, g, c).stable BY <2>3, Zenon
    <3> QED BY <3>1, <3>2, Zenon
  <2>8. /\ best.est.itl = TokenTime(load, g, c) /\ best.est.ttft = PrefillTime(load, g, c)
        /\ best.est.e2e = wait + s
    BY <2>3, <2>7, LatencyParts
  <2>9. best.est.ttft + best.est.itl * load.out = s BY <2>8 DEF ServiceTime
  <2>10. /\ wait \in Int
         /\ asked <= OneServes => wait >= 0
         /\ asked > OneServes => wait <= 0
    <3>1. asked < r * OneServes BY <2>6, <2>7
    <3> QED BY <2>2, <2>4, <2>5, <3>1, QueueWaitInt
  <2> HIDE DEF wait, asked, s
  <2>11. IF asked <= OneServes THEN best.est.e2e >= s ELSE best.est.e2e <= s
    BY <2>5, <2>6, <2>8, <2>10, OneServesSome
  <2> QED BY <2>9, <2>11 DEF WaitSign, asked
<1> QED BY <1>1, <1>2, EstimateKeptStep, SearchInvariance, PTL DEF Spec

-----------------------------------------------------------------------------
(* The steps of an evaluation in their order, and within a phase what every  *)
(* step uses up: pairs of replicas and GPUs up to the last, compute down to  *)
(* one percent.                                                              *)
Phase == [p \in {"try", "shrink", "found"} |->
            CASE p = "try" -> {"try", "shrink", "found", "idle"}
              [] p = "shrink" -> {"shrink", "found"}
              [] p = "found" -> {"idle"}]

StepsForward ==
    [][pc # "idle" =>
        /\ pc' \in Phase[pc] /\ UNCHANGED <<spec, load>>
        /\ pc = "try" /\ pc' = "try" =>
            Before(at, at') /\ at' \in (1..(spec.maxR + 1)) \X (1..spec.maxG)
        /\ pc = "shrink" /\ pc' = "shrink" => best'.c \in 1..(best.c - 1)]_vars

(* FindOptimalConfiguration never goes round in circles: every step of an    *)
(* evaluation gets further in a finite order, so that with positive steps of *)
(* compute and memory it comes to an end under any other limits, load and    *)
(* model, as long as it takes steps at all.                                  *)
THEOREM SearchStepsForward == Spec => StepsForward
<1>1. ASSUME IInv, Next, pc # "idle"
      PROVE  /\ pc' \in Phase[pc] /\ UNCHANGED <<spec, load>>
             /\ pc = "try" /\ pc' = "try" =>
                  Before(at, at') /\ at' \in (1..(spec.maxR + 1)) \X (1..spec.maxG)
             /\ pc = "shrink" /\ pc' = "shrink" => best'.c \in 1..(best.c - 1)
  <2>0. Typed /\ IInv' BY <1>1, SearchInductive DEF IInv
  <2>1. CASE SkipsConfiguration
    BY <2>0, <2>1, NextInOrder DEF SkipsConfiguration, Phase
  <2>2. CASE TriesConfiguration
    <3>1. pc = "try" /\ pc' \in {"try", "shrink", "found"} /\ UNCHANGED <<spec, load>>
      BY <2>2 DEF TriesConfiguration
    <3>2. at[1] <= spec.maxR /\ (pc' = "try" => at' = NextTry(at[1], at[2]))
      BY <2>2 DEF TriesConfiguration
    <3> QED BY <2>0, <3>1, <3>2, NextInOrder DEF Phase
  <2>3. CASE ShrinksCompute
    <3>1. pc = "shrink" /\ pc' \in {"shrink", "found"} /\ UNCHANGED <<spec, load>>
      BY <2>3 DEF ShrinksCompute
    <3>2. pc' = "shrink" => best'.c = best.c - spec.stepC
      BY <2>3 DEF ShrinksCompute, EvaluateConfiguration
    <3>3. best.c \in Nat BY <1>1, <3>1 DEF IInv, Chosen, Enough
    <3>4. pc' = "shrink" => best'.c \in Nat \ {0} BY <2>0, <3>1 DEF IInv, Chosen, Enough
    <3>5. spec.stepC \in Nat \ {0} BY <2>0, SpecLimits DEF Typed
    <3> QED BY <3>1, <3>2, <3>3, <3>4, <3>5 DEF Phase
  <2>4. CASE FallsBack BY <2>4 DEF FallsBack, Phase
  <2>5. CASE Applies \/ AppliesNothing BY <2>5 DEF Applies, AppliesNothing, Phase
  <2>6. ~EvaluateAndScale BY <1>1 DEF EvaluateAndScale
  <2> QED BY <1>1, <2>1, <2>2, <2>3, <2>4, <2>5, <2>6 DEF Next
<1>2. IInv /\ [Next]_vars =>
        [pc # "idle" =>
          /\ pc' \in Phase[pc] /\ UNCHANGED <<spec, load>>
          /\ pc = "try" /\ pc' = "try" =>
               Before(at, at') /\ at' \in (1..(spec.maxR + 1)) \X (1..spec.maxG)
          /\ pc = "shrink" /\ pc' = "shrink" => best'.c \in 1..(best.c - 1)]_vars
  BY <1>1
<1> QED BY <1>2, SearchInvariance, PTL DEF Spec, StepsForward

=============================================================================
