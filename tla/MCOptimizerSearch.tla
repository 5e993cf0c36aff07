------------------------- MODULE MCOptimizerSearch -------------------------
(* Instances of OptimizerSearch for TLC.  A tick is 100 ms and a block of    *)
(* tokens is 20 tokens, so the default targets of 5 s, 1 s and 50 ms per     *)
(* token are 50, 10 and 10 ticks.                                            *)
EXTENDS OptimizerSearch

SomeHint == [batch |-> 2, maxBatched |-> 6, hit |-> 50, speedup |-> 50]
SomeArch == [threads |-> 10, weights |-> 16, kv |-> 1, act |-> 1, attention |-> 2,
             long |-> 3, prefill |-> 3, weightRead |-> 3, kvRead |-> 1,
             kernel |-> 1, sync |-> 1]
SomeGPU == [speedUp |-> 50, contention |-> 70]
DefaultTargets == [e2e |-> 50, ttft |-> 10, itl |-> 10]

(* The second one has a memory step that does not divide the range; the last *)
(* one scales to zero.                                                       *)
NoTargets == [t \in Targets |-> None]
SomeSpecs ==
    {[minR |-> 1, maxR |-> 3, minG |-> 1, maxG |-> 2, minC |-> 20, maxC |-> 100,
      stepC |-> 20, minM |-> 8, maxM |-> 40, stepM |-> 4,
      target |-> [e2e |-> 14, ttft |-> None, itl |-> None]],
     [minR |-> 2, maxR |-> 3, minG |-> 1, maxG |-> 3, minC |-> 10, maxC |-> 90,
      stepC |-> 20, minM |-> 8, maxM |-> 30, stepM |-> 9, target |-> NoTargets],
     [minR |-> 0, maxR |-> 2, minG |-> 2, maxG |-> 2, minC |-> 10, maxC |-> 50,
      stepC |-> 10, minM |-> 8, maxM |-> 24, stepM |-> 8,
      target |-> [e2e |-> None, ttft |-> 8, itl |-> 3]]}

(* Light and heavy traffic, short and long prompts, with the latencies       *)
(* measured or not; no tokens and no traffic when they could not be read.    *)
SomeSamples ==
    [rate : {1, 2, 4}, prompt : {1, 3}, out : {1, 3}, prefill : {0}, mem : {0},
     itl : {5}, ttft : {9}]
    \cup [rate : {1, 3}, prompt : {4}, out : {1}, prefill : {0}, mem : {0},
          itl : {0, 2}, ttft : {0, 6}]
    \cup [rate : {1}, prompt : {3, 4}, out : {1}, prefill : {0, 2}, mem : {60},
          itl : {2}, ttft : {6}]
    \cup [rate : {0, 3}, prompt : {0}, out : {0}, prefill : {0}, mem : {0},
          itl : {0}, ttft : {0}]
=============================================================================
