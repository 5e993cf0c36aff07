------------------------- MODULE ScalingActionProofs -------------------------
(***************************************************************************)
(* TLAPS proofs about the operators of ScalingAction: what a capped step   *)
(* does to the number of GPUs, and what a decision looks like.             *)
(***************************************************************************)
EXTENDS ScalingAction, TLAPS

(* The replicas of g GPUs that n GPUs are rounded up to.                     *)
Ceil(n, g) == IF n % g > 0 THEN n \div g + 1 ELSE n \div g

(* Multiplication by a natural number is monotonic.                          *)
LEMMA ProductMonotonic ==
    ASSUME NEW x \in Int, NEW y \in Int, NEW g \in Nat, x <= y
    PROVE  x * g <= y * g
<1>1. PICK d \in Nat : y = x + d
  <2>1. y - x \in Nat /\ y = x + (y - x) OBVIOUS
  <2> QED BY <2>1
<1>2. y * g = x * g + d * g BY <1>1
<1>3. d * g >= 0 OBVIOUS
<1>4. x * g \in Int /\ d * g \in Int OBVIOUS
<1> QED BY <1>2, <1>3, <1>4

(* Rounding up adds less than one replica.                                   *)
LEMMA CeilBounds ==
    ASSUME NEW n \in Nat, NEW g \in Nat \ {0}
    PROVE  /\ Ceil(n, g) \in Nat
           /\ n <= Ceil(n, g) * g
           /\ Ceil(n, g) * g < n + g
<1> DEFINE q == n \div g
           s == n % g
<1>1. q \in Nat /\ s \in 0..(g - 1) /\ n = q * g + s OBVIOUS
<1>2. (q + 1) * g = q * g + g BY <1>1
<1>3. q * g \in Nat BY <1>1
<1>4. CASE s > 0
  <2>1. Ceil(n, g) = q + 1 BY <1>4 DEF Ceil
  <2> HIDE DEF q, s
  <2> QED BY <1>1, <1>2, <1>3, <1>4, <2>1
<1>5. CASE ~(s > 0)
  <2>1. Ceil(n, g) = q BY <1>5 DEF Ceil
  <2> HIDE DEF q, s
  <2> QED BY <1>1, <1>3, <1>5, <2>1
<1> QED BY <1>4, <1>5

(* Rounding up never needs more replicas than r if r of them are enough.     *)
LEMMA CeilLeast ==
    ASSUME NEW n \in Nat, NEW g \in Nat \ {0}, NEW r \in Nat, n <= r * g
    PROVE  Ceil(n, g) * g <= r * g
<1>1. PICK q \in Nat : q = Ceil(n, g) /\ q * g < n + g BY CeilBounds
<1>2. CASE q <= r BY <1>1, <1>2, ProductMonotonic
<1>3. CASE q > r
  <2>1. (r + 1) * g <= q * g BY <1>1, <1>3, ProductMonotonic
  <2>2. (r + 1) * g = r * g + g OBVIOUS
  <2>3. r * g \in Nat /\ q * g \in Nat BY <1>1
  <2> QED BY <1>1, <2>1, <2>2, <2>3
<1> QED BY <1>2, <1>3

(* A configuration in force, as far as the limiter looks at it.              *)
Shape == [r : Nat, g : Nat \ {0}, c : Nat, m : Nat]

(* What applySingleTimeScalingLimit does to the number of GPUs: a step that  *)
(* it caps ends between the current and the desired number on the desired    *)
(* side, misses the limit by less than one replica, and is nearer to the     *)
(* desired number unless a scale-down is limited to less than a replica.     *)
LEMMA LimiterStep ==
    ASSUME NEW x \in Shape, NEW y \in Shape, NEW limit \in Nat,
           NEW z, z = ApplySingleTimeScalingLimit(limit, x, y)
    PROVE  /\ z \in Shape
           /\ TotalGPUs(y) > TotalGPUs(x) => TotalGPUs(z) <= TotalGPUs(y)
           /\ TotalGPUs(y) < TotalGPUs(x) => TotalGPUs(z) >= TotalGPUs(y)
           /\ limit > 0 => Diff(TotalGPUs(z), TotalGPUs(x)) < limit + y.g
           /\ TotalGPUs(y) # TotalGPUs(x)
                /\ (TotalGPUs(y) > TotalGPUs(x) \/ limit = 0 \/ limit >= y.g) =>
              Diff(TotalGPUs(z), TotalGPUs(y)) < Diff(TotalGPUs(x), TotalGPUs(y))
<1> DEFINE n == LimitedTotalGPUs(limit, x, y)
           now == TotalGPUs(x)
           asked == TotalGPUs(y)
<1>1. /\ x.r \in Nat /\ x.g \in Nat \ {0} /\ y.r \in Nat /\ y.g \in Nat \ {0}
      /\ now \in Nat /\ asked \in Nat /\ asked = y.r * y.g
  BY DEF Shape, TotalGPUs
<1>2. CASE limit = 0 \/ Diff(asked, now) <= limit
  <2>1. z = y BY <1>1, <1>2 DEF ApplySingleTimeScalingLimit
  <2>2. limit > 0 => Diff(asked, now) < limit + y.g
    <3> HIDE DEF now, asked
    <3> QED BY <1>1, <1>2 DEF Diff
  <2> HIDE DEF now, asked
  <2>3. asked <= asked /\ (asked # now => Diff(asked, asked) < Diff(now, asked))
    BY <1>1 DEF Diff
  <2> QED BY <2>1, <2>2, <2>3, <1>1 DEF now, asked
<1>3. CASE limit > 0 /\ Diff(asked, now) > limit
  <2>1. z = IF n >= y.g THEN [y EXCEPT !.r = Ceil(n, y.g)] ELSE [y EXCEPT !.r = 1, !.g = n]
    BY <1>1, <1>3 DEF ApplySingleTimeScalingLimit, Ceil, Diff
  <2>2. /\ n = IF asked > now THEN now + limit
               ELSE IF now - limit < 1 THEN 1 ELSE now - limit
    BY DEF LimitedTotalGPUs
  <2> HIDE DEF n, now, asked
  <2>3. /\ n \in Nat \ {0}
        /\ asked > now => n = now + limit /\ n <= asked
        /\ asked < now => n = now - limit /\ n >= asked
        /\ asked # now
    BY <1>1, <1>3, <2>2 DEF Diff
  <2>4. CASE n >= y.g
    <3>1. z = [y EXCEPT !.r = Ceil(n, y.g)] BY <2>1, <2>4
    <3>2. Ceil(n, y.g) \in Nat /\ n <= Ceil(n, y.g) * y.g /\ Ceil(n, y.g) * y.g < n + y.g
      BY <1>1, <2>3, CeilBounds
    <3>3. n <= asked => Ceil(n, y.g) * y.g <= asked BY <1>1, <2>3, CeilLeast
    <3>4. z \in Shape /\ TotalGPUs(z) = Ceil(n, y.g) * y.g
      BY <3>1, <3>2 DEF Shape, TotalGPUs
    <3>5. PICK p \in Nat : p = TotalGPUs(z) /\ n <= p /\ p < n + y.g /\ (n <= asked => p <= asked)
      BY <3>2, <3>3, <3>4, <1>1
    <3>6. /\ asked > now => p <= asked
          /\ asked < now => p >= asked
          /\ Diff(p, now) < limit + y.g
          /\ asked > now \/ limit >= y.g => Diff(p, asked) < Diff(now, asked)
      BY <1>1, <1>3, <2>3, <3>5 DEF Diff
    <3> QED BY <1>3, <3>4, <3>5, <3>6 DEF now, asked
  <2>5. CASE n < y.g
    <3>1. z = [y EXCEPT !.r = 1, !.g = n] BY <1>1, <2>1, <2>3, <2>5
    <3>2. PICK p \in Nat : p = 1 /\ z = [y EXCEPT !.r = p, !.g = n] BY <3>1
    <3>3. z \in Shape /\ z.r = p /\ z.g = n BY <2>3, <3>2 DEF Shape
    <3>4. TotalGPUs(z) = 1 * n BY <3>2, <3>3 DEF TotalGPUs
    <3>5. z \in Shape /\ TotalGPUs(z) = n BY <2>3, <3>3, <3>4
    <3>6. /\ asked > now => n <= asked
          /\ asked < now => n >= asked
          /\ Diff(n, now) < limit + y.g
          /\ Diff(n, asked) < Diff(now, asked)
      BY <1>1, <1>3, <2>3 DEF Diff
    <3> QED BY <3>5, <3>6 DEF now, asked
  <2> QED BY <1>1, <2>3, <2>4, <2>5
<1> QED BY <1>1, <1>2, <1>3 DEF Diff

(* What determineScalingAction returns: one of three actions, and a desired  *)
(* configuration with whole replicas of at least one GPU.                    *)
LEMMA DecisionShape ==
    ASSUME NEW b, b.upLimit \in Nat, b.downLimit \in Nat,
           NEW x \in Shape, NEW y \in Shape, NEW rate,
           NEW z, z = DetermineScalingAction(b, x, y, rate)
    PROVE  /\ z.action \in {"None", "ScaleUp", "ScaleDown"}
           /\ z.desired \in Shape
<1> DEFINE dec == CompareTotals(x, y)
           limit == IF dec.action = "ScaleUp" THEN b.upLimit ELSE b.downLimit
           lim == ApplySingleTimeScalingLimit(limit, x, y)
<1>1. limit \in Nat OBVIOUS
<1>2. lim \in Shape BY <1>1, LimiterStep
<1>3. dec = [action |-> dec.action, replicaChange |-> dec.replicaChange,
             resourceChange |-> dec.resourceChange, desired |-> y]
  BY DEF CompareTotals
<1>4. dec.action \in {"None", "ScaleUp", "ScaleDown"} BY DEF CompareTotals
<1>5. PICK act, rep, res :
        /\ dec = [action |-> act, replicaChange |-> rep, resourceChange |-> res,
                  desired |-> y]
        /\ act \in {"None", "ScaleUp", "ScaleDown"}
  <2> HIDE DEF dec
  <2> QED BY <1>3, <1>4
<1>6. \/ z = [dec EXCEPT !.action = "None", !.replicaChange = FALSE,
                         !.resourceChange = FALSE]
      \/ z = dec
      \/ z = [dec EXCEPT !.desired = lim]
  BY DEF DetermineScalingAction
<1> HIDE DEF dec, lim
<1>7. CASE z = [dec EXCEPT !.action = "None", !.replicaChange = FALSE,
                           !.resourceChange = FALSE]
  BY <1>5, <1>7
<1>8. CASE z = dec BY <1>5, <1>8
<1>9. CASE z = [dec EXCEPT !.desired = lim] BY <1>2, <1>5, <1>9
<1> QED BY <1>6, <1>7, <1>8, <1>9

(* The requests of a template that is made from a configuration.             *)
LEMMA StoredComputeNat == \A c \in Nat : StoredCompute(c) \in Nat
BY DEF StoredCompute, Hundred
=============================================================================
