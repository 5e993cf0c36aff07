------------------------- MODULE LatencyModelProofs -------------------------
(***************************************************************************)
(* TLAPS proofs about LatencyModel, for any model, GPU and workload: that  *)
(* the estimates are numbers, which for the wait takes the equation of the *)
(* recursion that sums up Erlang's terms, and that more compute never      *)
(* makes a single replica slower.                                          *)
(***************************************************************************)
EXTENDS LatencyModel, WellFoundedInduction, TLAPS

Loads == [rate : Nat, prompt : Nat, out : Nat, prefill : Nat, mem : Nat,
          itlOff : Int, ttftOff : Int]

-----------------------------------------------------------------------------
(* Arithmetic.                                                               *)
LEMMA Products == \A x, y \in Nat : x * y \in Nat
OBVIOUS

(* Division, products and comparisons stay within the integers.              *)
LEMMA Quotients == \A x \in Nat, y \in Nat \ {0} : x \div y \in Nat
OBVIOUS

LEMMA ProductMonotonic == \A x, y, z \in Nat : x <= y => z * x <= z * y
OBVIOUS

LEMMA QuotientAtLeast ==
    ASSUME NEW x \in Nat, NEW y \in Nat \ {0}, NEW q \in Nat, q * y <= x
    PROVE  x \div y >= q
<1>1. x \div y \in Nat /\ x < (x \div y + 1) * y OBVIOUS
<1>2. SUFFICES ASSUME x \div y + 1 <= q PROVE FALSE BY <1>1
<1>3. y * (x \div y + 1) <= y * q BY <1>1, <1>2, ProductMonotonic
<1> QED BY <1>1, <1>3

LEMMA QuotientAtMost ==
    ASSUME NEW x \in Nat, NEW y \in Nat \ {0}, NEW q \in Nat, x < (q + 1) * y
    PROVE  x \div y <= q
<1>1. x \div y \in Nat /\ (x \div y) * y <= x OBVIOUS
<1>2. SUFFICES ASSUME q + 1 <= x \div y PROVE FALSE BY <1>1
<1>3. y * (q + 1) <= y * (x \div y) BY <1>1, <1>2, ProductMonotonic
<1> QED BY <1>1, <1>3

LEMMA QuotientMonotonic ==
    ASSUME NEW x \in Nat, NEW z \in Nat, NEW y \in Nat \ {0}, x <= z
    PROVE  x \div y <= z \div y
<1>1. x \div y \in Nat /\ (x \div y) * y <= x OBVIOUS
<1> QED BY <1>1, QuotientAtLeast

(* A larger divisor gives no larger quotient.                                *)
LEMMA QuotientAntitone ==
    ASSUME NEW x \in Nat, NEW y \in Nat \ {0}, NEW z \in Nat \ {0}, y <= z
    PROVE  x \div z <= x \div y
<1> DEFINE q == x \div z
<1>1. q \in Nat /\ q * z <= x OBVIOUS
<1> HIDE DEF q
<1>2. q * y <= q * z BY <1>1, ProductMonotonic
<1>3. q * y <= x BY <1>1, <1>2
<1>4. x \div y >= q BY <1>1, <1>3, QuotientAtLeast
<1> QED BY <1>1, <1>4 DEF q

(* A common factor cancels.                                                  *)
LEMMA QuotientCancels ==
    ASSUME NEW x \in Nat, NEW y \in Nat \ {0}, NEW z \in Nat \ {0}
    PROVE  (x * z) \div (y * z) = x \div y
<1> DEFINE q == x \div y
<1>1. q \in Nat /\ q * y <= x /\ x < (q + 1) * y OBVIOUS
<1> HIDE DEF q
<1>2. q * y \in Nat /\ (q + 1) * y \in Nat BY <1>1, Products
<1>3. z * (q * y) <= z * x BY <1>1, <1>2, ProductMonotonic
<1>4. z * (x + 1) <= z * ((q + 1) * y) BY <1>1, <1>2, ProductMonotonic
<1>5. x * z \in Nat /\ y * z \in Nat \ {0} BY Products
<1>6. z * (q * y) = q * (y * z) /\ z * ((q + 1) * y) = (q + 1) * (y * z) BY <1>1
<1>7. q * (y * z) <= x * z /\ x * z < (q + 1) * (y * z)
  <2>1. z * x = x * z /\ z * (x + 1) = x * z + z OBVIOUS
  <2>2. q * (y * z) \in Nat /\ (q + 1) * (y * z) \in Nat BY <1>1, <1>5, Products
  <2> QED BY <1>3, <1>4, <1>5, <1>6, <2>1, <2>2
<1> DEFINE u == x * z
           v == y * z
<1>8. u \in Nat /\ v \in Nat \ {0} /\ q * v <= u /\ u < (q + 1) * v BY <1>5, <1>7
<1> HIDE DEF u, v
<1>9. u \div v >= q /\ u \div v <= q /\ u \div v \in Int
  BY <1>1, <1>8, QuotientAtLeast, QuotientAtMost
<1> QED BY <1>1, <1>9 DEF u, v, q

(* Rounding up to a multiple adds less than it.                              *)
LEMMA RoundedUp ==
    ASSUME NEW x \in Nat, NEW y \in Nat \ {0}
    PROVE  /\ CeilDiv(x, y) \in Nat
           /\ x <= CeilDiv(x, y) * y /\ CeilDiv(x, y) * y < x + y
<1> DEFINE n == (x + y - 1) \div y
<1>1. n \in Nat /\ n * y <= x + y - 1 /\ x + y - 1 < (n + 1) * y OBVIOUS
<1>2. (n + 1) * y = n * y + y BY <1>1
<1> QED BY <1>1, <1>2 DEF CeilDiv

-----------------------------------------------------------------------------
(* The estimates.                                                            *)
LEMMA Least1 == \A x, y \in Int : Least(x, y) \in Int /\ Least(x, y) <= x /\ Least(x, y) <= y
BY DEF Least

(* The greater of two, and the part above zero.                              *)
LEMMA Most1 == \A x, y \in Int : Most(x, y) \in Int /\ Most(x, y) >= x /\ Most(x, y) >= y
BY DEF Most

LEMMA NotNegative1 == \A x \in Int : NotNegative(x) \in Nat /\ NotNegative(x) >= x
BY DEF NotNegative, Most

(* The operators of LatencyModel return numbers.                             *)
LEMMA PrefillTokensNat ==
    ASSUME NEW w, w.prompt \in Nat
    PROVE  PrefillTokens(w) \in Nat
<1> DEFINE x == (w.prompt * (100 - Hint.hit) * Hint.batch) \div 100
<1>1. Hint.maxBatched \in Nat /\ Hint.batch \in Nat /\ 100 - Hint.hit \in Nat
  BY ModelAssumption
<1>2. w.prompt * (100 - Hint.hit) \in Nat BY <1>1, Products
<1>3. w.prompt * (100 - Hint.hit) * Hint.batch \in Nat BY <1>1, <1>2, Products
<1>4. x \in Nat BY <1>3, Quotients
<1> HIDE DEF x
<1>5. Least(x, Hint.maxBatched) \in Nat BY <1>1, <1>4 DEF Least
<1> QED BY <1>5 DEF PrefillTokens, x

LEMMA ThreadOccupancyNat ==
    ASSUME NEW w, w.prompt \in Nat, NEW g \in Nat \ {0}
    PROVE  ThreadOccupancy(w, g) \in Nat
<1>1. Hint.batch \in Nat /\ Arch.threads \in Nat BY ModelAssumption
<1>2. Most(PrefillTokens(w), Hint.batch) \in Nat
  BY <1>1, PrefillTokensNat DEF Most
<1>3. Most(PrefillTokens(w), Hint.batch) * Arch.threads \in Nat BY <1>1, <1>2, Products
<1>4. (Most(PrefillTokens(w), Hint.batch) * Arch.threads) \div g \in Nat
  BY <1>3, Quotients
<1> QED BY <1>4 DEF Least, ThreadOccupancy

LEMMA MemoryAtNat ==
    ASSUME NEW w, w.prompt \in Nat, w.out \in Nat, NEW prefill \in Nat,
           NEW g \in Nat \ {0}, NEW overhead \in Nat
    PROVE  MemoryAt(w, prefill, g, overhead) \in Nat
<1> DEFINE attention == IF w.prompt <= Arch.long THEN 0
                        ELSE (Arch.attention * prefill * w.prompt) \div Arch.long
           kv == Arch.kv * Hint.batch * Hint.batch * (w.prompt + w.out)
           act == Arch.act * prefill
           raw == Arch.weights + kv + act + attention
<1>1. /\ Arch.long \in Nat \ {0} /\ Arch.attention \in Nat /\ Arch.weights \in Nat
      /\ Arch.kv \in Nat /\ Arch.act \in Nat /\ Hint.batch \in Nat
  BY ModelAssumption
<1>2. attention \in Nat
  <2>1. Arch.attention * prefill \in Nat BY <1>1, Products
  <2>2. Arch.attention * prefill * w.prompt \in Nat BY <2>1, Products
  <2>3. (Arch.attention * prefill * w.prompt) \div Arch.long \in Nat BY <1>1, <2>2, Quotients
  <2> QED BY <2>3
<1>3. kv \in Nat
  <2>1. Arch.kv * Hint.batch \in Nat BY <1>1, Products
  <2>2. Arch.kv * Hint.batch * Hint.batch \in Nat BY <1>1, <2>1, Products
  <2>3. w.prompt + w.out \in Nat OBVIOUS
  <2> QED BY <2>2, <2>3, Products
<1>4. act \in Nat BY <1>1, Products
<1> HIDE DEF attention, kv, act
<1>5. raw \in Nat BY <1>1, <1>2, <1>3, <1>4
<1> HIDE DEF raw
<1>6. raw * overhead \in Nat /\ 100 * g \in Nat \ {0} BY <1>5, Products
<1>7. CeilDiv(raw * overhead, 100 * g) \in Nat BY <1>6, RoundedUp
<1> QED BY <1>7 DEF MemoryAt, raw, attention, kv, act

LEMMA MemoryNeedNat ==
    ASSUME NEW w, w.prompt \in Nat, w.out \in Nat, w.prefill \in Nat, w.mem \in Nat,
           NEW g \in Nat \ {0}
    PROVE  MemoryNeed(w, g) \in Nat
<1> DEFINE estimate == MemoryAt(w, TuningTokens(w), 1, DefaultOverhead)
<1>1. TuningTokens(w) \in Int
  <2>1. Hint.maxBatched - Hint.batch \in Int BY ModelAssumption
  <2>2. Least(w.prompt, Hint.maxBatched - Hint.batch) \in Int BY <2>1 DEF Least
  <2> QED BY <2>2 DEF TuningTokens
<1>2. TunedOverhead(w) \in Nat
  <2>1. CASE TuningTokens(w) <= 0 \/ estimate = 0
    BY <2>1 DEF TunedOverhead, DefaultOverhead
  <2>2. CASE ~(TuningTokens(w) <= 0) /\ estimate # 0
    <3>1. estimate \in Nat \ {0} BY <1>1, <2>2, MemoryAtNat DEF DefaultOverhead
    <3> HIDE DEF estimate
    <3>2. 100 * w.mem \in Nat BY Products
    <3>3. (100 * w.mem) \div estimate \in Nat BY <3>1, <3>2, Quotients
    <3>4. Least(MaxMemoryOverheadFactor, (100 * w.mem) \div estimate) \in Nat
      BY <3>3 DEF Least, MaxMemoryOverheadFactor
    <3>5. Most(DefaultOverhead, Least(MaxMemoryOverheadFactor, (100 * w.mem) \div estimate)) \in Nat
      BY <3>4 DEF Most, DefaultOverhead
    <3> QED BY <2>2, <3>5 DEF TunedOverhead, estimate
  <2> QED BY <2>1, <2>2
<1> QED BY <1>2, PrefillTokensNat, MemoryAtNat DEF MemoryNeed

-----------------------------------------------------------------------------
(* Latency of one request.  Less compute for the same occupancy never makes  *)
(* the impact of the allocation smaller, and it takes away all at most.      *)
Ratio(occ, c) == Least(100, (100 * occ) \div c)
Impact(ratio) ==
    IF ratio < 50 THEN -((100 - ratio) * GPU.speedUp) \div 100
    ELSE IF ratio > 80 THEN ((ratio - 80) * GPU.contention) \div 100
    ELSE 0

LEMMA RatioAntitone ==
    ASSUME NEW occ \in Nat, NEW c \in Nat \ {0}, NEW d \in Nat \ {0}, c <= d
    PROVE  Ratio(occ, c) \in 0..100 /\ Ratio(occ, d) \in 0..100 /\ Ratio(occ, d) <= Ratio(occ, c)
<1> DEFINE x == (100 * occ) \div c
           y == (100 * occ) \div d
<1>1. x \in Nat /\ y \in Nat /\ y <= x BY Products, Quotients, QuotientAntitone
<1> HIDE DEF x, y
<1>2. /\ Least(100, x) \in 0..100 /\ Least(100, y) \in 0..100
      /\ Least(100, y) <= Least(100, x)
  BY <1>1 DEF Least
<1> QED BY <1>2 DEF Ratio, x, y

(* The impact grows with the ratio, and is at least minus all.               *)
LEMMA ImpactMonotonic ==
    ASSUME NEW p \in 0..100, NEW q \in 0..100, p <= q
    PROVE  Impact(p) \in Int /\ Impact(q) \in Int /\ -100 <= Impact(p) /\ Impact(p) <= Impact(q)
<1> DEFINE gain(x) == ((100 - x) * GPU.speedUp) \div 100
           loss(x) == ((x - 80) * GPU.contention) \div 100
<1>0. GPU.speedUp \in 0..100 /\ GPU.contention \in Nat BY ModelAssumption
<1>1. ASSUME NEW x \in 0..100 PROVE gain(x) \in Nat /\ gain(x) <= 100
  <2>1. 100 - x \in Nat /\ (100 - x) * GPU.speedUp \in Nat BY <1>0, Products
  <2>2. (100 - x) * GPU.speedUp <= (100 - x) * 100 BY <1>0, <2>1, ProductMonotonic
  <2>3. (100 - x) * GPU.speedUp < 101 * 100 BY <2>1, <2>2
  <2> QED BY <2>1, <2>3, Quotients, QuotientAtMost
<1>2. gain(q) <= gain(p)
  <2>1. 100 - p \in Nat /\ 100 - q \in Nat /\ 100 - q <= 100 - p OBVIOUS
  <2>2. GPU.speedUp * (100 - q) <= GPU.speedUp * (100 - p) BY <1>0, <2>1, ProductMonotonic
  <2>3. (100 - q) * GPU.speedUp \in Nat /\ (100 - p) * GPU.speedUp \in Nat
    BY <1>0, <2>1, Products
  <2>4. (100 - q) * GPU.speedUp <= (100 - p) * GPU.speedUp BY <1>0, <2>1, <2>2
  <2> QED BY <2>3, <2>4, QuotientMonotonic
<1>3. ASSUME NEW x \in 81..100 PROVE loss(x) \in Nat
  <2>1. x - 80 \in Nat /\ (x - 80) * GPU.contention \in Nat BY <1>0, Products
  <2> QED BY <2>1, Quotients
<1>4. p > 80 => loss(p) <= loss(q)
  <2> SUFFICES ASSUME p > 80 PROVE loss(p) <= loss(q) OBVIOUS
  <2>1. p - 80 \in Nat /\ q - 80 \in Nat /\ p - 80 <= q - 80 OBVIOUS
  <2>2. GPU.contention * (p - 80) <= GPU.contention * (q - 80) BY <1>0, <2>1, ProductMonotonic
  <2>3. (q - 80) * GPU.contention \in Nat /\ (p - 80) * GPU.contention \in Nat
    BY <1>0, <2>1, Products
  <2>4. (p - 80) * GPU.contention <= (q - 80) * GPU.contention BY <1>0, <2>1, <2>2
  <2> QED BY <2>3, <2>4, QuotientMonotonic
<1>5. \A x : Impact(x) = IF x < 50 THEN -gain(x) ELSE IF x > 80 THEN loss(x) ELSE 0
  BY DEF Impact
<1>6. gain(p) \in Nat /\ gain(q) \in Nat /\ gain(p) <= 100 BY <1>1
<1>7. (p > 80 => loss(p) \in Nat) /\ (q > 80 => loss(q) \in Nat) BY <1>3
<1> HIDE DEF gain, loss
<1> QED BY <1>2, <1>4, <1>5, <1>6, <1>7

(* A cost scaled by the impact grows with it.                                *)
LEMMA ScaledMonotonic ==
    ASSUME NEW cost \in Nat, NEW g \in Nat \ {0}, NEW i \in Int, NEW j \in Int,
           -100 <= i, i <= j
    PROVE  /\ Scaled(cost, g, i) \in Nat /\ Scaled(cost, g, j) \in Nat
           /\ Scaled(cost, g, i) <= Scaled(cost, g, j)
<1>1. 100 * g \in Nat \ {0} OBVIOUS
<1>2. 100 + i \in Nat /\ 100 + j \in Nat /\ 100 + i <= 100 + j OBVIOUS
<1>3. /\ cost * (100 + i) \in Nat /\ cost * (100 + j) \in Nat
      /\ cost * (100 + i) <= cost * (100 + j)
  BY <1>2, Products, ProductMonotonic
<1> QED BY <1>1, <1>3, Quotients, QuotientMonotonic DEF Scaled

(* So do the time between two tokens and the time of a prefill, which are    *)
(* never negative whatever the offsets are.                                  *)
LEMMA InterTokenMonotonic ==
    ASSUME NEW w \in Loads, NEW g \in Nat \ {0}, NEW i \in Int, NEW j \in Int, -100 <= i, i <= j
    PROVE  /\ InterToken(w, g, i) \in Nat /\ InterToken(w, g, j) \in Nat
           /\ InterToken(w, g, i) <= InterToken(w, g, j)
<1> DEFINE cost == Arch.weightRead + Arch.kvRead * w.prompt
<1>1. w.prompt \in Nat /\ w.itlOff \in Int BY DEF Loads
<1>2. cost \in Nat BY <1>1, ModelAssumption, Products
<1> HIDE DEF cost
<1>3. /\ Scaled(cost, g, i) \in Nat /\ Scaled(cost, g, j) \in Nat
      /\ Scaled(cost, g, i) <= Scaled(cost, g, j)
  BY <1>2, ScaledMonotonic
<1>4. /\ NotNegative(Scaled(cost, g, i) + w.itlOff) \in Nat
      /\ NotNegative(Scaled(cost, g, j) + w.itlOff) \in Nat
      /\ NotNegative(Scaled(cost, g, i) + w.itlOff) <= NotNegative(Scaled(cost, g, j) + w.itlOff)
  BY <1>1, <1>3 DEF NotNegative, Most
<1> QED BY <1>4 DEF InterToken, cost

LEMMA PrefillMonotonic ==
    ASSUME NEW w \in Loads, NEW g \in Nat \ {0}, NEW i \in Int, NEW j \in Int, -100 <= i, i <= j
    PROVE  /\ Prefill(w, g, i) \in Nat /\ Prefill(w, g, j) \in Nat
           /\ Prefill(w, g, i) <= Prefill(w, g, j)
<1> DEFINE saved == (Hint.speedup * Hint.hit) \div 100
           cost == Arch.prefill * w.prompt * Hint.batch
           left == IF Hint.hit > 0 /\ saved <= 100 THEN (cost * (100 - saved)) \div 100
                   ELSE cost
           overhead == Arch.kernel + (IF g > 1 THEN Arch.sync * g ELSE 0)
           off == w.ttftOff
<1>1. w.prompt \in Nat /\ off \in Int BY DEF Loads
<1>2. saved \in Nat
  <2>1. Hint.speedup * Hint.hit \in Nat BY ModelAssumption, Products
  <2> QED BY <2>1, Quotients
<1>3. cost \in Nat
  <2>1. Arch.prefill * w.prompt \in Nat BY <1>1, ModelAssumption, Products
  <2> QED BY <2>1, ModelAssumption, Products
<1> HIDE DEF saved, cost
<1>4. left \in Nat
  <2>1. saved <= 100 => 100 - saved \in Nat BY <1>2
  <2>2. saved <= 100 => cost * (100 - saved) \in Nat BY <1>3, <2>1, Products
  <2>3. saved <= 100 => (cost * (100 - saved)) \div 100 \in Nat BY <2>2, Quotients
  <2> QED BY <1>3, <2>3
<1>5. overhead \in Nat BY ModelAssumption, Products
<1> HIDE DEF left, overhead, off
<1>6. /\ Scaled(left, g, i) \in Nat /\ Scaled(left, g, j) \in Nat
      /\ Scaled(left, g, i) <= Scaled(left, g, j)
  BY <1>4, ScaledMonotonic
<1> DEFINE time(x) == NotNegative(Scaled(left, g, x) + off) + overhead
<1>7. time(i) \in Nat /\ time(j) \in Nat /\ time(i) <= time(j)
  BY <1>1, <1>5, <1>6 DEF NotNegative, Most
<1> QED BY <1>7 DEF Prefill, left, overhead, saved, cost, off

-----------------------------------------------------------------------------
(* The queue.  Erlang's terms are summed up by recursion over the replicas;  *)
(* that the recursion has a solution is shown by putting together those up   *)
(* to every n.                                                               *)
Terms == [top : Nat, below : Nat]
NoReplica == [top |-> 1, below |-> 0]
OneMore(a, before, r) == [top |-> a * before.top,
                          below |-> (before.below + before.top) * OneServes * r]
UpTo(a, n) == {f \in [0..n -> Terms] :
                 f[0] = NoReplica /\ \A k \in 1..n : f[k] = OneMore(a, f[k - 1], k)}

(* A replica serves something in a second.                                   *)
LEMMA OneServesSome == OneServes \in Nat \ {0}
BY ModelAssumption DEF OneServes

(* A set of naturals has a least one.                                        *)
LEMMA LeastNatural ==
    ASSUME NEW S, S \subseteq Nat, S # {}
    PROVE  \E x \in S : \A y \in S : x <= y
<1> DEFINE R == {ss \in Nat \X Nat : ss[1] < ss[2]}
<1>1. IsWellFoundedOn(R, Nat) BY NatLessThanWellFounded DEF OpToRel
<1>2. PICK x \in S : \A y \in S : <<y, x>> \notin R BY <1>1, WFMin
<1>3. ASSUME NEW y \in S PROVE x <= y
  <2>1. x \in Nat /\ y \in Nat OBVIOUS
  <2>2. y < x => <<y, x>> \in R BY <2>1
  <2> QED BY <1>2, <2>1, <2>2
<1> QED BY <1>3

LEMMA OneMoreTyped ==
    ASSUME NEW a \in Nat, NEW t \in Terms, NEW r \in Nat
    PROVE  OneMore(a, t, r) \in Terms
<1>1. t.top \in Nat /\ t.below \in Nat /\ t.below + t.top \in Nat BY DEF Terms
<1>2. a * t.top \in Nat BY <1>1, Products
<1>3. (t.below + t.top) * OneServes \in Nat BY <1>1, OneServesSome, Products
<1>4. (t.below + t.top) * OneServes * r \in Nat BY <1>3, Products
<1> QED BY <1>2, <1>4 DEF OneMore, Terms

(* The terms up to n exist,                                                  *)
LEMMA UpToExists ==
    ASSUME NEW a \in Nat, NEW n \in Nat
    PROVE  UpTo(a, n) # {}
<1> DEFINE S == {k \in Nat : UpTo(a, k) = {}}
<1> SUFFICES ASSUME S # {} PROVE FALSE OBVIOUS
<1>1. PICK m \in S : \A k \in S : m <= k BY LeastNatural
<1>2. m \in Nat /\ UpTo(a, m) = {} OBVIOUS
<1>3. m # 0
  <2>1. [k \in 0..0 |-> NoReplica] \in UpTo(a, 0) BY DEF UpTo, Terms, NoReplica
  <2> QED BY <1>2, <2>1
<1>4. m - 1 \in Nat /\ m - 1 \notin S BY <1>1, <1>2, <1>3
<1>5. PICK f : f \in UpTo(a, m - 1) BY <1>4
<1> HIDE DEF S
<1>6. /\ f \in [0..(m - 1) -> Terms] /\ f[0] = NoReplica
      /\ \A k \in 1..(m - 1) : f[k] = OneMore(a, f[k - 1], k)
  BY <1>5 DEF UpTo
<1> DEFINE next == OneMore(a, f[m - 1], m)
           h == [k \in 0..m |-> IF k = m THEN next ELSE f[k]]
<1>7. next \in Terms BY <1>2, <1>4, <1>6, OneMoreTyped
<1> HIDE DEF next
<1>8. h \in [0..m -> Terms] BY <1>2, <1>6, <1>7
<1>9. h[0] = NoReplica BY <1>2, <1>3, <1>6
<1>10. ASSUME NEW k \in 1..m PROVE h[k] = OneMore(a, h[k - 1], k)
  <2>1. h[k - 1] = f[k - 1] BY <1>2, <1>10
  <2>2. CASE k = m BY <1>2, <2>1, <2>2 DEF next
  <2>3. CASE k # m
    <3>1. k \in 1..(m - 1) /\ h[k] = f[k] BY <1>2, <2>3
    <3> QED BY <1>6, <2>1, <3>1
  <2> QED BY <2>2, <2>3
<1>11. h \in UpTo(a, m) BY <1>8, <1>9, <1>10 DEF UpTo
<1> QED BY <1>2, <1>11

(* and agree with those up to any other number.                              *)
LEMMA UpToAgrees ==
    ASSUME NEW a \in Nat, NEW n \in Nat, NEW m \in Nat, n <= m,
           NEW f \in UpTo(a, n), NEW h \in UpTo(a, m)
    PROVE  f[n] = h[n]
<1> DEFINE S == {k \in 0..n : f[k] # h[k]}
<1> SUFFICES ASSUME S # {} PROVE FALSE OBVIOUS
<1>1. PICK x \in S : \A k \in S : x <= k
  <2>1. S \subseteq Nat OBVIOUS
  <2> HIDE DEF S
  <2> QED BY <2>1, LeastNatural
<1>2. x \in 0..n /\ f[x] # h[x] OBVIOUS
<1>3. x # 0 BY <1>2 DEF UpTo
<1>4. x - 1 \in 0..n /\ x - 1 \notin S BY <1>1, <1>2, <1>3
<1>5. f[x - 1] = h[x - 1] BY <1>4
<1> HIDE DEF S
<1>6. x \in 1..n /\ x \in 1..m BY <1>2, <1>3
<1>7. f[x] = OneMore(a, f[x - 1], x) /\ h[x] = OneMore(a, h[x - 1], x) BY <1>6 DEF UpTo
<1> QED BY <1>2, <1>5, <1>7

(* ErlangTerms is the function that its recursive definition describes.      *)
LEMMA ErlangTermsRecursion ==
    ASSUME NEW a \in Nat
    PROVE  /\ ErlangTerms(a)[0] = NoReplica
           /\ \A r \in Nat \ {0} :
                ErlangTerms(a)[r] = OneMore(a, ErlangTerms(a)[r - 1], r)
           /\ \A r \in Nat : ErlangTerms(a)[r] \in Terms
<1> DEFINE Part(n) == CHOOSE f : f \in UpTo(a, n)
           all == [n \in Nat |-> Part(n)[n]]
           Body(t, r) == IF r = 0 THEN [top |-> 1, below |-> 0]
                         ELSE LET before == t[r - 1]
                              IN  [top |-> a * before.top,
                                   below |-> (before.below + before.top) * OneServes * r]
<1>1. ASSUME NEW n \in Nat PROVE Part(n) \in UpTo(a, n) BY UpToExists
<1> HIDE DEF Part
<1>2. all[0] = NoReplica BY <1>1 DEF UpTo
<1>3. ASSUME NEW n \in Nat \ {0} PROVE all[n] = OneMore(a, all[n - 1], n)
  <2>1. n - 1 \in Nat /\ n \in Nat /\ n - 1 <= n OBVIOUS
  <2>2. Part(n) \in UpTo(a, n) /\ Part(n - 1) \in UpTo(a, n - 1) BY <1>1, <2>1
  <2>3. Part(n - 1)[n - 1] = Part(n)[n - 1]
    <3> DEFINE f == Part(n - 1)
               h == Part(n)
               k == n - 1
    <3>1. k \in Nat /\ k <= n /\ f \in UpTo(a, k) /\ h \in UpTo(a, n) BY <2>1, <2>2
    <3> HIDE DEF f, h, k
    <3>2. \A q \in Nat : q <= n => (\A y \in UpTo(a, q) : y[q] = h[q]) BY <3>1, UpToAgrees
    <3>3. f[k] = h[k] BY <3>1, <3>2
    <3> QED BY <3>3 DEF f, h, k
  <2>4. n \in 1..n BY <2>1
  <2>5. Part(n)[n] = OneMore(a, Part(n)[n - 1], n) BY <2>2, <2>4 DEF UpTo
  <2> QED BY <2>1, <2>3, <2>5
<1>4. ASSUME NEW r \in Nat PROVE all[r] = Body(all, r)
  BY <1>2, <1>3 DEF NoReplica, OneMore
<1>5. all = [r \in Nat |-> Body(all, r)]
  <2>1. all = [r \in Nat |-> all[r]] OBVIOUS
  <2> HIDE DEF all, Body
  <2> QED BY <1>4, <2>1
<1> HIDE DEF all
<1>6. ErlangTerms(a) = [r \in Nat |-> Body(ErlangTerms(a), r)]
  BY <1>5 DEF ErlangTerms
<1> DEFINE t == ErlangTerms(a)
<1>7. t = [r \in Nat |-> Body(t, r)] BY <1>6
<1> HIDE DEF t
<1>8. t[0] = NoReplica BY <1>7 DEF NoReplica
<1>9. \A r \in Nat \ {0} : t[r] = OneMore(a, t[r - 1], r) BY <1>7 DEF OneMore
<1>10. \A r \in Nat : t[r] \in Terms
  <2> DEFINE S == {r \in Nat : t[r] \notin Terms}
  <2> SUFFICES ASSUME S # {} PROVE FALSE OBVIOUS
  <2>1. PICK x \in S : \A y \in S : x <= y
    <3>1. S \subseteq Nat OBVIOUS
    <3> HIDE DEF S
    <3> QED BY <3>1, LeastNatural
  <2>2. x \in Nat /\ t[x] \notin Terms OBVIOUS
  <2>3. x # 0 BY <1>8, <2>2 DEF NoReplica, Terms
  <2>4. x - 1 \in Nat /\ t[x - 1] \in Terms BY <2>1, <2>2, <2>3
  <2> QED BY <1>9, <2>2, <2>3, <2>4, OneMoreTyped
<1> QED BY <1>8, <1>9, <1>10 DEF t

(* The probability is a fraction: nothing is divided by zero.                *)
LEMMA ErlangCTyped ==
    ASSUME NEW a \in Nat, NEW r \in Nat \ {0}, a < r * OneServes
    PROVE  /\ ErlangC(a, r).num \in Nat /\ ErlangC(a, r).den \in Nat
           /\ ErlangC(a, r).num # 0 => ErlangC(a, r).den # 0
<1> DEFINE t == ErlangTerms(a)[r]
           left == r * OneServes - a
           x == t.top * left
           y == t.below * left
           z == t.top * r * OneServes
<1>1. t.top \in Nat /\ t.below \in Nat BY ErlangTermsRecursion DEF Terms
<1>2. r * OneServes \in Nat /\ left \in Nat \ {0} BY OneServesSome, Products
<1>3. ErlangC(a, r) = [num |-> x, den |-> y + z] BY DEF ErlangC
<1> HIDE DEF t, left
<1>4. x \in Nat /\ y \in Nat BY <1>1, <1>2, Products
<1>5. t.top * r \in Nat /\ z \in Nat BY <1>1, OneServesSome, Products
<1>6. x # 0 => z # 0
  <2> SUFFICES ASSUME t.top # 0 PROVE z # 0 BY <1>1, <1>2
  <2>1. t.top * r # 0 BY <1>1
  <2> HIDE DEF z
  <2>2. (t.top * r) * OneServes # 0 BY <1>5, <2>1, OneServesSome
  <2> QED BY <2>2 DEF z
<1> HIDE DEF x, y, z
<1> QED BY <1>3, <1>4, <1>5, <1>6

(* The wait is an integer, below zero when one replica is overloaded.        *)
LEMMA QueueWaitInt ==
    ASSUME NEW rate \in Nat, NEW service \in Nat, NEW r \in Nat \ {0},
           Asked(rate, service) < r * OneServes
    PROVE  /\ QueueWait(rate, r)[service] \in Int
           /\ Asked(rate, service) <= OneServes => QueueWait(rate, r)[service] >= 0
           /\ Asked(rate, service) > OneServes => QueueWait(rate, r)[service] <= 0
<1> DEFINE a == Asked(rate, service)
           num == ErlangC(a, r).num
           den == ErlangC(a, r).den
           above == RateUnit * service * service * num
           less == above \div (den * (OneServes - a))
           more == above \div (den * (a - OneServes))
<1>1. a \in Nat BY Products DEF Asked
<1>2. num \in Nat /\ den \in Nat /\ (num # 0 => den # 0) BY <1>1, ErlangCTyped
<1>3. QueueWait(rate, r)[service] =
        IF num = 0 THEN 0
        ELSE IF a = OneServes THEN Forever
        ELSE IF a < OneServes THEN less ELSE -more
  BY DEF QueueWait
<1> HIDE DEF a, num, den
<1>4. above \in Nat
  <2>1. RateUnit * service \in Nat BY ModelAssumption, Products
  <2>2. RateUnit * service * service \in Nat BY <2>1, Products
  <2> QED BY <1>2, <2>2, Products
<1> HIDE DEF above
<1>5. ASSUME NEW rest \in Nat \ {0}, num # 0 PROVE above \div (den * rest) \in Nat
  <2>1. den * rest \in Nat \ {0} BY <1>2, <1>5, Products
  <2> QED BY <1>4, <2>1, Quotients
<1>6. num # 0 /\ a < OneServes => less \in Nat
  <2>1. a < OneServes => OneServes - a \in Nat \ {0} BY <1>1, OneServesSome
  <2> QED BY <1>5, <2>1
<1>7. num # 0 /\ a > OneServes => more \in Nat
  <2>1. a > OneServes => a - OneServes \in Nat \ {0} BY <1>1, OneServesSome
  <2> QED BY <1>5, <2>1
<1> HIDE DEF less, more
<1> DEFINE wait == QueueWait(rate, r)[service]
<1> HIDE DEF wait
<1>8. wait = IF num = 0 THEN 0
             ELSE IF a = OneServes THEN Forever
             ELSE IF a < OneServes THEN less ELSE -more
  BY <1>3 DEF wait
<1>9. wait \in Int /\ (a <= OneServes => wait >= 0) /\ (a > OneServes => wait <= 0)
  BY <1>1, <1>2, <1>6, <1>7, <1>8, OneServesSome DEF Forever
<1> QED BY <1>9 DEF a, wait

(* In front of one replica the load that is left cancels: the wait grows     *)
(* with the third power of the service time.                                 *)
LEMMA OneReplicaWait ==
    ASSUME NEW rate \in Nat, NEW service \in Nat, Asked(rate, service) < OneServes
    PROVE  QueueWait(rate, 1)[service] =
             (RateUnit * service * service * Asked(rate, service)) \div (OneServes * OneServes)
<1> DEFINE a == Asked(rate, service)
           b == OneServes
           left == b - a
           num == ErlangC(a, 1).num
           den == ErlangC(a, 1).den
           s == RateUnit * service * service
<1>1. a \in Nat /\ b \in Nat \ {0} /\ left \in Nat \ {0} BY OneServesSome, Products DEF Asked
<1>2. ErlangTerms(a)[1] = [top |-> a, below |-> b]
  <2>1. /\ ErlangTerms(a)[0] = NoReplica
        /\ ErlangTerms(a)[1] = OneMore(a, ErlangTerms(a)[0], 1)
    BY <1>1, ErlangTermsRecursion
  <2>2. ErlangTerms(a)[1] = [top |-> a * 1, below |-> (0 + 1) * OneServes * 1]
    BY <2>1 DEF OneMore, NoReplica
  <2>3. a * 1 = a /\ (0 + 1) * OneServes * 1 = OneServes BY <1>1
  <2> QED BY <2>2, <2>3
<1>3. num = a * (1 * b - a) /\ den = b * (1 * b - a) + a * 1 * b
  BY <1>2 DEF ErlangC
<1>4. QueueWait(rate, 1)[service] =
        IF num = 0 THEN 0
        ELSE IF a = b THEN Forever
        ELSE IF a < b THEN (s * num) \div (den * (b - a))
        ELSE -((s * num) \div (den * (a - b)))
  BY DEF QueueWait
<1>5. s \in Nat
  <2>1. RateUnit * service \in Nat BY ModelAssumption, Products
  <2> QED BY <2>1, Products
<1> HIDE DEF num, den, s, a, b
<1>6. num = a * left /\ den = b * b
  <2>1. 1 * b - a = b - a BY <1>1
  <2>2. b * (b - a) + a * 1 * b = b * b BY <1>1
  <2> QED BY <1>3, <2>1, <2>2
<1>7. b * b \in Nat \ {0} /\ s * a \in Nat BY <1>1, <1>5, Products
<1>8. a < b BY DEF a, b
<1>9. CASE a = 0
  <2>1. num = 0 /\ s * a = 0 BY <1>1, <1>5, <1>6, <1>9
  <2>2. 0 \div (b * b) = 0
    <3> DEFINE y == b * b
    <3>1. y \in Nat \ {0} BY <1>7
    <3> HIDE DEF y
    <3>2. 0 \div y = 0 BY <3>1
    <3> QED BY <3>2 DEF y
  <2> QED BY <1>4, <2>1, <2>2 DEF s, a, b
<1>10. CASE a # 0
  <2>1. num # 0 BY <1>1, <1>6, <1>10
  <2>2. QueueWait(rate, 1)[service] = (s * num) \div (den * left) BY <1>1, <1>4, <1>8, <2>1
  <2>3. s * num = (s * a) * left
    <3>1. s * (a * left) = (s * a) * left BY <1>1, <1>5
    <3> QED BY <1>6, <3>1
  <2>4. ((s * a) * left) \div ((b * b) * left) = (s * a) \div (b * b)
    <3> DEFINE x == s * a
               y == b * b
    <3>1. x \in Nat /\ y \in Nat \ {0} BY <1>7
    <3> HIDE DEF x, y, left
    <3>2. (x * left) \div (y * left) = x \div y BY <1>1, <3>1, QuotientCancels
    <3> QED BY <3>2 DEF x, y
  <2> QED BY <1>6, <2>2, <2>3, <2>4 DEF s, a, b
<1> QED BY <1>9, <1>10

(* The longer the service, the longer the wait for one replica.              *)
LEMMA OneReplicaWaitMonotonic ==
    ASSUME NEW rate \in Nat, NEW s \in Nat, NEW t \in Nat, s <= t, Asked(rate, t) < OneServes
    PROVE  /\ Asked(rate, s) < OneServes
           /\ QueueWait(rate, 1)[s] <= QueueWait(rate, 1)[t]
<1>1. /\ Asked(rate, s) \in Nat /\ Asked(rate, t) \in Nat
      /\ Asked(rate, s) <= Asked(rate, t)
  BY Products, ProductMonotonic DEF Asked
<1>2. Asked(rate, s) < OneServes BY <1>1, OneServesSome
<1> DEFINE x == RateUnit * s
           y == RateUnit * t
<1>3. x \in Nat /\ y \in Nat /\ x <= y BY ModelAssumption, Products, ProductMonotonic
<1>4. /\ x * s \in Nat /\ y * t \in Nat /\ x * s <= y * t
  <2> HIDE DEF x, y
  <2>1. x * s <= x * t BY <1>3, ProductMonotonic
  <2>2. t * x <= t * y BY <1>3, ProductMonotonic
  <2>3. t * x = x * t /\ t * y = y * t BY <1>3
  <2>4. x * s \in Nat /\ x * t \in Nat /\ y * t \in Nat BY <1>3, Products
  <2> QED BY <2>1, <2>2, <2>3, <2>4
<1> DEFINE p == x * s
           q == y * t
           a == Asked(rate, s)
           c == Asked(rate, t)
           n == OneServes * OneServes
<1>5. p \in Nat /\ q \in Nat /\ p <= q /\ a \in Nat /\ c \in Nat /\ a <= c BY <1>1, <1>4
<1>6. n \in Nat \ {0} BY OneServesSome, Products
<1>7. QueueWait(rate, 1)[s] = (p * a) \div n /\ QueueWait(rate, 1)[t] = (q * c) \div n
  BY <1>2, OneReplicaWait
<1> HIDE DEF p, q, a, c, n
<1>8. p * a \in Nat /\ q * c \in Nat /\ p * a <= q * c
  <2>1. p * a <= p * c BY <1>5, ProductMonotonic
  <2>2. c * p <= c * q BY <1>5, ProductMonotonic
  <2>3. c * p = p * c /\ c * q = q * c BY <1>5
  <2>4. p * a \in Nat /\ p * c \in Nat /\ q * c \in Nat BY <1>5, Products
  <2> QED BY <2>1, <2>2, <2>3, <2>4
<1>9. (p * a) \div n <= (q * c) \div n BY <1>6, <1>8, QuotientMonotonic
<1> QED BY <1>2, <1>7, <1>9

-----------------------------------------------------------------------------
(* The estimate of a configuration, in its parts.                            *)
ImpactOf(w, g, c) == AllocationImpact(ThreadOccupancy(w, g), c)
TokenTime(w, g, c) == InterToken(w, g, ImpactOf(w, g, c))
PrefillTime(w, g, c) == Prefill(w, g, ImpactOf(w, g, c))
ServiceTime(w, g, c) == PrefillTime(w, g, c) + TokenTime(w, g, c) * w.out

(* More compute never makes a part of it slower.                             *)
LEMMA PartsAntitone ==
    ASSUME NEW w \in Loads, NEW g \in Nat \ {0}, NEW c \in Nat \ {0}, NEW d \in Nat \ {0}, c <= d
    PROVE  /\ TokenTime(w, g, c) \in Nat /\ TokenTime(w, g, d) \in Nat
           /\ PrefillTime(w, g, c) \in Nat /\ PrefillTime(w, g, d) \in Nat
           /\ ServiceTime(w, g, c) \in Nat /\ ServiceTime(w, g, d) \in Nat
           /\ TokenTime(w, g, d) <= TokenTime(w, g, c)
           /\ PrefillTime(w, g, d) <= PrefillTime(w, g, c)
           /\ ServiceTime(w, g, d) <= ServiceTime(w, g, c)
<1> DEFINE occ == ThreadOccupancy(w, g)
<1>1. w.prompt \in Nat /\ w.out \in Nat BY DEF Loads
<1>2. occ \in Nat BY <1>1, ThreadOccupancyNat
<1>3. \A x : AllocationImpact(occ, x) = Impact(Ratio(occ, x))
  BY DEF AllocationImpact, Impact, Ratio
<1> HIDE DEF occ
<1>4. Ratio(occ, c) \in 0..100 /\ Ratio(occ, d) \in 0..100 /\ Ratio(occ, d) <= Ratio(occ, c)
  BY <1>2, RatioAntitone
<1> DEFINE i == Impact(Ratio(occ, d))
           j == Impact(Ratio(occ, c))
<1>5. i \in Int /\ j \in Int /\ -100 <= i /\ i <= j BY <1>4, ImpactMonotonic
<1>6. ImpactOf(w, g, d) = i /\ ImpactOf(w, g, c) = j BY <1>3 DEF ImpactOf, occ
<1> HIDE DEF i, j
<1>7. /\ TokenTime(w, g, c) \in Nat /\ TokenTime(w, g, d) \in Nat
      /\ TokenTime(w, g, d) <= TokenTime(w, g, c)
  BY <1>5, <1>6, InterTokenMonotonic DEF TokenTime
<1>8. /\ PrefillTime(w, g, c) \in Nat /\ PrefillTime(w, g, d) \in Nat
      /\ PrefillTime(w, g, d) <= PrefillTime(w, g, c)
  BY <1>5, <1>6, PrefillMonotonic DEF PrefillTime
<1> DEFINE x == TokenTime(w, g, d) * w.out
           y == TokenTime(w, g, c) * w.out
<1>9. x \in Nat /\ y \in Nat /\ x <= y
  <2>1. w.out * TokenTime(w, g, d) <= w.out * TokenTime(w, g, c) BY <1>1, <1>7, ProductMonotonic
  <2>2. /\ w.out * TokenTime(w, g, d) = TokenTime(w, g, d) * w.out
        /\ w.out * TokenTime(w, g, c) = TokenTime(w, g, c) * w.out
    BY <1>1, <1>7
  <2> QED BY <1>1, <1>7, <2>1, <2>2, Products
<1> HIDE DEF x, y
<1>10. ServiceTime(w, g, d) = PrefillTime(w, g, d) + x /\ ServiceTime(w, g, c) = PrefillTime(w, g, c) + y
  BY DEF ServiceTime, x, y
<1> QED BY <1>7, <1>8, <1>9, <1>10

(* What AddQueuingResults makes of them.                                     *)
LEMMA LatencyParts ==
    ASSUME NEW w, NEW r, NEW g, NEW c
    PROVE  LET service == ServiceTime(w, g, c)
               full == Asked(w.rate, service) >= r * OneServes
               l == Latency(w, r, g, c)
           IN  /\ l = IF full
                      THEN [stable |-> FALSE, itl |-> TokenTime(w, g, c), ttft |-> 0, e2e |-> 0]
                      ELSE [stable |-> TRUE, itl |-> TokenTime(w, g, c),
                            ttft |-> PrefillTime(w, g, c),
                            e2e |-> QueueWait(w.rate, r)[service] + service]
               /\ l.stable <=> ~full
               /\ l.itl = TokenTime(w, g, c)
               /\ l.ttft = IF full THEN 0 ELSE PrefillTime(w, g, c)
               /\ l.e2e = IF full THEN 0 ELSE QueueWait(w.rate, r)[service] + service
<1> DEFINE service == ServiceTime(w, g, c)
           full == Asked(w.rate, service) >= r * OneServes
           wait == QueueWait(w.rate, r)[service]
           l == Latency(w, r, g, c)
           unstable == [stable |-> FALSE, itl |-> TokenTime(w, g, c), ttft |-> 0, e2e |-> 0]
           stable == [stable |-> TRUE, itl |-> TokenTime(w, g, c), ttft |-> PrefillTime(w, g, c),
                      e2e |-> wait + service]
<1>1. l = IF full THEN unstable ELSE stable
  BY Zenon DEF Latency, ServiceTime, PrefillTime, TokenTime, ImpactOf
<1> HIDE DEF full, wait, service, l
<1>2. ~unstable.stable /\ stable.stable OBVIOUS
<1>3. unstable.itl = TokenTime(w, g, c) /\ unstable.ttft = 0 /\ unstable.e2e = 0 OBVIOUS
<1>4. /\ stable.itl = TokenTime(w, g, c) /\ stable.ttft = PrefillTime(w, g, c)
      /\ stable.e2e = wait + service
  OBVIOUS
<1> HIDE DEF unstable, stable
<1>5. l.stable <=> ~full BY <1>1, <1>2, Zenon
<1>6. /\ l.itl = TokenTime(w, g, c)
      /\ l.ttft = IF full THEN 0 ELSE PrefillTime(w, g, c)
      /\ l.e2e = IF full THEN 0 ELSE wait + service
  BY <1>1, <1>3, <1>4, Zenon
<1> QED BY <1>1, <1>5, <1>6, Zenon DEF full, wait, service, l, unstable, stable

(* Latencies of one request are never negative, whatever the offsets are.    *)
LEMMA LatencyNat ==
    ASSUME NEW w \in Loads, NEW r \in Nat \ {0}, NEW g \in Nat \ {0}, NEW c \in Nat \ {0}
    PROVE  /\ Latency(w, r, g, c) \in [stable : BOOLEAN, itl : Nat, ttft : Nat, e2e : Int]
           /\ Latency(w, r, g, c).itl \in Nat /\ Latency(w, r, g, c).ttft \in Nat
           /\ ~Latency(w, r, g, c).stable => Latency(w, r, g, c).e2e = 0
<1> DEFINE service == ServiceTime(w, g, c)
           asked == Asked(w.rate, service)
           full == asked >= r * OneServes
           wait == QueueWait(w.rate, r)[service]
           l == Latency(w, r, g, c)
<1>1. TokenTime(w, g, c) \in Nat /\ PrefillTime(w, g, c) \in Nat /\ service \in Nat
  BY PartsAntitone
<1>2. w.rate \in Nat BY DEF Loads
<1>3. asked \in Nat /\ r * OneServes \in Nat BY <1>1, <1>2, OneServesSome, Products DEF Asked
<1>4. ~full => wait \in Int BY <1>1, <1>2, <1>3, QueueWaitInt
<1>5. /\ l = IF full THEN [stable |-> FALSE, itl |-> TokenTime(w, g, c), ttft |-> 0, e2e |-> 0]
             ELSE [stable |-> TRUE, itl |-> TokenTime(w, g, c), ttft |-> PrefillTime(w, g, c),
                   e2e |-> wait + service]
      /\ l.itl = TokenTime(w, g, c)
      /\ l.ttft = IF full THEN 0 ELSE PrefillTime(w, g, c)
  BY LatencyParts
<1>6. ~l.stable => l.e2e = 0 BY LatencyParts, Zenon
<1>7. ~full => wait + service \in Int BY <1>1, <1>4
<1> HIDE DEF full, wait, service, l
<1>8. l \in [stable : BOOLEAN, itl : Nat, ttft : Nat, e2e : Int] BY <1>1, <1>5, <1>7
<1>9. l.itl \in Nat /\ l.ttft \in Nat BY <1>1, <1>5
<1> QED BY <1>6, <1>8, <1>9 DEF l

(* EstimateLatency and AddQueuingResults never make a single replica slower  *)
(* when it gets more compute: if the estimate with less of it is stable, so  *)
(* is the one with more, and none of its latencies is longer.                *)
THEOREM LessComputeIsSlower ==
    ASSUME NEW w \in Loads, NEW g \in Nat \ {0}, NEW c \in Nat \ {0}, NEW d \in Nat \ {0}, c <= d,
           Latency(w, 1, g, c).stable
    PROVE  /\ Latency(w, 1, g, d).stable
           /\ Latency(w, 1, g, d).itl <= Latency(w, 1, g, c).itl
           /\ Latency(w, 1, g, d).ttft <= Latency(w, 1, g, c).ttft
           /\ Latency(w, 1, g, d).e2e <= Latency(w, 1, g, c).e2e
<1> DEFINE s == ServiceTime(w, g, d)
           t == ServiceTime(w, g, c)
           l == Latency(w, 1, g, d)
           k == Latency(w, 1, g, c)
<1>0. w.rate \in Nat BY DEF Loads
<1>1. s \in Nat /\ t \in Nat /\ s <= t BY PartsAntitone
<1>2. ~(Asked(w.rate, t) >= 1 * OneServes) BY LatencyParts, Zenon
<1>3. Asked(w.rate, s) \in Nat /\ Asked(w.rate, t) \in Nat BY <1>0, <1>1, Products DEF Asked
<1>4. Asked(w.rate, t) < OneServes BY <1>2, <1>3, OneServesSome
<1>5. /\ Asked(w.rate, s) < OneServes
      /\ QueueWait(w.rate, 1)[s] <= QueueWait(w.rate, 1)[t]
  BY <1>0, <1>1, <1>4, OneReplicaWaitMonotonic
<1>6. ~(Asked(w.rate, s) >= 1 * OneServes) BY <1>3, <1>5, OneServesSome
<1>7. l.stable BY <1>6, LatencyParts, Zenon
<1>8. /\ l.itl = TokenTime(w, g, d) /\ l.ttft = PrefillTime(w, g, d)
      /\ l.e2e = QueueWait(w.rate, 1)[s] + s
  BY <1>6, LatencyParts
<1>9. /\ k.itl = TokenTime(w, g, c) /\ k.ttft = PrefillTime(w, g, c)
      /\ k.e2e = QueueWait(w.rate, 1)[t] + t
  BY <1>2, LatencyParts
<1>10. l.itl <= k.itl /\ l.ttft <= k.ttft BY <1>8, <1>9, PartsAntitone
<1>11. l.e2e <= k.e2e
  <2>1. QueueWait(w.rate, 1)[s] \in Int /\ QueueWait(w.rate, 1)[t] \in Int
    <3>1. Asked(w.rate, s) < 1 * OneServes /\ Asked(w.rate, t) < 1 * OneServes
      BY <1>4, <1>5, OneServesSome
    <3> QED BY <1>0, <1>1, <3>1, QueueWaitInt
  <2> HIDE DEF s, t
  <2> QED BY <1>1, <1>5, <1>8, <1>9, <2>1
<1> QED BY <1>7, <1>10, <1>11

=============================================================================
