-------------------------- MODULE DiscoveryProofs --------------------------
(***************************************************************************)
(* TLAPS proofs about Discovery: for any finite set of objects, any        *)
(* ownership among them, and any number of failures, crashes and changes   *)
(* of the cluster.                                                         *)
(***************************************************************************)
EXTENDS Discovery, FiniteSetTheorems, WellFoundedInduction, TLAPS

(* What the message of a condition tells.                                    *)
Causes ==
    {"service", "slices", "inconsistent", "reference", "workload", "kind", "class", "template"}
Reasons == Seq(Causes \cup Objects \cup Templates \cup {None})

Outcomes == [kind : {"found", "error", "nothing", "panic"}, why : Reasons]

Discoveries ==
    [pc : {"idle", "service", "slices", "pod", "walk", "workload", "template", "end"},
     pods : Seq(Pods), i : Nat, cur : Objects \cup {None}, common : Objects \cup {None},
     tmpl : Templates \cup {None}, skipped : SUBSET Objects,
     res : Outcomes]

(* The first n pods of e are dealt with: each was skipped or has the common  *)
(* owner on top, and the first one, which sets it, was not skipped.          *)
DealtWith(e, n) ==
    /\ \A j, k \in DOMAIN e.pods : e.pods[j] = e.pods[k] => j = k
    /\ e.skipped \subseteq {e.pods[j] : j \in 1..n}
    /\ e.common # None =>
        /\ n >= 1 /\ e.pods[1] \notin e.skipped
        /\ \A j \in 1..n : e.pods[j] \notin e.skipped => TopOf[e.pods[j]] = e.common

(* Where discovery is, and what it knows there.                              *)
Progress(e) ==
    /\ e.pc \in {"service", "slices"} => e.common = None /\ e.skipped = {}
    /\ e.pc \in {"service", "slices"} => e.res.kind = "nothing"
    /\ e.pc \in {"pod", "walk"} => e.i \in 1..Len(e.pods) /\ DealtWith(e, e.i - 1)
    /\ e.pc = "walk" => e.cur \in Objects /\ TopOf[e.cur] = TopOf[e.pods[e.i]]
    /\ e.pc \in {"workload", "template"} =>
        e.pods # <<>> /\ e.common \in Objects /\ DealtWith(e, Len(e.pods))
    /\ e.pc = "template" =>
        /\ e.tmpl \in Templates /\ e.tmpl = FirstTemplate(e.common)
        /\ KindOf[e.common] \in WorkloadKinds
    /\ e.pc = "end" /\ e.res.kind = "found" =>
        /\ e.pods # <<>> /\ e.common \in Objects /\ DealtWith(e, Len(e.pods))
        /\ e.tmpl \in Templates /\ e.tmpl = FirstTemplate(e.common)
        /\ KindOf[e.common] \in WorkloadKinds /\ ClassMatches(e.tmpl)
        /\ e.res = Found(e.common, e.tmpl)

(* The types of all but the reconciliation under way.                        *)
Surroundings ==
    /\ live \subseteq Things
    /\ endpoints \subseteq Pods
    /\ ready \in BOOLEAN /\ queued \in BOOLEAN
    /\ status.disc \in {None} \cup {r.why : r \in Results}
    /\ status.active \in {None, "waiting", "registered"}
    /\ changes \in 0..MaxChanges

IInv == Surroundings /\ d \in Discoveries /\ Progress(d)

-----------------------------------------------------------------------------
(* The top of an ownership chain.                                            *)

(* The objects from o upwards.                                               *)
Closed(S) == \A y \in S : Owned(y) => OwnerOf[y] \in S
Above(o) == {x \in Objects : \A S \in SUBSET Objects : o \in S /\ Closed(S) => x \in S}

(* The owner of an object is an object.                                      *)
LEMMA OwnerTyped == \A o \in Objects : Owned(o) => OwnerOf[o] \in Objects
BY ObjectAssumption DEF Owned

(* What is above an owned object: itself, and what is above its owner.       *)
LEMMA AboveOwned ==
    ASSUME NEW o \in Objects, Owned(o)
    PROVE  Above(o) = {o} \cup Above(OwnerOf[o])
<1> DEFINE p == OwnerOf[o]
           T == {o} \cup Above(p)
<1>1. p \in Objects BY OwnerTyped
<1>2. p \in Above(p) BY <1>1 DEF Above
<1>3. Closed(Above(p)) BY OwnerTyped DEF Above, Closed
<1>4. T \in SUBSET Objects /\ o \in T /\ Closed(T) BY <1>2, <1>3 DEF Closed, Above
<1>5. Above(o) \subseteq T BY <1>4 DEF Above
<1>6. T \subseteq Above(o)
  <2>1. o \in Above(o) BY DEF Above
  <2>2. ASSUME NEW x \in Above(p), NEW S \in SUBSET Objects, o \in S, Closed(S)
        PROVE  x \in S
    <3>1. p \in S BY <2>2 DEF Closed
    <3> QED BY <2>2, <3>1 DEF Above
  <2> QED BY <2>1, <2>2 DEF Above
<1> QED BY <1>5, <1>6

(* Above the top of a chain there is only itself.                            *)
LEMMA AboveTop ==
    ASSUME NEW o \in Objects, ~Owned(o)
    PROVE  Above(o) = {o}
<1>1. {o} \in SUBSET Objects /\ Closed({o}) BY DEF Closed
<1> QED BY <1>1 DEF Above

(* The recursive definition of TopOf has a solution.                         *)
LEMMA TopOfEquation ==
    TopOf = [o \in Objects |-> IF Owned(o) THEN TopOf[OwnerOf[o]] ELSE o]
<1> DEFINE top(o) == CHOOSE t : t \in {x \in Above(o) : ~Owned(x)}
           F == [o \in Objects |-> top(o)]
<1>1. ASSUME NEW o \in Objects, Owned(o) PROVE top(o) = top(OwnerOf[o])
  <2>1. {x \in Above(o) : ~Owned(x)} = {x \in Above(OwnerOf[o]) : ~Owned(x)}
    BY <1>1, AboveOwned
  <2> QED BY <2>1
<1>2. ASSUME NEW o \in Objects, ~Owned(o) PROVE top(o) = o
  <2>1. {x \in Above(o) : ~Owned(x)} = {o} BY <1>2, AboveTop
  <2> QED BY <2>1
<1> HIDE DEF top
<1>3. F = [o \in Objects |-> IF Owned(o) THEN F[OwnerOf[o]] ELSE o]
  BY <1>1, <1>2, OwnerTyped
<1> HIDE DEF F
<1>4. \E f : f = [o \in Objects |-> IF Owned(o) THEN f[OwnerOf[o]] ELSE o]
  BY <1>3
<1> QED BY <1>4 DEF TopOf

(* One step of the recursion.                                                *)
LEMMA TopOfStep ==
    ASSUME NEW o \in Objects
    PROVE  TopOf[o] = IF Owned(o) THEN TopOf[OwnerOf[o]] ELSE o
<1> DEFINE F(f) == [x \in Objects |-> IF Owned(x) THEN f[OwnerOf[x]] ELSE x]
<1>1. TopOf = F(TopOf) BY TopOfEquation
<1>2. F(TopOf)[o] = IF Owned(o) THEN TopOf[OwnerOf[o]] ELSE o OBVIOUS
<1> QED BY <1>1, <1>2

(* The template named first is one that exists in the pod spec.              *)
LEMMA NaturalMinimum ==
    ASSUME NEW I, I \subseteq Nat, I # {}
    PROVE  Min(I) \in I
<1> DEFINE R == {ss \in Nat \X Nat : ss[1] < ss[2]}
<1>1. IsWellFoundedOn(R, Nat) BY NatLessThanWellFounded DEF OpToRel
<1>2. PICK x \in I : \A y \in I : <<y, x>> \notin R BY <1>1, WFMin
<1>3. ASSUME NEW y \in I PROVE x <= y
  <2>1. x \in Nat /\ y \in Nat OBVIOUS
  <2>2. y < x => <<y, x>> \in R BY <2>1
  <2> QED BY <1>2, <2>1, <2>2
<1> QED BY <1>3 DEF Min

(* So is what FirstTemplate returns.                                         *)
LEMMA FirstTemplateTyped ==
    ASSUME NEW o \in Objects, FirstTemplate(o) # None
    PROVE  FirstTemplate(o) \in Templates
<1> DEFINE I == {k \in 1..Len(ClaimsOf[o]) : ClaimsOf[o][k] # None}
<1>1. ClaimsOf[o] \in Seq(Templates \cup {None}) BY ObjectAssumption
<1>2. I # {} => Min(I) \in I
  <2>1. I \subseteq Nat OBVIOUS
  <2> HIDE DEF I
  <2> QED BY <2>1, NaturalMinimum
<1>3. FirstTemplate(o) = LET k == IF I # {} THEN Min(I) ELSE 0
                         IN  IF k = 0 THEN None ELSE ClaimsOf[o][k]
  BY DEF FirstTemplate, SelectInSeq
<1> DEFINE m == Min(I)
<1>4. I # {} /\ FirstTemplate(o) = ClaimsOf[o][m] BY <1>3
<1>5. m \in I BY <1>2, <1>4
<1> HIDE DEF m
<1>6. m \in 1..Len(ClaimsOf[o]) /\ ClaimsOf[o][m] # None BY <1>5
<1>7. ClaimsOf[o][m] \in Templates \cup {None} BY <1>1, <1>6
<1> QED BY <1>4, <1>6, <1>7

-----------------------------------------------------------------------------
(* The ends of discovery and its loop over the pods.                         *)
LEMMA IdleGood == Idle \in Discoveries /\ Progress(Idle) /\ Idle.pc = "idle"
<1>1. Nothing \in Outcomes BY DEF Nothing, Outcomes, Reasons
<1> QED BY <1>1 DEF Idle, Discoveries, Progress

(* Nothing, an error or a panic needs no justification.                      *)
LEMMA EndsGood ==
    ASSUME d \in Discoveries, NEW r \in Outcomes, r.kind # "found", Ends(r)
    PROVE  d' \in Discoveries /\ Progress(d')
<1>1. d' \in Discoveries /\ d'.pc = "end" /\ d'.res = r BY DEF Ends, Discoveries
<1> QED BY <1>1 DEF Progress

(* The errors are outcomes.                                                  *)
LEMMA ErrorTyped ==
    /\ \A x \in Causes : Error(<<x>>) \in Outcomes
    /\ \A x \in Causes, y \in Objects \cup Templates : Error(<<x, y>>) \in Outcomes
    /\ \A x \in Causes, y, z, u \in Objects \cup {None} : Error(<<x, y, z, u>>) \in Outcomes
    /\ \A why : Error(why).kind = "error"
BY DEF Error, Outcomes, Reasons

(* The next pod, or the end of the loop.                                     *)
LEMMA NextPodGood ==
    ASSUME NEW e \in Discoveries, e.i \in 1..Len(e.pods), DealtWith(e, e.i), NextPod(e)
    PROVE  d' \in Discoveries /\ Progress(d')
<1>0. e.pods \in Seq(Pods) /\ Len(e.pods) \in Nat /\ e.i \in Nat BY DEF Discoveries
<1>1. CASE e.i < Len(e.pods)
  <2>1. d' = [e EXCEPT !.pc = "pod", !.i = e.i + 1] BY <1>1 DEF NextPod
  <2>2. /\ d' \in Discoveries /\ d'.pc = "pod" /\ d'.i = e.i + 1 /\ d'.pods = e.pods
        /\ d'.common = e.common /\ d'.skipped = e.skipped
    <3>1. e.i + 1 \in Nat BY <1>0
    <3> QED BY <2>1, <3>1 DEF Discoveries
  <2>3. d'.i \in 1..Len(d'.pods) /\ d'.i - 1 = e.i BY <1>0, <1>1, <2>2
  <2> QED BY <2>2, <2>3 DEF Progress, DealtWith
<1>2. CASE ~(e.i < Len(e.pods)) /\ e.common = None
  <2>1. d' = [e EXCEPT !.pc = "end", !.res = Nothing] BY <1>2 DEF NextPod
  <2>2. Nothing \in Outcomes /\ Nothing.kind # "found" BY DEF Nothing, Outcomes, Reasons
  <2>3. d' \in Discoveries /\ d'.pc = "end" /\ d'.res = Nothing BY <2>1, <2>2 DEF Discoveries
  <2> QED BY <2>2, <2>3 DEF Progress
<1>3. CASE ~(e.i < Len(e.pods)) /\ e.common # None
  <2>1. d' = [e EXCEPT !.pc = "workload"] BY <1>3 DEF NextPod
  <2>2. /\ d' \in Discoveries /\ d'.pc = "workload" /\ d'.pods = e.pods
        /\ d'.common = e.common /\ d'.skipped = e.skipped
    BY <2>1 DEF Discoveries
  <2>3. e.i = Len(e.pods) /\ e.common \in Objects /\ e.pods # <<>>
    BY <1>0, <1>3 DEF Discoveries
  <2> QED BY <2>2, <2>3 DEF Progress, DealtWith
<1> QED BY <1>1, <1>2, <1>3

(* A pod that is skipped is dealt with; it is not the one that set the       *)
(* common owner.                                                             *)
LEMMA SkipGood ==
    ASSUME d \in Discoveries, d.i \in 1..Len(d.pods), DealtWith(d, d.i - 1), Skip
    PROVE  d' \in Discoveries /\ Progress(d')
<1> DEFINE p == d.pods[d.i]
           e == [d EXCEPT !.skipped = d.skipped \cup {p}]
<1>0. /\ d.pods \in Seq(Pods) /\ d.i \in Nat /\ Len(d.pods) \in Nat
      /\ DOMAIN d.pods = 1..Len(d.pods)
  BY DEF Discoveries
<1>1. p \in Objects BY <1>0 DEF Pods
<1>2. /\ e \in Discoveries /\ e.i = d.i /\ e.pods = d.pods /\ e.common = d.common
      /\ e.skipped = d.skipped \cup {p}
  BY <1>1 DEF Discoveries
<1>3. NextPod(e) BY DEF Skip
<1> HIDE DEF e
<1>4. e.skipped \subseteq {e.pods[j] : j \in 1..e.i}
  BY <1>0, <1>2 DEF DealtWith
<1>5. ASSUME e.common # None
      PROVE  /\ e.i >= 1 /\ e.pods[1] \notin e.skipped
             /\ \A j \in 1..e.i : e.pods[j] \notin e.skipped => TopOf[e.pods[j]] = e.common
  <2>1. d.i - 1 >= 1 /\ d.pods[1] \notin d.skipped BY <1>2, <1>5 DEF DealtWith
  <2>2. p # d.pods[1] BY <1>0, <2>1 DEF DealtWith
  <2>3. \A j \in 1..d.i : j \in 1..(d.i - 1) \/ j = d.i BY <1>0
  <2> QED BY <1>0, <1>2, <1>5, <2>1, <2>2, <2>3 DEF DealtWith
<1>6. DealtWith(e, e.i) BY <1>2, <1>4, <1>5 DEF DealtWith
<1> QED BY <1>2, <1>3, <1>6, NextPodGood

-----------------------------------------------------------------------------
(* The steps of discovery.                                                   *)

(* The list of pods names each of them once.                                 *)
LEMMA ListsGood == IInv /\ ListsSlices => d' \in Discoveries /\ Progress(d')
<1> SUFFICES ASSUME IInv, ListsSlices PROVE d' \in Discoveries /\ Progress(d') OBVIOUS
<1>0. d \in Discoveries /\ Progress(d) /\ endpoints \subseteq Pods /\ d.pc = "slices"
  BY DEF IInv, Surroundings, ListsSlices
<1>1. CASE \E r \in {Nothing, Error(<<"slices">>)} : Ends(r)
  <2>1. Nothing \in Outcomes /\ Nothing.kind # "found" BY DEF Nothing, Outcomes, Reasons
  <2>2. Error(<<"slices">>) \in Outcomes /\ Error(<<"slices">>).kind # "found"
    <3>1. Error(<<"slices">>) \in Outcomes BY ErrorTyped DEF Causes
    <3>2. Error(<<"slices">>).kind # "found" BY DEF Error
    <3> QED BY <3>1, <3>2
  <2> QED BY <1>0, <1>1, <2>1, <2>2, EndsGood
<1>2. ASSUME NEW s \in SetToSeqs(endpoints), s # <<>>,
             d' = [d EXCEPT !.pc = "pod", !.pods = s, !.i = 1]
      PROVE  d' \in Discoveries /\ Progress(d')
  <2>1. IsFiniteSet(endpoints)
    BY <1>0, ObjectAssumption, FS_Subset DEF Pods
  <2>2. Cardinality(endpoints) \in Nat BY <2>1, FS_CardinalityType
  <2>3. /\ s \in Seq(Pods) /\ Len(s) \in Nat /\ DOMAIN s = 1..Len(s)
        /\ \A j, k \in DOMAIN s : s[j] = s[k] => j = k
    <3>1. /\ s \in [1..Cardinality(endpoints) -> endpoints]
          /\ \A j, k \in 1..Cardinality(endpoints) : j # k => s[j] # s[k]
      BY <1>2 DEF SetToSeqs
    <3>2. s \in Seq(Pods) BY <1>0, <2>2, <3>1
    <3> QED BY <3>1, <3>2
  <2>4. 1 \in 1..Len(s) BY <1>2, <2>3
  <2>5. /\ d' \in Discoveries /\ d'.pc = "pod" /\ d'.i = 1 /\ d'.pods = s
        /\ d'.common = None /\ d'.skipped = {}
    BY <1>0, <1>2, <2>3 DEF Discoveries, Progress
  <2> QED BY <2>3, <2>4, <2>5 DEF Progress, DealtWith
<1> QED BY <1>1, <1>2 DEF ListsSlices

(* The walk stays below one top.                                             *)
LEMMA WalkGood ==
    IInv /\ (GetsPod \/ WalkFails \/ WalksUp) => d' \in Discoveries /\ Progress(d')
<1> SUFFICES ASSUME IInv, GetsPod \/ WalkFails \/ WalksUp
             PROVE  d' \in Discoveries /\ Progress(d')
  OBVIOUS
<1>0. /\ d \in Discoveries /\ Progress(d) /\ d.pc \in {"pod", "walk"}
      /\ d.i \in 1..Len(d.pods) /\ DealtWith(d, d.i - 1)
  BY DEF IInv, GetsPod, WalkFails, WalksUp, Progress
<1>1. CASE Skip BY <1>0, <1>1, SkipGood
<1>2. CASE d' = [d EXCEPT !.pc = "walk", !.cur = d.pods[d.i]]
  <2>1. d.pods[d.i] \in Objects BY <1>0 DEF Discoveries, Pods
  <2>2. /\ d' \in Discoveries /\ d'.pc = "walk" /\ d'.cur = d.pods[d.i] /\ d'.i = d.i
        /\ d'.pods = d.pods /\ d'.common = d.common /\ d'.skipped = d.skipped
    BY <1>0, <1>2, <2>1 DEF Discoveries
  <2> QED BY <1>0, <2>1, <2>2 DEF Progress, DealtWith
<1>3. CASE d.pc = "walk" /\ Owned(d.cur) /\ d' = [d EXCEPT !.cur = OwnerOf[d.cur]]
  <2>1. d.cur \in Objects /\ TopOf[d.cur] = TopOf[d.pods[d.i]] BY <1>0, <1>3 DEF Progress
  <2>2. OwnerOf[d.cur] \in Objects BY <1>3, <2>1, OwnerTyped
  <2>3. TopOf[OwnerOf[d.cur]] = TopOf[d.cur] BY <1>3, <2>1, TopOfStep
  <2>4. /\ d' \in Discoveries /\ d'.pc = "walk" /\ d'.cur = OwnerOf[d.cur] /\ d'.i = d.i
        /\ d'.pods = d.pods /\ d'.common = d.common /\ d'.skipped = d.skipped
    BY <1>0, <1>3, <2>2 DEF Discoveries
  <2> QED BY <1>0, <2>1, <2>2, <2>3, <2>4 DEF Progress, DealtWith
<1> QED BY <1>1, <1>2, <1>3 DEF GetsPod, WalkFails, WalksUp

(* The owner of the first pod becomes the common one; that of another pod    *)
(* agrees with it, or discovery ends.                                        *)
LEMMA TopGood == IInv /\ WalkReachesTop => d' \in Discoveries /\ Progress(d')
<1> SUFFICES ASSUME IInv, WalkReachesTop PROVE d' \in Discoveries /\ Progress(d') OBVIOUS
<1>0. /\ d \in Discoveries /\ Progress(d) /\ d.pc = "walk" /\ ~Owned(d.cur)
      /\ d.i \in 1..Len(d.pods) /\ DealtWith(d, d.i - 1)
      /\ d.cur \in Objects /\ TopOf[d.cur] = TopOf[d.pods[d.i]]
  BY DEF IInv, WalkReachesTop, Progress
<1>1. /\ d.pods \in Seq(Pods) /\ d.i \in Nat /\ Len(d.pods) \in Nat /\ d.pods[d.i] \in Objects
      /\ d.common \in Objects \cup {None}
  BY <1>0 DEF Discoveries, Pods
<1>2. TopOf[d.pods[d.i]] = d.cur BY <1>0, TopOfStep
<1>3. CASE d.i = 1 /\ NextPod([d EXCEPT !.common = d.cur])
  <2> DEFINE e == [d EXCEPT !.common = d.cur]
  <2>1. /\ e \in Discoveries /\ e.i = 1 /\ e.pods = d.pods /\ e.common = d.cur
        /\ e.skipped = d.skipped
    BY <1>0, <1>3 DEF Discoveries
  <2> HIDE DEF e
  <2>2. d.skipped = {} BY <1>0, <1>3 DEF DealtWith
  <2>3. DealtWith(e, 1)
    BY <1>0, <1>2, <1>3, <2>1, <2>2 DEF DealtWith
  <2> QED BY <1>0, <1>3, <2>1, <2>3, NextPodGood DEF e
<1>4. CASE d.i > 1 /\ d.common = None /\ Ends(Panic)
  <2>1. Panic \in Outcomes /\ Panic.kind # "found" BY DEF Panic, Outcomes, Reasons
  <2> QED BY <1>0, <1>4, <2>1, EndsGood
<1>5. CASE d.i > 1 /\ d.common = d.cur /\ NextPod(d)
  <2>1. \A j \in 1..d.i : j \in 1..(d.i - 1) \/ j = d.i BY <1>1
  <2>2. d.pods[1] \notin d.skipped /\ d.i >= 1
    BY <1>0, <1>1, <1>5, ObjectAssumption DEF DealtWith, Things
  <2>3. \A j \in 1..d.i : d.pods[j] \notin d.skipped => TopOf[d.pods[j]] = d.common
    BY <1>0, <1>2, <1>5, <2>1, ObjectAssumption DEF DealtWith, Things
  <2>4. DealtWith(d, d.i) BY <1>0, <1>1, <2>2, <2>3 DEF DealtWith
  <2> QED BY <1>0, <1>5, <2>4, NextPodGood
<1>6. CASE Ends(Error(<<"inconsistent", d.pods[d.i], d.cur, d.common>>))
  <2>1. /\ Error(<<"inconsistent", d.pods[d.i], d.cur, d.common>>) \in Outcomes
        /\ Error(<<"inconsistent", d.pods[d.i], d.cur, d.common>>).kind # "found"
    <3> DEFINE p == d.pods[d.i]
    <3>1. p \in Objects \cup {None} /\ d.cur \in Objects \cup {None} BY <1>0, <1>1
    <3> HIDE DEF p
    <3>2. Error(<<"inconsistent", p, d.cur, d.common>>) \in Outcomes
      BY <1>1, <3>1, ErrorTyped DEF Causes
    <3>3. Error(<<"inconsistent", p, d.cur, d.common>>).kind # "found" BY DEF Error
    <3> QED BY <3>2, <3>3 DEF p
  <2> QED BY <1>0, <1>6, <2>1, EndsGood
<1>7. d.i = 1 \/ d.i > 1 BY <1>0, <1>1
<1> QED BY <1>3, <1>4, <1>5, <1>6, <1>7 DEF WalkReachesTop

(* The template is looked for in the pod spec of the common owner.           *)
LEMMA WorkloadGood == IInv /\ GetsWorkload => d' \in Discoveries /\ Progress(d')
<1> SUFFICES ASSUME IInv, GetsWorkload PROVE d' \in Discoveries /\ Progress(d') OBVIOUS
<1>0. /\ d \in Discoveries /\ d.pc = "workload" /\ d.pods # <<>> /\ d.common \in Objects
      /\ DealtWith(d, Len(d.pods))
  BY DEF IInv, GetsWorkload, Progress
<1>1. ASSUME NEW x \in {"reference", "workload", "kind"}, Ends(Error(<<x, d.common>>))
      PROVE  d' \in Discoveries /\ Progress(d')
  <2>1. Error(<<x, d.common>>) \in Outcomes BY <1>0, ErrorTyped DEF Causes
  <2>2. Error(<<x, d.common>>).kind # "found" BY DEF Error
  <2> QED BY <1>0, <1>1, <2>1, <2>2, EndsGood
<1>2. CASE /\ KindOf[d.common] \in WorkloadKinds /\ FirstTemplate(d.common) # None
           /\ d' = [d EXCEPT !.pc = "template", !.tmpl = FirstTemplate(d.common)]
  <2> DEFINE t == FirstTemplate(d.common)
  <2>1. t \in Templates BY <1>0, <1>2, FirstTemplateTyped
  <2> HIDE DEF t
  <2>2. d' = [d EXCEPT !.pc = "template", !.tmpl = t] BY <1>2 DEF t
  <2>3. /\ d' \in Discoveries /\ d'.pc = "template" /\ d'.tmpl = t /\ d'.pods = d.pods
        /\ d'.common = d.common /\ d'.skipped = d.skipped
    BY <1>0, <2>1, <2>2 DEF Discoveries
  <2>4. t = FirstTemplate(d.common) BY DEF t
  <2> QED BY <1>0, <1>2, <2>1, <2>3, <2>4 DEF Progress, DealtWith
<1> QED BY <1>1, <1>2 DEF GetsWorkload

(* What is found is what the last steps have in hand.                        *)
LEMMA TemplateGood == IInv /\ GetsTemplate => d' \in Discoveries /\ Progress(d')
<1> SUFFICES ASSUME IInv, GetsTemplate PROVE d' \in Discoveries /\ Progress(d') OBVIOUS
<1>0. /\ d \in Discoveries /\ d.pc = "template" /\ d.pods # <<>> /\ d.common \in Objects
      /\ DealtWith(d, Len(d.pods))
      /\ d.tmpl \in Templates /\ d.tmpl = FirstTemplate(d.common)
      /\ KindOf[d.common] \in WorkloadKinds
  BY DEF IInv, GetsTemplate, Progress
<1>1. ASSUME NEW x \in {"class", "template"}, Ends(Error(<<x, d.tmpl>>))
      PROVE  d' \in Discoveries /\ Progress(d')
  <2>1. Error(<<x, d.tmpl>>) \in Outcomes BY <1>0, ErrorTyped DEF Causes
  <2>2. Error(<<x, d.tmpl>>).kind # "found" BY DEF Error
  <2> QED BY <1>0, <1>1, <2>1, <2>2, EndsGood
<1>2. CASE ClassMatches(d.tmpl) /\ Ends(Found(d.common, d.tmpl))
  <2> DEFINE r == Found(d.common, d.tmpl)
  <2>1. r \in Outcomes
    <3>1. <<d.common, d.tmpl>> \in Reasons BY <1>0 DEF Reasons
    <3> QED BY <3>1 DEF Found, Outcomes
  <2>2. r = Found(d.common, d.tmpl) OBVIOUS
  <2>3. d' = [d EXCEPT !.pc = "end", !.res = r] BY <1>2 DEF Ends
  <2> HIDE DEF r
  <2>4. /\ d' \in Discoveries /\ d'.pc = "end" /\ d'.tmpl = d.tmpl /\ d'.pods = d.pods
        /\ d'.common = d.common /\ d'.skipped = d.skipped /\ d'.res = r
    BY <1>0, <2>1, <2>3 DEF Discoveries
  <2> QED BY <1>0, <1>2, <2>2, <2>4 DEF Progress, DealtWith
<1> QED BY <1>1, <1>2 DEF GetsTemplate

(* The other steps begin a reconciliation, end it, or leave it alone.        *)
LEMMA ServiceGood == IInv /\ GetsService => d' \in Discoveries /\ Progress(d')
<1> SUFFICES ASSUME IInv, GetsService PROVE d' \in Discoveries /\ Progress(d') OBVIOUS
<1>0. d \in Discoveries /\ Progress(d) /\ d.pc = "service" BY DEF IInv, GetsService
<1>1. CASE d' = [d EXCEPT !.pc = "slices"]
  <2>1. /\ d' \in Discoveries /\ d'.pc = "slices" /\ d'.common = d.common
        /\ d'.skipped = d.skipped /\ d'.res = d.res
    BY <1>0, <1>1 DEF Discoveries
  <2> QED BY <1>0, <2>1 DEF Progress
<1>2. CASE Ends(Error(<<"service">>))
  <2>1. Error(<<"service">>) \in Outcomes BY ErrorTyped DEF Causes
  <2>2. Error(<<"service">>).kind # "found" BY DEF Error
  <2> QED BY <1>0, <1>2, <2>1, <2>2, EndsGood
<1> QED BY <1>1, <1>2 DEF GetsService

(* A reconciliation starts with nothing in hand.                             *)
LEMMA StartGood == RecStarts => d' \in Discoveries /\ Progress(d')
<1> SUFFICES ASSUME RecStarts PROVE d' \in Discoveries /\ Progress(d') OBVIOUS
<1>1. PICK pc \in {"service", "end"} : d' = [Idle EXCEPT !.pc = pc] BY DEF RecStarts
<1>2. Idle \in Discoveries /\ Idle.common = None /\ Idle.skipped = {} /\ Idle.res.kind = "nothing"
  BY IdleGood DEF Idle, Nothing
<1>3. /\ d' \in Discoveries /\ d'.pc = pc /\ d'.common = None
      /\ d'.skipped = {} /\ d'.res.kind = "nothing"
  BY <1>1, <1>2 DEF Discoveries
<1> QED BY <1>3 DEF Progress

(* Every step keeps what is said of the reconciliation under way.            *)
LEMMA NextGood == IInv /\ [Next]_vars => d' \in Discoveries /\ Progress(d')
<1> SUFFICES ASSUME IInv, [Next]_vars PROVE d' \in Discoveries /\ Progress(d') OBVIOUS
<1>1. CASE d' = d BY <1>1 DEF IInv
<1>2. CASE d' = Idle BY <1>2, IdleGood
<1>3. CASE RecStep
  BY <1>2, <1>3, StartGood, ServiceGood, ListsGood, WalkGood, TopGood, WorkloadGood, TemplateGood
  DEF RecStep, RecPanics, RecWrites, RecWriteRefused
<1>4. CASE Cluster BY <1>1, <1>4
  DEF Cluster, Appears, Disappears, EndpointsFollow, MonitorReady
<1> QED BY <1>1, <1>2, <1>3, <1>4 DEF Next, OtherEvent, Crash, vars

-----------------------------------------------------------------------------
(* The rest of the state.                                                    *)

(* What a step may do to it.                                                 *)
LEMMA Moves ==
    [Next]_vars =>
        /\ \/ UNCHANGED live
           \/ \E x \in Volatile : live' = live \cup {x} \/ live' = live \ {x}
        /\ UNCHANGED endpoints \/ endpoints' = live \cap Pods
        /\ UNCHANGED ready \/ ready' = TRUE \/ ready' = FALSE
        /\ \/ UNCHANGED queued \/ queued' = TRUE \/ queued' = FALSE
           \/ queued' = (queued \/ ~ready \/ NewStatus # status)
        /\ UNCHANGED status \/ RecWrites
        /\ UNCHANGED changes \/ Spends
BY DEF Next, RecStep, RecStarts, GetsService, ListsSlices, GetsPod, WalkFails, WalksUp,
       WalkReachesTop, GetsWorkload, GetsTemplate, RecPanics, RecWrites, RecWriteRefused,
       Cluster, Appears, Disappears, EndpointsFollow, MonitorReady, OtherEvent, Crash, vars,
       Answers, Fails

(* Only a discovery that ends with a result writes one to the status.        *)
LEMMA NextSurroundings == IInv /\ [Next]_vars => Surroundings'
<1> SUFFICES ASSUME IInv, [Next]_vars PROVE Surroundings' OBVIOUS
<1>0. MaxChanges \in Nat /\ Volatile \subseteq Things BY ObjectAssumption
<1>1. live' \subseteq Things BY <1>0, Moves DEF IInv, Surroundings
<1>2. endpoints' \subseteq Pods BY Moves DEF IInv, Surroundings
<1>3. ready' \in BOOLEAN
  <2>1. ready \in BOOLEAN BY DEF IInv, Surroundings
  <2> QED BY <2>1, Moves
<1>4. queued' \in BOOLEAN
  <2>1. queued \in BOOLEAN BY DEF IInv, Surroundings
  <2>2. \/ UNCHANGED queued \/ queued' = TRUE \/ queued' = FALSE
        \/ queued' = (queued \/ ~ready \/ NewStatus # status)
    BY Moves
  <2> QED BY <2>1, <2>2, Zenon
<1>5. /\ status'.disc \in {None} \cup {r.why : r \in Results}
      /\ status'.active \in {None, "waiting", "registered"}
  <2>1. /\ status.disc \in {None} \cup {r.why : r \in Results}
        /\ status.active \in {None, "waiting", "registered"}
    BY DEF IInv, Surroundings
  <2>2. CASE UNCHANGED status BY <2>1, <2>2
  <2>3. CASE RecWrites
    <3>1. status' = NewStatus /\ d.pc = "end" BY <2>3 DEF RecWrites
    <3>2. d.res.kind = "found" => d.res.why \in {r.why : r \in Results}
      <4> HAVE d.res.kind = "found"
      <4>1. d.common \in Objects /\ d.tmpl \in Templates /\ d.res = Found(d.common, d.tmpl)
        BY <3>1 DEF IInv, Progress
      <4> QED BY <4>1 DEF Results
    <3> QED BY <2>1, <3>1, <3>2 DEF NewStatus
  <2> QED BY <2>2, <2>3, Moves
<1>6. changes' \in 0..MaxChanges BY <1>0, Moves DEF IInv, Surroundings, Spends
<1> QED BY <1>1, <1>2, <1>3, <1>4, <1>5, <1>6 DEF Surroundings

-----------------------------------------------------------------------------
(* At first there is no reconciliation.                                      *)
LEMMA InitIInv == Init => IInv
<1> SUFFICES ASSUME Init PROVE IInv OBVIOUS
<1>1. live \subseteq Things BY ObjectAssumption DEF Init, Things, Pods
<1>2. endpoints \subseteq Pods BY DEF Init
<1>3. ready \in BOOLEAN /\ queued \in BOOLEAN BY DEF Init
<1>4. /\ status.disc \in {None} \cup {r.why : r \in Results}
      /\ status.active \in {None, "waiting", "registered"}
  BY DEF Init
<1>5. changes \in 0..MaxChanges BY ObjectAssumption DEF Init
<1>6. d \in Discoveries /\ Progress(d) BY IdleGood DEF Init
<1> QED BY <1>1, <1>2, <1>3, <1>4, <1>5, <1>6 DEF IInv, Surroundings

(* The inductive invariant holds in every reachable state.                   *)
LEMMA Invariance == Spec => []IInv
<1>1. Init => IInv BY InitIInv
<1>2. IInv /\ [Next]_vars => IInv' BY NextGood, NextSurroundings DEF IInv
<1> QED BY <1>1, <1>2, PTL DEF Spec

(* TypeOK, for every cluster: a walk always has an object in hand and its    *)
(* position is one of the list, the template is looked for only with a       *)
(* common owner, and the status never records anything but a workload and a  *)
(* template (DiscoverFromService, Reconcile).                                *)
THEOREM DiscoveryTypes == Spec => []TypeOK
<1>1. IInv => TypeOK
  <2> SUFFICES ASSUME IInv PROVE TypeOK OBVIOUS
  <2>1. Surroundings /\ d \in Discoveries /\ Progress(d) BY DEF IInv
  <2>2. d.pc \in {"pod", "walk"} => d.i \in DOMAIN d.pods BY <2>1 DEF Discoveries, Progress
  <2>3. d.pc \in {"idle", "service", "slices", "pod", "walk", "workload", "template", "end"}
    BY <2>1 DEF Discoveries
  <2> QED BY <2>1, <2>2, <2>3 DEF TypeOK, Surroundings, Progress
<1> QED BY <1>1, Invariance, PTL

(* FoundIsRight, for every ownership chain, every order of the pods in the   *)
(* slices and every change of the cluster between two requests: what         *)
(* DiscoverFromService returns is the top owner of every pod that could be   *)
(* read, and the template is the one its pod spec names first.               *)
THEOREM WhatIsFoundIsRight == Spec => []FoundIsRight
<1>1. IInv => FoundIsRight
  <2> SUFFICES ASSUME IInv, d.pc = "end", d.res.kind = "found"
               PROVE  LET o == d.res.why[1]  t == d.res.why[2] IN
                      /\ d.pods[1] \notin d.skipped
                      /\ \A p \in ToSet(d.pods) \ d.skipped : TopOf[p] = o
                      /\ KindOf[o] \in WorkloadKinds
                      /\ t = FirstTemplate(o)
                      /\ Target # None => Target \in ClassesOf[t]
    BY DEF FoundIsRight
  <2>1. /\ d.pods # <<>> /\ d.common \in Objects /\ DealtWith(d, Len(d.pods))
        /\ d.tmpl \in Templates /\ d.tmpl = FirstTemplate(d.common)
        /\ KindOf[d.common] \in WorkloadKinds /\ ClassMatches(d.tmpl)
        /\ d.res = Found(d.common, d.tmpl)
    BY DEF IInv, Progress
  <2>2. d.res.why[1] = d.common /\ d.res.why[2] = d.tmpl BY <2>1 DEF Found
  <2>3. d.common # None BY <2>1, ObjectAssumption DEF Things
  <2>4. d.pods[1] \notin d.skipped BY <2>1, <2>3 DEF DealtWith
  <2>5. ASSUME NEW p \in ToSet(d.pods) \ d.skipped PROVE TopOf[p] = d.common
    <3>1. d.pods \in Seq(Pods) BY DEF IInv, Discoveries
    <3>2. PICK j \in 1..Len(d.pods) : p = d.pods[j] BY <3>1 DEF ToSet
    <3> QED BY <2>1, <2>3, <2>5, <3>2 DEF DealtWith
  <2>6. Target # None => Target \in ClassesOf[d.tmpl] BY <2>1 DEF ClassMatches
  <2> QED BY <2>1, <2>2, <2>4, <2>5, <2>6
<1> QED BY <1>1, Invariance, PTL

-----------------------------------------------------------------------------
(* Once the status has a result no discovery is under way, so that none can  *)
(* end with another one; and the condition tells of that result.             *)
DiscoveredOnce ==
    status.disc # None =>
        /\ d.pc \in {"idle", "end"} /\ d.res.kind = "nothing"
        /\ status.cond = [kind |-> "found", why |-> status.disc]

(* A step with a result in the status: the result and its condition stay,    *)
(* and a reconciliation goes from its start to its end at once.              *)
LEMMA OnceKept ==
    ASSUME DiscoveredOnce, [Next]_vars, status.disc # None
    PROVE  /\ status'.disc = status.disc /\ status'.cond = status.cond
           /\ d'.pc \in {"idle", "end"} /\ d'.res.kind = "nothing"
<1>0. d.pc \in {"idle", "end"} /\ d.res.kind = "nothing" BY DEF DiscoveredOnce
<1>1. status'.disc = status.disc /\ status'.cond = status.cond
  <2>1. CASE UNCHANGED status BY <2>1
  <2>2. CASE RecWrites
    <3>1. status' = NewStatus BY <2>2 DEF RecWrites
    <3> QED BY <1>0, <3>1 DEF NewStatus
  <2> QED BY <2>1, <2>2, Moves
<1>2. Idle.pc = "idle" /\ Idle.res.kind = "nothing" BY DEF Idle, Nothing
<1>3. RecStarts => d'.pc = "end" /\ d'.res.kind = "nothing"
  BY DEF RecStarts, Idle, Nothing
<1>4. RecStarts \/ d' = Idle \/ d' = d
  BY <1>0
  DEF Next, RecStep, GetsService, ListsSlices, GetsPod, WalkFails, WalksUp, WalkReachesTop,
      GetsWorkload, GetsTemplate, RecPanics, RecWrites, RecWriteRefused, Cluster, Appears,
      Disappears, EndpointsFollow, MonitorReady, OtherEvent, Crash, vars
<1>5. d'.pc \in {"idle", "end"} /\ d'.res.kind = "nothing" BY <1>0, <1>2, <1>3, <1>4
<1> QED BY <1>1, <1>5

(* DiscoveredOnce is inductive: a result comes only from a reconciliation    *)
(* that ends, with the condition of the same result.                         *)
LEMMA OnceInductive ==
    ASSUME IInv, DiscoveredOnce, [Next]_vars
    PROVE  DiscoveredOnce'
<1>1. CASE status.disc # None BY <1>1, OnceKept DEF DiscoveredOnce
<1>2. CASE status.disc = None /\ RecWrites
  <2>1. status' = NewStatus /\ d' = Idle /\ d.pc = "end" BY <1>2 DEF RecWrites
  <2>2. d'.pc = "idle" /\ d'.res.kind = "nothing" BY <2>1 DEF Idle, Nothing
  <2>3. status'.disc # None => d.res.kind = "found" /\ status'.disc = d.res.why
    BY <1>2, <2>1 DEF NewStatus
  <2>4. d.res.kind = "found" => status'.cond = d.res BY <2>1 DEF NewStatus
  <2>5. d.res.kind = "found" => d.res = Found(d.common, d.tmpl) BY <2>1 DEF IInv, Progress
  <2>6. d.res.kind = "found" => d.res = [kind |-> "found", why |-> d.res.why]
    BY <2>5 DEF Found
  <2> QED BY <2>2, <2>3, <2>4, <2>6 DEF DiscoveredOnce
<1>3. CASE status.disc = None /\ UNCHANGED status BY <1>3 DEF DiscoveredOnce
<1> QED BY <1>1, <1>2, <1>3, Moves

(* DiscoveryStays, for every cluster and every number of reconciliations,    *)
(* failures and restarts: Reconcile never replaces what DiscoverFromService  *)
(* found, which is what cleanupWorkload goes back to.                        *)
THEOREM DiscoveryIsFinal == Spec => DiscoveryStays
<1>1. Init => DiscoveredOnce BY DEF Init, DiscoveredOnce
<1>2. ASSUME DiscoveredOnce, [Next]_vars
      PROVE  status.disc # None =>
               status'.disc = status.disc
               /\ status'.cond = [kind |-> "found", why |-> status.disc]
  BY <1>2, OnceKept DEF DiscoveredOnce
<1>3. DiscoveredOnce /\ [Next]_vars =>
        [status.disc # None =>
           status'.disc = status.disc
           /\ status'.cond = [kind |-> "found", why |-> status.disc]]_vars
  BY <1>2
<1> QED BY <1>1, <1>3, OnceInductive, Invariance, PTL DEF Spec, DiscoveryStays

-----------------------------------------------------------------------------
(* What ends a reconciliation, as far as it does not depend on fairness.     *)

(* No object owns itself, over however many others.                          *)
Acyclic == \A o \in Objects : Owned(o) => o \notin Above(OwnerOf[o])

(* The steps that may follow a step.                                         *)
After == [p \in {"service", "slices", "pod", "walk", "workload", "template", "end"} |->
            CASE p = "service" -> {"slices", "end"}
              [] p = "slices" -> {"pod", "end"}
              [] p \in {"pod", "walk"} -> {"pod", "walk", "workload", "end"}
              [] p = "workload" -> {"template", "end"}
              [] p = "template" -> {"end"}
              [] p = "end" -> {}]

(* f is further than e: at a later step; in the list of pods, which stays as *)
(* it was read, at the next pod or at the walk from the same one; in a walk  *)
(* one owner higher, with less above it.                                     *)
Further(e, f) ==
    /\ f.pc \in After[e.pc]
    /\ e.pc \in {"pod", "walk"} /\ f.pc = "pod" =>
        f.pods = e.pods /\ f.i = e.i + 1 /\ f.i <= Len(e.pods)
    /\ e.pc \in {"pod", "walk"} /\ f.pc = "walk" => f.pods = e.pods /\ f.i = e.i
    /\ e.pc = "walk" /\ f.pc = "walk" =>
        f.cur = OwnerOf[e.cur] /\ (Acyclic => Above(f.cur) = Above(e.cur) \ {e.cur})

DiscoveryForward == [][d.pc # "idle" => d' = d \/ d' = Idle \/ Further(d, d')]_vars

(* In a walk without cycles what is above an object is used up.              *)
LEMMA LessAbove ==
    ASSUME NEW o \in Objects, Owned(o), Acyclic
    PROVE  Above(OwnerOf[o]) = Above(o) \ {o}
<1>1. Above(o) = {o} \cup Above(OwnerOf[o]) BY AboveOwned
<1>2. o \notin Above(OwnerOf[o]) BY DEF Acyclic
<1> QED BY <1>1, <1>2

(* The end of discovery is further than any step before it.                  *)
LEMMA EndsFurther ==
    ASSUME d \in Discoveries, d.pc \notin {"idle", "end"}, NEW r, Ends(r)
    PROVE  Further(d, d')
<1>1. d'.pc = "end" BY DEF Ends, Discoveries
<1>2. "end" \in After[d.pc] BY DEF After, Discoveries
<1> QED BY <1>1, <1>2 DEF Further

(* So is what follows a pod.                                                 *)
LEMMA NextPodFurther ==
    ASSUME d \in Discoveries, d.pc \in {"pod", "walk"},
           NEW e \in Discoveries, e.pods = d.pods, e.i = d.i, NextPod(e)
    PROVE  Further(d, d')
<1>0. e.i \in Nat /\ Len(e.pods) \in Nat BY DEF Discoveries
<1>1. After[d.pc] = {"pod", "walk", "workload", "end"} BY DEF After
<1>2. CASE e.i < Len(e.pods)
  <2>1. d' = [e EXCEPT !.pc = "pod", !.i = e.i + 1] BY <1>2 DEF NextPod
  <2>2. d'.pc = "pod" /\ d'.i = e.i + 1 /\ d'.pods = e.pods BY <2>1 DEF Discoveries
  <2>3. d'.i = d.i + 1 /\ d'.i <= Len(d.pods) BY <1>0, <1>2, <2>2
  <2> QED BY <1>1, <2>2, <2>3 DEF Further
<1>3. CASE ~(e.i < Len(e.pods))
  <2>1. d'.pc \in {"workload", "end"} BY <1>3 DEF NextPod, Discoveries
  <2> QED BY <1>1, <2>1 DEF Further
<1> QED BY <1>2, <1>3

(* DiscoverFromService and discoverOwner never go back within a              *)
(* reconciliation: every request gets further in the list of pods read at    *)
(* the beginning or, as long as ownership has no cycles, up a chain that     *)
(* ends.  So discovery ends however the cluster changes meanwhile, without   *)
(* a bound on the walk in the code.                                          *)
THEOREM DiscoveryStepsForward == Spec => DiscoveryForward
<1>1. ASSUME IInv, Next, d.pc # "idle" PROVE d' = d \/ d' = Idle \/ Further(d, d')
  <2>0. d \in Discoveries /\ Progress(d) BY <1>1 DEF IInv
  <2>1. ASSUME NEW r, Ends(r), d.pc # "end" PROVE Further(d, d')
    BY <1>1, <2>0, <2>1, EndsFurther
  <2>2. ASSUME d.pc \in {"pod", "walk"}, Skip PROVE Further(d, d')
    <3> DEFINE e == [d EXCEPT !.skipped = @ \cup {d.pods[d.i]}]
    <3>1. d.pods[d.i] \in Objects BY <2>0, <2>2 DEF Progress, Discoveries, Pods
    <3>2. e \in Discoveries /\ e.pods = d.pods /\ e.i = d.i BY <2>0, <3>1 DEF Discoveries
    <3>3. NextPod(e) BY <2>2 DEF Skip
    <3> HIDE DEF e
    <3> QED BY <2>0, <2>2, <3>2, <3>3, NextPodFurther
  <2>3. CASE GetsService
    <3>1. CASE d' = [d EXCEPT !.pc = "slices"]
      <4>1. d.pc = "service" /\ d'.pc = "slices" BY <2>0, <2>3, <3>1 DEF GetsService, Discoveries
      <4> QED BY <4>1 DEF Further, After
    <3> QED BY <2>1, <2>3, <3>1 DEF GetsService
  <2>4. CASE ListsSlices
    <3>1. d.pc = "slices" BY <2>4 DEF ListsSlices
    <3>2. ASSUME NEW s, d' = [d EXCEPT !.pc = "pod", !.pods = s, !.i = 1] PROVE Further(d, d')
      <4>1. d'.pc = "pod" BY <2>0, <3>2 DEF Discoveries
      <4> QED BY <3>1, <4>1 DEF Further, After
    <3> QED BY <2>1, <2>4, <3>1, <3>2 DEF ListsSlices
  <2>5. CASE GetsPod
    <3>1. CASE d' = [d EXCEPT !.pc = "walk", !.cur = d.pods[d.i]]
      <4>1. d.pc = "pod" /\ d'.pc = "walk" /\ d'.pods = d.pods /\ d'.i = d.i
        BY <2>0, <2>5, <3>1 DEF GetsPod, Discoveries
      <4> QED BY <4>1 DEF Further, After
    <3> QED BY <2>2, <2>5, <3>1 DEF GetsPod
  <2>6. CASE WalkFails BY <2>2, <2>6 DEF WalkFails
  <2>7. CASE WalksUp
    <3>1. d.pc = "walk" /\ d.cur \in Objects /\ Owned(d.cur)
      BY <2>0, <2>7 DEF WalksUp, Progress
    <3>2. d'.pc = "walk" /\ d'.pods = d.pods /\ d'.i = d.i /\ d'.cur = OwnerOf[d.cur]
      BY <2>0, <2>7 DEF WalksUp, Discoveries
    <3>3. Acyclic => Above(d'.cur) = Above(d.cur) \ {d.cur} BY <3>1, <3>2, LessAbove
    <3>4. d'.pc \in After[d.pc] BY <3>1, <3>2 DEF After
    <3> QED BY <3>1, <3>2, <3>3, <3>4 DEF Further
  <2>8. CASE WalkReachesTop
    <3>0. d.pc = "walk" /\ d.cur \in Objects BY <2>0, <2>8 DEF WalkReachesTop, Progress
    <3>1. CASE NextPod(d) BY <2>0, <3>0, <3>1, NextPodFurther
    <3>2. CASE NextPod([d EXCEPT !.common = d.cur])
      <4> DEFINE e == [d EXCEPT !.common = d.cur]
      <4>1. e \in Discoveries /\ e.pods = d.pods /\ e.i = d.i BY <2>0, <3>0 DEF Discoveries
      <4> HIDE DEF e
      <4> QED BY <2>0, <3>0, <3>2, <4>1, NextPodFurther DEF e
    <3>3. CASE \E r : Ends(r) BY <2>1, <3>0, <3>3
    <3>4. d.i = 1 \/ d.i > 1 BY <2>0, <3>0 DEF Progress, Discoveries
    <3> QED BY <2>8, <3>1, <3>2, <3>3, <3>4 DEF WalkReachesTop
  <2>9. CASE GetsWorkload
    <3>0. d.pc = "workload" BY <2>9 DEF GetsWorkload
    <3>1. CASE d' = [d EXCEPT !.pc = "template", !.tmpl = FirstTemplate(d.common)]
      <4>1. d'.pc = "template" BY <2>0, <3>1 DEF Discoveries
      <4> QED BY <3>0, <4>1 DEF Further, After
    <3> QED BY <2>1, <2>9, <3>0, <3>1 DEF GetsWorkload
  <2>10. CASE GetsTemplate BY <2>1, <2>10 DEF GetsTemplate
  <2> QED BY <1>1, <2>3, <2>4, <2>5, <2>6, <2>7, <2>8, <2>9, <2>10
      DEF Next, RecStep, RecStarts, RecPanics, RecWrites, RecWriteRefused, Cluster, Appears,
          Disappears, EndpointsFollow, MonitorReady, OtherEvent, Crash
<1>2. IInv /\ [Next]_vars =>
        [d.pc # "idle" => d' = d \/ d' = Idle \/ Further(d, d')]_vars
  BY <1>1
<1> QED BY <1>2, Invariance, PTL DEF Spec, DiscoveryForward
=============================================================================
