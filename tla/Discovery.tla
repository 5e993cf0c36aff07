----------------------------- MODULE Discovery -----------------------------
(***************************************************************************)
(* How an autoscaler finds its workload: DiscoverFromService of            *)
(* internal/discovery/discovery.go, one step per request to the API        *)
(* server, inside the reconciliations that call it and that store what it  *)
(* finds (internal/controller/resourceclaimautoscaler_controller.go),      *)
(* while the cluster changes under it: pods, replica sets, workloads and   *)
(* templates come and go, the endpoint slices lag behind the pods, and a   *)
(* request may fail.                                                       *)
(*                                                                         *)
(* Objects are names; the kind of an object and its controller owner never *)
(* change.  A list of endpoint slices has no order, as it comes out of the *)
(* client's cache: with a pod per slice any order of the pods is possible. *)
(* The work queue is one flag, as it holds an object at most once.  A      *)
(* panic of the reconciler is recovered by controller-runtime and counts   *)
(* as an error.  Deletion of the autoscaler is in ScalingLifecycle.        *)
(***************************************************************************)
EXTENDS Naturals, SequencesExt

CONSTANTS
    Service,      \* the service of spec.target.serviceRef
    Objects,      \* pods, replica sets, workloads and owners of other kinds
    KindOf,       \* their kinds
    OwnerOf,      \* their controller owners, or None
    Templates,    \* ResourceClaimTemplates
    ClassesOf,    \* the device classes of their requests
    ClaimsOf,     \* resource claims of a pod spec: a sequence of the
                  \* templates they name, None for a claim without template
    Target,       \* spec.target.resourceRef.deviceClassName, None if empty
    Volatile,     \* what may come and go
    FirstPods,    \* sets of pods the service may have at first
    MaxChanges,   \* bound on failures, crashes and changes of the cluster
    None

(* The kinds discoverOwner walks through, and those with a pod spec.         *)
WalkedKinds == {"ReplicaSet", "Deployment", "StatefulSet"}
WorkloadKinds == {"Deployment", "StatefulSet", "Pod"}
Pods == {o \in Objects : KindOf[o] = "Pod"}
Things == {Service} \cup Objects \cup Templates

ASSUME ObjectAssumption ==
    /\ IsFiniteSet(Objects) /\ KindOf \in [Objects -> STRING]
    /\ OwnerOf \in [Objects -> Objects \cup {None}]
    /\ ClaimsOf \in [Objects -> Seq(Templates \cup {None})]
    /\ DOMAIN ClassesOf = Templates
    /\ None \notin Things /\ Service \notin Objects \cup Templates
    /\ Objects \cap Templates = {}
    /\ FirstPods \subseteq SUBSET Pods /\ Volatile \subseteq Things
    /\ MaxChanges \in Nat

VARIABLES
    live,       \* what exists in the cluster
    endpoints,  \* the pods that the endpoint slices name
    ready,      \* the shared Monitor is initialized
    status,     \* Discovery and the conditions of the stored status
    queued,     \* the work queue holds the autoscaler
    d,          \* the reconciliation under way
    changes     \* failures, crashes and changes so far

vars == <<live, endpoints, ready, status, queued, d, changes>>

-----------------------------------------------------------------------------
(* What discovery ends with: an owner and a template, nothing, an error, or  *)
(* a panic.                                                                  *)
Found(o, t) == [kind |-> "found", why |-> <<o, t>>]
Error(why) == [kind |-> "error", why |-> why]
Nothing == [kind |-> "nothing", why |-> <<>>]
Panic == [kind |-> "panic", why |-> <<>>]

Idle == [pc |-> "idle", pods |-> <<>>, i |-> 0, cur |-> None, common |-> None,
         tmpl |-> None, skipped |-> {}, res |-> Nothing]

(* The template of the first claim of a pod spec that names one.             *)
FirstTemplate(o) ==
    LET k == SelectInSeq(ClaimsOf[o], LAMBDA t : t # None)
    IN  IF k = 0 THEN None ELSE ClaimsOf[o][k]

ClassMatches(t) == Target = None \/ Target \in ClassesOf[t]

(* discoverOwner goes on as long as there is a controller owner of a kind it *)
(* knows.                                                                    *)
Owned(o) == OwnerOf[o] # None /\ KindOf[OwnerOf[o]] \in WalkedKinds

-----------------------------------------------------------------------------
(* The API server: a Get of x answers, or fails because x does not exist or  *)
(* for no visible reason.                                                    *)
Spends == changes < MaxChanges /\ changes' = changes + 1
Answers(x) == x \in live /\ UNCHANGED changes
Fails(x) == (x \notin live /\ UNCHANGED changes) \/ Spends

Ends(r) == d' = [d EXCEPT !.pc = "end", !.res = r]

(* The loop over the pods of DiscoverFromService goes on with e.             *)
NextPod(e) ==
    d' = IF e.i < Len(e.pods) THEN [e EXCEPT !.pc = "pod", !.i = @ + 1]
         ELSE IF e.common = None THEN [e EXCEPT !.pc = "end", !.res = Nothing]
         ELSE [e EXCEPT !.pc = "workload"]

Skip == NextPod([d EXCEPT !.skipped = @ \cup {d.pods[d.i]}])

Init ==
    /\ \E ps \in FirstPods : live = (Things \ Pods) \cup ps
    /\ endpoints = live \cap Pods
    /\ ready = FALSE
    /\ status = [disc |-> None, cond |-> None, active |-> None]
    /\ queued = TRUE
    /\ d = Idle
    /\ changes = 0

-----------------------------------------------------------------------------
(* A slip: discovery is tried once, whatever comes out of it.                *)
RecTriesOnce ==
    /\ queued /\ d.pc = "idle"
    /\ queued' = FALSE
    /\ d' = [Idle EXCEPT !.pc = IF status.disc = None /\ status.cond = None
                                 THEN "service" ELSE "end"]
    /\ UNCHANGED <<live, endpoints, ready, status, changes>>

(* A slip: discovery runs in every reconciliation.                           *)
RecDiscoversAgain ==
    /\ queued /\ d.pc = "idle"
    /\ queued' = FALSE
    /\ d' = [Idle EXCEPT !.pc = "service"]
    /\ UNCHANGED <<live, endpoints, ready, status, changes>>

(* Reconcile.  Discovery runs only while the status has no result.           *)
RecStarts ==
    /\ queued /\ d.pc = "idle"
    /\ queued' = FALSE
    /\ d' = [Idle EXCEPT !.pc = IF status.disc = None THEN "service" ELSE "end"]
    /\ UNCHANGED <<live, endpoints, ready, status, changes>>

(* DiscoverFromService: the service, and the pods of its endpoint slices.    *)
GetsService ==
    /\ d.pc = "service"
    /\ \/ Answers(Service) /\ d' = [d EXCEPT !.pc = "slices"]
       \/ Fails(Service) /\ Ends(Error(<<"service">>))
    /\ UNCHANGED <<live, endpoints, ready, status, queued>>

ListsSlices ==
    /\ d.pc = "slices"
    /\ \/ /\ \E s \in SetToSeqs(endpoints) :
                IF s = <<>> THEN Ends(Nothing)
                ELSE d' = [d EXCEPT !.pc = "pod", !.pods = s, !.i = 1]
          /\ UNCHANGED changes
       \/ Spends /\ Ends(Error(<<"slices">>))
    /\ UNCHANGED <<live, endpoints, ready, status, queued>>

(* The next pod; one that cannot be read is skipped.                         *)
GetsPod ==
    /\ d.pc = "pod"
    /\ LET p == d.pods[d.i] IN
        \/ Answers(p) /\ d' = [d EXCEPT !.pc = "walk", !.cur = p]
        \/ Fails(p) /\ Skip
    /\ UNCHANGED <<live, endpoints, ready, status, queued>>

(* A slip: what cannot be read is taken for the top of the chain.            *)
WalkFailsAtTop ==
    /\ d.pc = "walk"
    /\ Fails(d.cur)
    /\ IF d.i = 1 THEN NextPod([d EXCEPT !.common = d.cur]) ELSE Skip
    /\ UNCHANGED <<live, endpoints, ready, status, queued>>

(* discoverOwner: from an object to its controller owner.  A failed Get ends *)
(* it without an owner, and the pod is skipped.                              *)
WalkFails ==
    /\ d.pc = "walk"
    /\ Fails(d.cur)
    /\ Skip
    /\ UNCHANGED <<live, endpoints, ready, status, queued>>

WalksUp ==
    /\ d.pc = "walk" /\ Answers(d.cur) /\ Owned(d.cur)
    /\ d' = [d EXCEPT !.cur = OwnerOf[d.cur]]
    /\ UNCHANGED <<live, endpoints, ready, status, queued>>

(* The owner of a pod.  That of the first pod of the list is the common      *)
(* owner; if that pod was skipped there is none, and the comparison with the *)
(* owner of a later pod dereferences nil.                                    *)
WalkReachesTop ==
    /\ d.pc = "walk" /\ Answers(d.cur) /\ ~Owned(d.cur)
    /\ CASE d.i = 1 -> NextPod([d EXCEPT !.common = d.cur])
         [] d.i > 1 /\ d.common = None -> Ends(Panic)
         [] d.i > 1 /\ d.common = d.cur -> NextPod(d)
         [] OTHER -> Ends(Error(<<"inconsistent", d.pods[d.i], d.cur, d.common>>))
    /\ UNCHANGED <<live, endpoints, ready, status, queued>>

(* discoverResourceClaimTemplate: the pod spec of the owner names a template.*)
GetsWorkload ==
    /\ d.pc = "workload"
    /\ \/ /\ Answers(d.common) /\ KindOf[d.common] \in WorkloadKinds
          /\ LET t == FirstTemplate(d.common) IN
                IF t = None THEN Ends(Error(<<"reference", d.common>>))
                ELSE d' = [d EXCEPT !.pc = "template", !.tmpl = t]
       \/ Fails(d.common) /\ Ends(Error(<<"workload", d.common>>))
       \/ /\ KindOf[d.common] \notin WorkloadKinds
          /\ Ends(Error(<<"kind", d.common>>)) /\ UNCHANGED changes
    /\ UNCHANGED <<live, endpoints, ready, status, queued>>

(* The template must exist and ask for the target's device class.            *)
GetsTemplate ==
    /\ d.pc = "template"
    /\ \/ Answers(d.tmpl) /\ Ends(IF ClassMatches(d.tmpl) THEN Found(d.common, d.tmpl)
                                  ELSE Error(<<"class", d.tmpl>>))
       \/ Fails(d.tmpl) /\ Ends(Error(<<"template", d.tmpl>>))
    /\ UNCHANGED <<live, endpoints, ready, status, queued>>

(* A panic ends the reconciliation; as an error it is tried again.           *)
RecPanics ==
    /\ d.pc = "end" /\ d.res.kind = "panic"
    /\ d' = Idle /\ queued' = TRUE
    /\ UNCHANGED <<live, endpoints, ready, status, changes>>

(* A slip: nothing found counts as a result.                                 *)
StatusOfNothing ==
    [disc |-> IF d.res.kind = "nothing" THEN <<>>
              ELSE IF d.res.kind = "found" THEN d.res.why ELSE status.disc,
     cond |-> IF d.res.kind = "nothing" THEN status.cond ELSE d.res,
     active |-> IF ready THEN "registered" ELSE "waiting"]

(* The status of the reconciler's copy: the result and its condition, and    *)
(* whether monitoring is active.  Nothing found leaves no condition.         *)
NewStatus ==
    [disc |-> IF d.res.kind = "found" THEN d.res.why ELSE status.disc,
     cond |-> IF d.res.kind = "nothing" THEN status.cond ELSE d.res,
     active |-> IF ready THEN "registered" ELSE "waiting"]

(* A slip: the condition starts as unknown in every reconciliation, with a   *)
(* status update of its own.                                                 *)
RecWritesTwice ==
    /\ d.pc = "end" /\ d.res.kind # "panic"
    /\ status' = IF status.cond = NewStatus.cond /\ status.disc = None
                 THEN [status EXCEPT !.cond = None] ELSE NewStatus
    /\ queued' = (queued \/ ~ready \/ status' # status)
    /\ d' = Idle
    /\ UNCHANGED <<live, endpoints, ready, changes>>

(* The status update, which makes a new event if it changes the object.      *)
(* Without a Monitor the autoscaler is queued again after 30 seconds.        *)
RecWrites ==
    /\ d.pc = "end" /\ d.res.kind # "panic"
    /\ status' = NewStatus
    /\ queued' = (queued \/ ~ready \/ NewStatus # status)
    /\ d' = Idle
    /\ UNCHANGED <<live, endpoints, ready, changes>>

(* It is refused, which is an error or, without a Monitor, only logged: both *)
(* ways the autoscaler is queued again.                                      *)
RecWriteRefused ==
    /\ d.pc = "end" /\ d.res.kind # "panic"
    /\ Spends
    /\ queued' = TRUE
    /\ d' = Idle
    /\ UNCHANGED <<live, endpoints, ready, status>>

-----------------------------------------------------------------------------
(* The cluster.  Nothing here makes an event of the autoscaler: the          *)
(* controller watches neither services nor endpoint slices, pods or          *)
(* workloads.                                                                *)
Appears(x) ==
    /\ x \notin live /\ Spends
    /\ live' = live \cup {x}
    /\ UNCHANGED <<endpoints, ready, status, queued, d>>

Disappears(x) ==
    /\ x \in live /\ Spends
    /\ live' = live \ {x}
    /\ UNCHANGED <<endpoints, ready, status, queued, d>>

(* The endpoint slice controller catches up with the pods.                   *)
EndpointsFollow ==
    /\ endpoints # live \cap Pods
    /\ endpoints' = live \cap Pods
    /\ UNCHANGED <<live, ready, status, queued, d, changes>>

(* The config reconciler shares a Monitor.                                   *)
MonitorReady ==
    /\ ~ready /\ ready' = TRUE
    /\ UNCHANGED <<live, endpoints, status, queued, d, changes>>

(* An event of the autoscaler that its reconciler did not make: a status     *)
(* update of a scaling call, or the resync of the client's cache.            *)
OtherEvent ==
    /\ ~queued /\ queued' = TRUE
    /\ UNCHANGED <<live, endpoints, ready, status, d, changes>>

(* The controller starts again, without a Monitor, and with it come events   *)
(* of all objects.                                                           *)
Crash ==
    /\ Spends
    /\ d' = Idle /\ queued' = TRUE /\ ready' = FALSE
    /\ UNCHANGED <<live, endpoints, status>>

-----------------------------------------------------------------------------
RecStep ==
    \/ RecStarts \/ GetsService \/ ListsSlices \/ GetsPod \/ WalkFails
    \/ WalksUp \/ WalkReachesTop \/ GetsWorkload \/ GetsTemplate
    \/ RecPanics \/ RecWrites \/ RecWriteRefused

Cluster ==
    \/ \E x \in Volatile : Appears(x) \/ Disappears(x)
    \/ EndpointsFollow \/ MonitorReady

Next == RecStep \/ Cluster \/ OtherEvent \/ Crash

Spec == Init /\ [][Next]_vars

(* The reconciler's worker runs, the slices catch up, and the client's cache *)
(* is synchronized again every ten hours.                                    *)
FairSpec ==
    /\ Spec
    /\ WF_vars(RecStep) /\ WF_vars(EndpointsFollow) /\ WF_vars(OtherEvent)

-----------------------------------------------------------------------------
Results == {Found(o, t) : o \in Objects, t \in Templates}

(* Types.  The walk has an object, and the template is looked for with a     *)
(* common owner in hand.                                                     *)
TypeOK ==
    /\ live \subseteq Things
    /\ endpoints \subseteq Pods
    /\ ready \in BOOLEAN /\ queued \in BOOLEAN
    /\ status.disc \in {None} \cup {r.why : r \in Results}
    /\ status.active \in {None, "waiting", "registered"}
    /\ d.pc \in {"idle", "service", "slices", "pod", "walk", "workload", "template", "end"}
    /\ d.pc \in {"pod", "walk"} => d.i \in DOMAIN d.pods
    /\ d.pc = "walk" => d.cur \in Objects
    /\ d.pc \in {"workload", "template"} => d.common \in Objects
    /\ d.pc = "template" => d.tmpl \in Templates
    /\ changes \in 0..MaxChanges

(* The top of the ownership chain, as discoverOwner's comment has it.        *)
TopOf[o \in Objects] == IF Owned(o) THEN TopOf[OwnerOf[o]] ELSE o

(* What is found is right however the cluster changed on the way: the owner  *)
(* is the top of the chain of the first pod and of every pod that was not    *)
(* skipped, it is a workload with a pod spec, and the template is the one it *)
(* names first and has the target's device class.  An object that vanished   *)
(* during the walk never turns into a wrong owner (DiscoverFromService,      *)
(* discoverOwner, discoverResourceClaimTemplate).                            *)
FoundIsRight ==
    d.pc = "end" /\ d.res.kind = "found" =>
        LET o == d.res.why[1]  t == d.res.why[2] IN
        /\ d.pods[1] \notin d.skipped
        /\ \A p \in ToSet(d.pods) \ d.skipped : TopOf[p] = o
        /\ KindOf[o] \in WorkloadKinds
        /\ t = FirstTemplate(o)
        /\ Target # None => Target \in ClassesOf[t]

(* What was discovered stays, and the condition agrees with it: no later     *)
(* reconciliation, however it ends, no restart and no change of the cluster  *)
(* replaces the workload and the template that a deletion goes back to, or   *)
(* reports a failure for them (Reconcile).                                   *)
DiscoveryStays ==
    [][status.disc # None =>
        status'.disc = status.disc
        /\ status'.cond = [kind |-> "found", why |-> status.disc]]_vars

(* The cluster is as discovery wants it.                                     *)
Discoverable ==
    /\ Service \in live /\ live \cap Pods # {}
    /\ \E o \in live \cap Objects :
        /\ \A p \in live \cap Pods : TopOf[p] = o
        /\ KindOf[o] \in WorkloadKinds
        /\ FirstTemplate(o) \in live /\ ClassMatches(FirstTemplate(o))
    /\ \A x \in live \cap Objects : Owned(x) => OwnerOf[x] \in live

(* A cluster that stays as discovery wants it is discovered at last, even if *)
(* there were no pods, failures, panics or conflicts before, and although no *)
(* change of the cluster queues the autoscaler (Reconcile).                  *)
DiscoveredAtLast == <>[]Discoverable => <>(status.disc # None)

Mixed == \E p, q \in live \cap Pods : TopOf[p] # TopOf[q]

(* The reconciler does not keep itself busy: its own status updates, which   *)
(* queue the autoscaler again, come to an end when the cluster stays as it   *)
(* is, whatever discovery ends with; unless the pods have different owners,  *)
(* when the message names them in the order of the list (Reconcile).         *)
StatusSettles == <>[]~Mixed => <>[][status' = status]_vars
=============================================================================
