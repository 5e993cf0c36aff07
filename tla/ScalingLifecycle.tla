-------------------------- MODULE ScalingLifecycle --------------------------
(***************************************************************************)
(* One autoscaler object, its workload and its claim templates, and every  *)
(* process of the controller that writes them:                             *)
(*  - the reconciler (one worker): finalizer, discovery, registration, and *)
(*    the restoration of the workload when the object is deleted           *)
(*    (internal/controller/resourceclaimautoscaler_controller.go);         *)
(*  - scaling calls: the goroutines of notifyScalingAction, several of     *)
(*    which may overlap (internal/scaler/scaler.go and                     *)
(*    resourceclaim_handler.go);                                           *)
(*  - claim handlers: the goroutines the claim predicates start.           *)
(* Between them is the API server.  Each request is one step; an update is *)
(* rejected unless its sender read or wrote the stored version, and any    *)
(* request may fail when Faulty.  The controller may crash at every step.  *)
(*                                                                         *)
(* The decision itself is DetermineScalingAction of ScalingAction.  The    *)
(* service monitor is reduced to what this module needs of ServiceMonitor: *)
(* a registered autoscaler gets calls again and again, and an unregistered *)
(* one at most the two that its loop still holds.                          *)
(*                                                                         *)
(* Left out: ready/available counts, conditions, latency estimates (they   *)
(* only make the write a change of the object), and the second owner kind, *)
(* which the code treats like the first.  The Get and the Update of the    *)
(* workload in one function are one step: a write in between makes the     *)
(* Update fail, which is the failing outcome of the step.                  *)
(***************************************************************************)
EXTENDS ScalingAction, FiniteSets

CONSTANTS
    Calls, Handlers,  \* identities of goroutines: how many may run at a time
    Claims,           \* how many managed ResourceClaims exist at a time
    Desired,          \* configurations FindOptimalConfiguration may return
    OrigSize,         \* the device request of the original template
    DefaultSize,      \* what is assumed when no template can be read
    MinReplicas,      \* spec.constraints.minReplicas
    Behavior,         \* spec.behavior and spec.minTargetUtilization
    MaxGen,           \* bound on the generations of the workload
    Faulty,           \* whether API requests may fail for no visible reason
    None

(* What a template asks for, and what an evaluation asks for.                *)
Size(x) == [g |-> x.g, c |-> x.c, m |-> x.m]
Sizes == [g : Nat \ {0}, c : Nat, m : Nat]
Configs == Config(Nat, Nat \ {0}, Nat, Nat)
Directions == {"ScaleUp", "ScaleDown"}

(* Templates: the original one, and one per generation of the workload, as   *)
(* the name of a managed template is a hash of the generation.               *)
Orig == 0
Managed == 1..MaxGen
Names == {Orig} \cup Managed

Rec == "reconciler"
Procs == {Rec} \cup Calls \cup Handlers

(* An unregistered loop may still deliver the trigger it works on and the    *)
(* one its channel holds.  It need not: no call is bound to start.           *)
MaxLate == 2

ASSUME ProcAssumption ==
    /\ Calls \cap Handlers = {} /\ Rec \notin Calls \cup Handlers
    /\ MaxGen \in Nat \ {0} /\ MinReplicas \in Nat /\ Faulty \in BOOLEAN
    /\ None \notin Nat /\ None \notin Sizes /\ None \notin Configs
    /\ None \notin Directions

ASSUME ConfigAssumption ==
    /\ Desired \subseteq Configs
    /\ OrigSize \in Sizes /\ DefaultSize \in Sizes
    /\ Behavior.upLimit \in Nat /\ Behavior.downLimit \in Nat

VARIABLES
    a,           \* the ResourceClaimAutoscaler object
    w,           \* the Deployment or StatefulSet
    tpl,         \* device requests of the ResourceClaimTemplates, by name
    claim,       \* the managed ResourceClaims
    current,     \* the processes whose copy of the object is the stored one
    registered,  \* ServiceMonitor.IsRegistered
    late,        \* triggers an unregistered loop may still deliver
    rec,         \* the reconciler
    call,        \* the scaling calls
    handler      \* the claim handlers

vars == <<a, w, tpl, claim, current, registered, late, rec, call, handler>>

-----------------------------------------------------------------------------
(* The object's life: without a finalizer, with it, with a deletion          *)
(* timestamp, gone.  disc is Status.Discovery.ResourceClaim; repl and tmpl   *)
(* are DesiredReplicas and DesiredClaimTemplate of the scaling status;       *)
(* grace holds the directions whose grace period since LastApplyTime has not *)
(* elapsed.                                                                  *)
Object == [life : {"new", "active", "deleting", "gone"},
           disc : Names \cup {None}, repl : Nat \cup {None},
           tmpl : Names \cup {None}, grace : SUBSET Directions]

Workload == [repl : Nat, tmpl : Names, gen : Nat \ {0}]

IdleRec == [pc |-> "idle", disc |-> None, dirty |-> FALSE]
IdleCall == [pc |-> "idle", des |-> None, act |-> None, then |-> "idle",
             cur |-> None, new |-> None]
IdleHandler == [pc |-> "idle", bound |-> FALSE, tmpl |-> None, des |-> None,
                victims |-> {}]

(* The template in force according to a scaling status: the desired one if   *)
(* there is one, otherwise the discovered one.                               *)
CurrentTemplate(disc, tmpl) == IF tmpl # None THEN tmpl ELSE disc
Readable(n) == n \in Names /\ tpl[n] # None

-----------------------------------------------------------------------------
(* The API server.                                                           *)

(* Process p reads the object, or is done with its copy.                     *)
Reads(p) == current' = current \cup {p}
Drops(p) == current' = current \ {p}

(* Process p replaces the object by x: all other copies are out of date.     *)
(* The response of the server renews the copy of p, which p may keep.        *)
Writes(p, x, keep) ==
    /\ p \in current
    /\ a' = x /\ current' = keep

(* A last status update of p that changes nothing modelled here: the         *)
(* conditions or counts it writes differ, or nothing does and the version    *)
(* stays.                                                                    *)
Touches(p) ==
    /\ p \in current
    /\ current' \in {current \ {p}, {}} /\ UNCHANGED a

(* A request of p on the object is refused: its copy is old, the object is   *)
(* gone, or something failed.                                                *)
Refused(p) ==
    /\ p \notin current \/ Faulty
    /\ Drops(p) /\ UNCHANGED a

(* A spec update of the workload increments its generation if it changes it. *)
UpdatesWorkload(repl, tmpl) ==
    w' = IF repl = w.repl /\ tmpl = w.tmpl THEN w
         ELSE [repl |-> repl, tmpl |-> tmpl, gen |-> w.gen + 1]

-----------------------------------------------------------------------------
Init ==
    /\ a = [life |-> "new", disc |-> None, repl |-> None, tmpl |-> None,
            grace |-> {}]
    /\ w = [repl |-> 1, tmpl |-> Orig, gen |-> 1]
    /\ tpl = [n \in Names |-> IF n = Orig THEN OrigSize ELSE None]
    /\ claim = [k \in Claims |-> None]
    /\ current = {}
    /\ registered = FALSE
    /\ late = 0
    /\ rec = IdleRec
    /\ call = [c \in Calls |-> IdleCall]
    /\ handler = [h \in Handlers |-> IdleHandler]

-----------------------------------------------------------------------------
(* The reconciler.                                                           *)

(* Get: not found.  The autoscaler is unregistered.                          *)
RecFindsNothing ==
    /\ rec.pc = "idle" /\ a.life = "gone"
    /\ registered' = FALSE
    /\ late' = IF registered THEN MaxLate ELSE late
    /\ UNCHANGED <<a, w, tpl, claim, current, rec, call, handler>>

(* A slip: an object without the finalizer is reconciled at once.            *)
RecSkipsFinalizer ==
    /\ rec.pc = "idle" /\ a.life # "gone"
    /\ rec' = [pc |-> IF a.life = "deleting" THEN "unregister" ELSE "discover",
               disc |-> a.disc, dirty |-> FALSE]
    /\ Reads(Rec)
    /\ UNCHANGED <<a, w, tpl, claim, registered, late, call, handler>>

(* Get, and the branches on the deletion timestamp and the finalizer.        *)
RecGets ==
    /\ rec.pc = "idle" /\ a.life # "gone"
    /\ rec' = [pc |-> CASE a.life = "new" -> "addfin"
                        [] a.life = "active" -> "discover"
                        [] a.life = "deleting" -> "unregister",
               disc |-> a.disc, dirty |-> FALSE]
    /\ Reads(Rec)
    /\ UNCHANGED <<a, w, tpl, claim, registered, late, call, handler>>

(* The finalizer is added; success and failure both end in a new run.        *)
RecAddsFinalizer ==
    /\ rec.pc = "addfin"
    /\ Writes(Rec, [a EXCEPT !.life = "active"], {}) \/ Refused(Rec)
    /\ rec' = IdleRec
    /\ UNCHANGED <<w, tpl, claim, registered, late, call, handler>>

(* A slip: discovery runs in every reconciliation.                           *)
RecRediscovers ==
    /\ rec.pc = "discover"
    /\ \E d \in {w.tmpl, rec.disc} :
          rec' = [pc |-> "register", disc |-> d, dirty |-> TRUE]
    /\ UNCHANGED <<a, w, tpl, claim, current, registered, late, call, handler>>

(* DiscoverFromService, only while Status.Discovery is nil.  It finds the    *)
(* template that the pods of the service use, or fails; a failure does not   *)
(* stop the reconciliation.  dirty: some condition was set.                  *)
RecDiscovers ==
    /\ rec.pc = "discover"
    /\ \E d \in IF rec.disc = None THEN {w.tmpl, None} ELSE {rec.disc} :
          rec' = [pc |-> "register", disc |-> d, dirty |-> rec.disc = None]
    /\ UNCHANGED <<a, w, tpl, claim, current, registered, late, call, handler>>

(* RegisterWithCollector, or UpdateCachedSpec if registered; or neither, as  *)
(* long as the shared Monitor is not initialized.                            *)
RecRegisters ==
    /\ rec.pc = "register"
    /\ registered' \in {registered, TRUE}
    /\ rec' = [rec EXCEPT !.pc = "status", !.dirty = @ \/ ~registered]
    /\ UNCHANGED <<a, w, tpl, claim, current, late, call, handler>>

(* Status().Update with the discovery result and the conditions; if there is *)
(* nothing new in it the stored version stays.                               *)
RecUpdatesStatus ==
    /\ rec.pc = "status"
    /\ \/ a.disc # rec.disc /\ Writes(Rec, [a EXCEPT !.disc = rec.disc], {})
       \/ a.disc = rec.disc /\ rec.dirty /\ Touches(Rec)
       \/ a.disc = rec.disc /\ ~rec.dirty /\ Rec \in current /\ Drops(Rec) /\ UNCHANGED a
       \/ Refused(Rec)
    /\ rec' = IdleRec
    /\ UNCHANGED <<w, tpl, claim, registered, late, call, handler>>

(* Slips: the deletion branch does not unregister; it cleans up without a    *)
(* discovery result; it stops at the error of Unregister for an autoscaler   *)
(* that is not registered.                                                   *)
RecKeepsMonitoring ==
    /\ rec.pc = "unregister"
    /\ rec' = [rec EXCEPT !.pc = IF rec.disc = None THEN "finalize" ELSE "cleanup"]
    /\ UNCHANGED <<a, w, tpl, claim, current, registered, late, call, handler>>
RecCleansUpBlindly ==
    /\ rec.pc = "unregister"
    /\ registered' = FALSE
    /\ rec' = [rec EXCEPT !.pc = "cleanup"]
    /\ UNCHANGED <<a, w, tpl, claim, current, late, call, handler>>
RecStopsAtError ==
    /\ rec.pc = "unregister"
    /\ registered' = FALSE
    /\ rec' = IF ~registered THEN IdleRec
              ELSE [rec EXCEPT !.pc = IF rec.disc = None THEN "finalize" ELSE "cleanup"]
    /\ UNCHANGED <<a, w, tpl, claim, current, late, call, handler>>

(* Deletion, first step: Unregister.  Its error is only logged.              *)
RecUnregisters ==
    /\ rec.pc = "unregister"
    /\ registered' = FALSE
    /\ late' = IF registered THEN MaxLate ELSE late
    /\ rec' = [rec EXCEPT !.pc = IF rec.disc = None THEN "finalize" ELSE "cleanup"]
    /\ UNCHANGED <<a, w, tpl, claim, current, call, handler>>

(* A slip: only the template that the status knows is replaced.              *)
RecRestoresKnownTemplate ==
    /\ rec.pc = "cleanup"
    /\ UpdatesWorkload(MinReplicas,
           IF w.tmpl = CurrentTemplate(a.disc, a.tmpl) THEN rec.disc ELSE w.tmpl)
    /\ rec' = [IdleRec EXCEPT !.pc = "finalize"]
    /\ UNCHANGED <<a, tpl, claim, current, registered, late, call, handler>>

(* cleanupWorkload: replicas and template in one update, whatever template   *)
(* the workload has now.                                                     *)
RecCleansUp ==
    /\ rec.pc = "cleanup"
    /\ UpdatesWorkload(MinReplicas, rec.disc)
    /\ rec' = [IdleRec EXCEPT !.pc = "finalize"]
    /\ UNCHANGED <<a, tpl, claim, current, registered, late, call, handler>>

RecCleanUpFails ==
    /\ rec.pc = "cleanup" /\ Faulty
    /\ rec' = IdleRec
    /\ Drops(Rec)
    /\ UNCHANGED <<a, w, tpl, claim, registered, late, call, handler>>

(* The finalizer is removed, and with it the object.                         *)
RecFinalizes ==
    /\ rec.pc = "finalize"
    /\ Writes(Rec, [a EXCEPT !.life = "gone"], {})
    /\ rec' = IdleRec
    /\ UNCHANGED <<w, tpl, claim, registered, late, call, handler>>

RecFinalizeFails ==
    /\ rec.pc = "finalize"
    /\ Refused(Rec)
    /\ rec' = IdleRec
    /\ UNCHANGED <<w, tpl, claim, registered, late, call, handler>>

-----------------------------------------------------------------------------
(* A scaling call.                                                           *)

Goes(c, pc) == call' = [call EXCEPT ![c].pc = pc]
Ends(c) == call' = [call EXCEPT ![c] = IdleCall]

(* EvaluateAndScale returned an error: handleScalingAction reports it.       *)
Report == [IdleCall EXCEPT !.pc = "report"]
Fails(c) == call' = [call EXCEPT ![c] = Report] /\ Drops(c)

(* The monitoring loop starts handleScalingAction, and the optimizer finds   *)
(* some configuration; or it finds none, which is an error.                  *)
CallStarts(c) ==
    /\ call[c].pc = "idle"
    /\ registered \/ late > 0
    /\ late' = IF registered THEN late ELSE late - 1
    /\ \/ \E d \in Desired :
             call' = [call EXCEPT ![c] = [IdleCall EXCEPT !.pc = "get", !.des = d]]
       \/ call' = [call EXCEPT ![c] = Report]
    /\ UNCHANGED <<a, w, tpl, claim, current, registered, rec, handler>>

(* applyScalingAction reads the object; without it the call fails.           *)
CallGets(c) ==
    /\ call[c].pc = "get"
    /\ \/ a.life # "gone" /\ Reads(c) /\ Goes(c, "decide")
       \/ (a.life = "gone" \/ Faulty) /\ Fails(c)
    /\ UNCHANGED <<a, w, tpl, claim, registered, late, rec, handler>>

(* The configuration in force as determineScalingAction sees it: replicas    *)
(* from the status, the rest from the template in force, or defaults when    *)
(* there is none to read.                                                    *)
SeenReplicas == IF a.repl = None THEN 1 ELSE a.repl
SeenSize ==
    LET t == CurrentTemplate(a.disc, a.tmpl)
    IN  IF a.disc # None /\ Readable(t) THEN tpl[t] ELSE DefaultSize
Seen(size) == [r |-> SeenReplicas, g |-> size.g, c |-> size.c, m |-> size.m]

(* determineScalingAction and checkGracePeriod.  A copy that is not the      *)
(* stored object any more may say anything: whatever is decided from it, the *)
(* update that follows is refused.                                           *)
CallDecides(c) ==
    /\ call[c].pc = "decide"
    /\ \/ /\ c \in current
          /\ \E size \in {SeenSize} \cup (IF Faulty THEN {DefaultSize} ELSE {}) :
             LET dec == DetermineScalingAction(Behavior, Seen(size), call[c].des, 1)
             IN  \/ /\ dec.action = "None" \/ dec.action \in a.grace
                    /\ Ends(c) /\ Drops(c)
                 \/ /\ dec.action # "None" /\ dec.action \notin a.grace
                    /\ call' = [call EXCEPT ![c] =
                        [pc |-> "record", des |-> dec.desired, act |-> dec.action,
                         then |-> IF dec.resourceChange THEN "base"
                                  ELSE IF dec.replicaChange /\ a.disc # None
                                       THEN "refresh" ELSE "idle",
                         cur |-> CurrentTemplate(a.disc, a.tmpl), new |-> None]]
                    /\ UNCHANGED current
       \/ /\ c \notin current
          /\ Ends(c) \/ Goes(c, "record")
          /\ UNCHANGED current
    /\ UNCHANGED <<a, w, tpl, claim, registered, late, rec, handler>>

(* A slip: the status is patched without a version.                          *)
CallRecordsUnchecked(c) ==
    /\ call[c].pc = "record"
    /\ a' = [a EXCEPT !.repl = call[c].des.r, !.grace = Directions]
    /\ current' = {c}
    /\ IF call[c].then = "idle" THEN Ends(c)
       ELSE call' = [call EXCEPT ![c] = [IdleCall EXCEPT
                !.pc = call[c].then, !.des = call[c].des, !.cur = call[c].cur]]
    /\ UNCHANGED <<w, tpl, claim, registered, late, rec, handler>>

(* updateScalingStatus: the decision is recorded before it is carried out.   *)
CallRecords(c) ==
    /\ call[c].pc = "record"
    /\ Writes(c, [a EXCEPT !.repl = call[c].des.r, !.grace = Directions],
              IF call[c].then = "idle" THEN {} ELSE {c})
    /\ IF call[c].then = "idle" THEN Ends(c)
       ELSE call' = [call EXCEPT ![c] = [IdleCall EXCEPT
                !.pc = call[c].then, !.des = call[c].des, !.cur = call[c].cur]]
    /\ UNCHANGED <<w, tpl, claim, registered, late, rec, handler>>

CallRecordRefused(c) ==
    /\ call[c].pc = "record"
    /\ Refused(c)
    /\ Fails(c)
    /\ UNCHANGED <<w, tpl, claim, registered, late, rec, handler>>

(* A slip: the generation that was rolled out last, as in the status.        *)
ObservedRevision == IF w.gen = 1 THEN 1 ELSE w.gen - 1

(* getOwnerRevision, from which the name of the new template is made, and    *)
(* the comparison of a template of that name with the configuration, whose   *)
(* compute may have a fraction that no template has.                         *)
OwnerRevision == w.gen
TemplateMatchesDesiredConfig(n, des) == tpl[n] = Size(des)

(* patchResourceClaimTemplate reads the template it starts from, then the    *)
(* generation of the workload, which names the new template.                 *)
CallReadsBase(c) ==
    /\ call[c].pc = "base"
    /\ \/ Readable(call[c].cur) /\ Goes(c, "revision") /\ UNCHANGED current
       \/ (Faulty \/ ~Readable(call[c].cur)) /\ Fails(c)
    /\ UNCHANGED <<a, w, tpl, claim, registered, late, rec, handler>>

CallReadsRevision(c) ==
    /\ call[c].pc = "revision"
    /\ w.gen <= MaxGen
    /\ \/ /\ call' = [call EXCEPT ![c].new = OwnerRevision, ![c].pc = "look"]
          /\ UNCHANGED current
       \/ Faulty /\ Fails(c)
    /\ UNCHANGED <<a, w, tpl, claim, registered, late, rec, handler>>

(* Is there a template of that name, and does it match?                      *)
CallLooks(c) ==
    /\ call[c].pc = "look"
    /\ \/ /\ Goes(c, IF tpl[call[c].new] = None THEN "create"
                     ELSE IF TemplateMatchesDesiredConfig(call[c].new, call[c].des)
                          THEN "patch" ELSE "delete")
          /\ UNCHANGED current
       \/ Faulty /\ Fails(c)
    /\ UNCHANGED <<a, w, tpl, claim, registered, late, rec, handler>>

(* A template of the same name and another content is deleted first; that    *)
(* somebody else deleted it meanwhile is an error.                           *)
CallDeletesOutdated(c) ==
    /\ call[c].pc = "delete"
    /\ \/ /\ tpl[call[c].new] # None
          /\ tpl' = [tpl EXCEPT ![call[c].new] = None]
          /\ Goes(c, "create") /\ UNCHANGED current
       \/ (Faulty \/ tpl[call[c].new] = None) /\ Fails(c) /\ UNCHANGED tpl
    /\ UNCHANGED <<a, w, claim, registered, late, rec, handler>>

(* Create, which fails if the name is taken.  Compute is stored without the  *)
(* fraction.                                                                 *)
CallCreates(c) ==
    /\ call[c].pc = "create"
    /\ \/ /\ tpl[call[c].new] = None
          /\ tpl' = [tpl EXCEPT ![call[c].new] =
                        [Size(call[c].des) EXCEPT !.c = StoredCompute(@)]]
          /\ Goes(c, "patch") /\ UNCHANGED current
       \/ (Faulty \/ tpl[call[c].new] # None) /\ Fails(c) /\ UNCHANGED tpl
    /\ UNCHANGED <<a, w, claim, registered, late, rec, handler>>

(* patchPodOwner: replicas are set, and references to the template that the  *)
(* call believes in force are replaced by the new one.                       *)
CallPatchesOwner(c) ==
    /\ call[c].pc = "patch"
    /\ w.gen <= MaxGen
    /\ \/ /\ UpdatesWorkload(call[c].des.r,
                 IF w.tmpl = call[c].cur THEN call[c].new ELSE w.tmpl)
          /\ call' = [call EXCEPT ![c] =
                [IdleCall EXCEPT !.pc = "confirm", !.new = call[c].new]]
          /\ UNCHANGED current
       \/ Faulty /\ Fails(c) /\ UNCHANGED w
    /\ UNCHANGED <<a, tpl, claim, registered, late, rec, handler>>

(* A slip: the new name is patched into the status without a version.        *)
CallConfirmsUnchecked(c) ==
    /\ call[c].pc = "confirm"
    /\ a' = [a EXCEPT !.tmpl = call[c].new] /\ current' = {}
    /\ Ends(c)
    /\ UNCHANGED <<w, tpl, claim, registered, late, rec, handler>>

(* The status gets the name of the new template.  An error is only logged.   *)
CallConfirms(c) ==
    /\ call[c].pc = "confirm"
    /\ Writes(c, [a EXCEPT !.tmpl = call[c].new], {})
    /\ Ends(c)
    /\ UNCHANGED <<w, tpl, claim, registered, late, rec, handler>>

CallConfirmRefused(c) ==
    /\ call[c].pc = "confirm"
    /\ Refused(c)
    /\ Ends(c)
    /\ UNCHANGED <<w, tpl, claim, registered, late, rec, handler>>

(* applyReplicaChanges: updateReplicaStatusFromOwner, whose error is only    *)
(* logged, then the replicas of the workload.  Its references are replaced   *)
(* original by original, that is, kept.                                      *)
CallRefreshesStatus(c) ==
    /\ call[c].pc = "refresh"
    /\ Touches(c) \/ Refused(c)
    /\ Goes(c, "replicas")
    /\ UNCHANGED <<w, tpl, claim, registered, late, rec, handler>>

CallPatchesReplicas(c) ==
    /\ call[c].pc = "replicas"
    /\ w.gen <= MaxGen
    /\ \/ UpdatesWorkload(call[c].des.r, w.tmpl) /\ Ends(c) /\ UNCHANGED current
       \/ Faulty /\ Fails(c) /\ UNCHANGED w
    /\ UNCHANGED <<a, tpl, claim, registered, late, rec, handler>>

(* handleScalingAction writes the ScalingFailed condition, reading again on  *)
(* a conflict; it gives up when the object is gone or the retries run out.   *)
CallReports(c) ==
    /\ call[c].pc = "report"
    /\ \/ a.life # "gone" /\ current' = {}
       \/ UNCHANGED current
    /\ Ends(c)
    /\ UNCHANGED <<a, w, tpl, claim, registered, late, rec, handler>>

-----------------------------------------------------------------------------
(* The claim handlers.                                                       *)

Leaves(h) == handler' = [handler EXCEPT ![h] = IdleHandler]

(* The goroutine of an allocation change (handleResourceClaimUpdate, which   *)
(* does not look at the claim's template) or of a deletion (DeleteFunc) of a *)
(* claim of template n.                                                      *)
Spawned(kind, n, bound) ==
    [IdleHandler EXCEPT !.pc = kind, !.tmpl = n, !.bound = bound]

(* handleResourceClaimUpdate reads the object; a missing one ends it.        *)
HandlerGets(h) ==
    /\ handler[h].pc = "update"
    /\ \/ /\ a.life # "gone" /\ Reads(h)
          /\ handler' = [handler EXCEPT
                ![h].des = IF handler[h].bound THEN a.tmpl ELSE None,
                ![h].pc = IF a.disc = None THEN "done" ELSE "status"]
       \/ (a.life = "gone" \/ Faulty) /\ Leaves(h) /\ Drops(h)
    /\ UNCHANGED <<a, w, tpl, claim, registered, late, rec, call>>

(* A slip: the handler's copy of the status replaces the stored one.         *)
HandlerOverwritesStatus(h) ==
    /\ handler[h].pc = "status"
    /\ a' = IF handler[h].bound THEN [a EXCEPT !.tmpl = handler[h].des] ELSE a
    /\ current' = {}
    /\ handler' = [handler EXCEPT ![h].pc =
                      IF handler[h].bound THEN "list" ELSE "done"]
    /\ UNCHANGED <<w, tpl, claim, registered, late, rec, call>>

(* updateReplicaStatus, whose error is only logged.                          *)
HandlerUpdatesStatus(h) ==
    /\ handler[h].pc = "status"
    /\ Touches(h) \/ Refused(h)
    /\ handler' = [handler EXCEPT ![h].pc =
                      IF handler[h].bound THEN "list" ELSE "done"]
    /\ UNCHANGED <<w, tpl, claim, registered, late, rec, call>>

(* A slip: the list is not restricted to managed templates.                  *)
UnclaimedOfAll == {n \in Names : tpl[n] # None /\
                     \A k \in Claims : claim[k] = None \/ claim[k].tmpl # n}

(* CleanupOldResourceClaimTemplates: the managed templates without a claim,  *)
(* except the desired one of the copy of the object.                         *)
Unclaimed == {n \in Managed : tpl[n] # None /\
                \A k \in Claims : claim[k] = None \/ claim[k].tmpl # n}
HandlerLists(h) ==
    /\ handler[h].pc = "list"
    /\ handler' = [handler EXCEPT ![h] = [IdleHandler EXCEPT
                !.pc = "sweep", !.victims = Unclaimed \ {handler[h].des}]]
    /\ UNCHANGED <<a, w, tpl, claim, current, registered, late, rec, call>>

HandlerSweeps(h) ==
    /\ handler[h].pc = "sweep"
    /\ \/ \E n \in handler[h].victims :
            /\ tpl' \in {[tpl EXCEPT ![n] = None]} \cup (IF Faulty THEN {tpl} ELSE {})
            /\ handler' = [handler EXCEPT ![h].victims = @ \ {n}]
       \/ handler[h].victims = {} /\ Leaves(h) /\ UNCHANGED tpl
    /\ UNCHANGED <<a, w, claim, current, registered, late, rec, call>>

HandlerDone(h) ==
    /\ handler[h].pc = "done"
    /\ Leaves(h) /\ Drops(h)
    /\ UNCHANGED <<a, w, tpl, claim, registered, late, rec, call>>

(* The goroutine of a deleted claim: of the desired template, and the status *)
(* is refreshed; of another managed one, and that template is deleted.       *)
DeletedGets(h) ==
    /\ handler[h].pc = "deleted"
    /\ \/ /\ a.life # "gone" /\ Reads(h)
          /\ handler' = [handler EXCEPT
                ![h].pc = IF a.tmpl # None /\ a.tmpl = handler[h].tmpl /\ a.disc # None
                          THEN "status"
                          ELSE IF a.tmpl # None /\ a.tmpl # handler[h].tmpl
                                  /\ a.disc \notin {None, handler[h].tmpl}
                          THEN "remove" ELSE "done"]
       \/ (a.life = "gone" \/ Faulty) /\ Leaves(h) /\ Drops(h)
    /\ UNCHANGED <<a, w, tpl, claim, registered, late, rec, call>>

(* DeleteTemplate.                                                           *)
DeletedRemoves(h) ==
    /\ handler[h].pc = "remove"
    /\ tpl' \in {[tpl EXCEPT ![handler[h].tmpl] = None]} \cup (IF Faulty THEN {tpl} ELSE {})
    /\ Leaves(h) /\ Drops(h)
    /\ UNCHANGED <<a, w, claim, registered, late, rec, call>>

-----------------------------------------------------------------------------
(* The cluster and its users.                                                *)

(* A pod of the workload gets a claim, made from the managed template that   *)
(* the pod spec names.                                                       *)
ClaimCreated(k) ==
    /\ claim[k] = None /\ w.tmpl # Orig /\ tpl[w.tmpl] # None
    /\ claim' = [claim EXCEPT ![k] = [tmpl |-> w.tmpl, bound |-> FALSE]]
    /\ UNCHANGED <<a, w, tpl, current, registered, late, rec, call, handler>>

(* The claim is allocated or deallocated; the predicate starts a handler.    *)
ClaimAllocationChanges(k) ==
    /\ claim[k] # None
    /\ claim' = [claim EXCEPT ![k].bound = ~@]
    /\ \E h \in Handlers :
        /\ handler[h].pc = "idle"
        /\ handler' = [handler EXCEPT ![h] =
                          Spawned("update", None, ~claim[k].bound)]
    /\ UNCHANGED <<a, w, tpl, current, registered, late, rec, call>>

(* The pod is gone and its claim with it.                                    *)
ClaimDeleted(k) ==
    /\ claim[k] # None
    /\ claim' = [claim EXCEPT ![k] = None]
    /\ \E h \in Handlers :
        /\ handler[h].pc = "idle"
        /\ handler' = [handler EXCEPT ![h] = Spawned("deleted", claim[k].tmpl, FALSE)]
    /\ UNCHANGED <<a, w, tpl, current, registered, late, rec, call>>

(* Time: a grace period elapses.                                             *)
GraceElapses ==
    /\ \E d \in a.grace : a' = [a EXCEPT !.grace = @ \ {d}]
    /\ UNCHANGED <<w, tpl, claim, current, registered, late, rec, call, handler>>

(* The user deletes the object: at once without a finalizer.                 *)
UserDeletes ==
    /\ a.life \in {"new", "active"}
    /\ a' = [a EXCEPT !.life = IF a.life = "new" THEN "gone" ELSE "deleting"]
    /\ current' = {}
    /\ UNCHANGED <<w, tpl, claim, registered, late, rec, call, handler>>

(* The user changes something else in the workload's spec.                   *)
UserRollsOut ==
    /\ w.gen < MaxGen
    /\ w' = [w EXCEPT !.gen = @ + 1]
    /\ UNCHANGED <<a, tpl, claim, current, registered, late, rec, call, handler>>

(* The object owned the managed templates.                                   *)
GarbageCollected(n) ==
    /\ a.life = "gone" /\ tpl[n] # None
    /\ tpl' = [tpl EXCEPT ![n] = None]
    /\ UNCHANGED <<a, w, claim, current, registered, late, rec, call, handler>>

(* The controller's process ends and starts again.                           *)
Crash ==
    /\ current' = {} /\ registered' = FALSE /\ late' = 0
    /\ rec' = IdleRec
    /\ call' = [c \in Calls |-> IdleCall]
    /\ handler' = [h \in Handlers |-> IdleHandler]
    /\ UNCHANGED <<a, w, tpl, claim>>

-----------------------------------------------------------------------------
RecStep ==
    \/ RecFindsNothing \/ RecGets \/ RecAddsFinalizer \/ RecDiscovers
    \/ RecRegisters \/ RecUpdatesStatus \/ RecUnregisters \/ RecCleansUp
    \/ RecCleanUpFails \/ RecFinalizes \/ RecFinalizeFails

CallStep(c) ==
    \/ CallStarts(c) \/ CallGets(c) \/ CallDecides(c)
    \/ CallRecords(c) \/ CallRecordRefused(c)
    \/ CallReadsBase(c) \/ CallReadsRevision(c) \/ CallLooks(c)
    \/ CallDeletesOutdated(c) \/ CallCreates(c)
    \/ CallPatchesOwner(c) \/ CallConfirms(c) \/ CallConfirmRefused(c)
    \/ CallRefreshesStatus(c) \/ CallPatchesReplicas(c) \/ CallReports(c)

HandlerStep(h) ==
    \/ HandlerGets(h) \/ HandlerUpdatesStatus(h) \/ HandlerLists(h)
    \/ HandlerSweeps(h) \/ HandlerDone(h) \/ DeletedGets(h) \/ DeletedRemoves(h)

Environment ==
    \/ \E k \in Claims : ClaimCreated(k) \/ ClaimAllocationChanges(k) \/ ClaimDeleted(k)
    \/ GraceElapses \/ UserDeletes \/ UserRollsOut
    \/ \E n \in Managed : GarbageCollected(n)

Step ==
    \/ RecStep
    \/ \E c \in Calls : CallStep(c)
    \/ \E h \in Handlers : HandlerStep(h)
    \/ Environment

Next == Step \/ Crash

Spec == Init /\ [][Next]_vars

(* The same without crashes.                                                 *)
SteadySpec == Init /\ [][Step]_vars

(* The work queue starts a reconciliation for every event and, with a        *)
(* back-off, after every failed one; a request to the API server that is     *)
(* retried again and again succeeds at last, whatever crashes or conflicts   *)
(* come in between.  Nothing is assumed about calls and handlers.            *)
FairSpec ==
    /\ Spec
    /\ SF_vars(RecFindsNothing)
    /\ SF_vars(RecGets /\ a.life = "deleting")
    /\ WF_vars(RecStep)
    /\ SF_vars(RecUnregisters)
    /\ SF_vars(RecCleansUp)
    /\ SF_vars(RecFinalizes)

-----------------------------------------------------------------------------
RecPcs == {"idle", "addfin", "discover", "register", "status", "unregister",
           "cleanup", "finalize"}
CallPcs == {"idle", "get", "decide", "record", "base", "revision", "look", "delete",
            "create", "patch", "confirm", "refresh", "replicas", "report"}
HandlerPcs == {"idle", "update", "status", "list", "sweep", "done", "deleted",
               "remove"}

(* A call that writes a template or the workload has a decision, a template  *)
(* it replaces and, from there on, a new name.                               *)
CallRecord ==
    {x \in [pc : CallPcs, des : Configs \cup {None}, act : Directions \cup {None},
            then : {"idle", "base", "refresh"}, cur : Names \cup {None},
            new : Managed \cup {None}] :
        /\ x.pc \in {"look", "delete", "create", "patch", "confirm"} <=> x.new # None
        /\ x.pc \in {"revision", "look", "delete", "create", "patch"} => x.cur # None
        /\ x.pc \notin {"idle", "report", "confirm"} => x.des # None}

HandlerRecord == [pc : HandlerPcs, bound : BOOLEAN, tmpl : Managed \cup {None},
                  des : Names \cup {None}, victims : SUBSET Managed]

(* Types.  A reconciler that cleans up knows the original template.          *)
TypeOK ==
    /\ a \in Object
    /\ w \in Workload
    /\ tpl \in [Names -> Sizes \cup {None}]
    /\ claim \in [Claims -> [tmpl : Managed, bound : BOOLEAN] \cup {None}]
    /\ current \subseteq Procs
    /\ registered \in BOOLEAN
    /\ late \in 0..MaxLate
    /\ rec \in [pc : RecPcs, disc : Names \cup {None}, dirty : BOOLEAN]
    /\ rec.pc = "cleanup" => rec.disc # None
    /\ call \in [Calls -> CallRecord]
    /\ handler \in [Handlers -> HandlerRecord]

(* The discovered template is a stable rollback point: it is the template    *)
(* the workload had before the controller changed anything, and neither a    *)
(* scaling call nor the cleanup of templates ever changes or deletes it.     *)
(* (Discovery runs once, its result is never lost to a conflicting status    *)
(* update, and no call touches the workload before it is stored.)            *)
StableRollbackPoint ==
    /\ a.disc \in {None, Orig}
    /\ tpl[Orig] = OrigSize

(* The workload is not touched as long as the object has no finalizer, so    *)
(* that a deletion at any moment finds a controller that restores it.        *)
UntouchedUntilFinalizer ==
    a.life = "new" => w.repl = 1 /\ w.tmpl = Orig

(* However calls overlap, no decision is recorded while the grace period of  *)
(* its direction runs: of two calls that saw the same status only one can    *)
(* write it (checkGracePeriod, updateScalingStatus).                         *)
OneApplyPerGrace ==
    [][\A c \in Calls :
        CallRecords(c) => call[c].act \notin a.grace]_vars

(* The desired template of the status only moves forward: a slow call never  *)
(* replaces the name a later call has stored by its own, older one, and no   *)
(* update of another process takes the name away (applyResourceChanges,      *)
(* updateReplicaStatus, Reconcile).                                          *)
DesiredTemplateMovesForward ==
    [][a.tmpl # None => a'.tmpl # None /\ a'.tmpl >= a.tmpl]_vars

(* A deletion comes to its end, whatever fails, conflicts or crashes on the  *)
(* way (Reconcile, the finalizer branch).                                    *)
DeletionCompletes == a.life = "deleting" ~> a.life = "gone"

(* An object that is gone is not monitored any more: no reconciliation that  *)
(* had read the object earlier registers it again after the Unregister of    *)
(* its deletion (Reconcile; one worker, and the finalizer waits for it).     *)
GoneIsUnregistered == a.life = "gone" => ~registered

Quiet == \A c \in Calls : call[c].pc = "idle"

(* When no call runs from the deletion on, the object only goes away with    *)
(* the workload back on its original template.  This does not need a status  *)
(* that knows the workload's template: it holds after every failure, crash   *)
(* or lost status update of the calls before (cleanupWorkload).              *)
RestoredWhenQuiet ==
    [](a.life \in {"deleting", "gone"} => Quiet)
        => [](a.life = "gone" => w.tmpl = Orig)

(* No two calls are between naming a template and patching it into the       *)
(* workload, and no handler deletes templates.                               *)
Replacing == {c \in Calls : call[c].pc \in {"look", "delete", "create", "patch"}}
Exclusive ==
    /\ \A c, d \in Replacing : c = d
    /\ \A h \in Handlers : handler[h].pc \notin {"sweep", "remove"}

(* A template is replaced by deleting it and creating it again, with nothing *)
(* under its name if the second request fails or the controller crashes.     *)
(* The template that the workload uses is never the one: its name is older   *)
(* than the workload's generation, so only a call that another one overtook  *)
(* or a handler takes it away (patchResourceClaimTemplate).                  *)
InUseWhenExclusive ==
    []Exclusive => [](a.life # "gone" => tpl[w.tmpl] # None)

-----------------------------------------------------------------------------
(* What the documentation says and the code does not ensure.                 *)

(* After the deletion the workload is back on its original template.         *)
RestoredAfterDeletion == a.life = "gone" => w.tmpl = Orig

(* A template that the workload's pods are made from is not deleted.         *)
InUseTemplateExists == a.life = "active" => tpl[w.tmpl] # None

=============================================================================
