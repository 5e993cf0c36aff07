-------------------------- MODULE ControllerConfig --------------------------
(***************************************************************************)
(* How a monitoring configuration reaches the metrics collectors:          *)
(*  - the reconciler of RCAControllerConfig                                *)
(*    (internal/controller/rcacontrollerconfig_controller.go), one worker, *)
(*    builds a Monitor, shares it, validates it and writes the status;     *)
(*  - the reconciler of autoscalers captures the shared Monitor in the     *)
(*    collector it registers, and asks for another run while there is none;*)
(*  - collections hold monitorMutex for reading, SetMonitor takes it for   *)
(*    writing (internal/monitor/collector.go).                             *)
(* A Monitor is the monitoring spec it was built from.  The names, queries *)
(* and messages of the metrics are left out; so is the scope of reads: a   *)
(* reconciliation reads the stored object, and works on that copy.         *)
(***************************************************************************)
EXTENDS FiniteSets

CONSTANTS
    Configs,      \* RCAControllerConfig objects
    Autoscalers,  \* autoscalers that want to be monitored
    Settings,     \* specs: [endpoint, level], level None if not set
    Parsable,     \* endpoints that api.NewClient accepts
    Faulty,       \* whether a status update may fail for no visible reason
    None

Endpoints == {s.endpoint : s \in Settings}
Info == "INFO"
EffectiveLevel(s) == IF s.level = None THEN Info ELSE s.level
Levels == {Info} \cup {EffectiveLevel(s) : s \in Settings}

ASSUME SettingsAssumption ==
    /\ None \notin Settings /\ None \notin Endpoints
    /\ None \notin Configs /\ None \notin Autoscalers
    /\ Parsable \subseteq Endpoints /\ Faulty \in BOOLEAN

VARIABLES
    config,           \* the stored objects: spec and status
    reachable,        \* endpoints, of those with a client, that answer
    monitor,          \* r.monitor of the config reconciler
    currentEndpoint,  \* r.currentEndpoint
    currentLogLevel,  \* r.currentLogLevel
    rec,              \* the config reconciler's worker
    fresh,            \* its copy is still the stored version
    shared,           \* Monitor of the autoscaler reconciler
    queue,            \* the work queue of the autoscaler reconciler
    registering,      \* the autoscaler it is about to register
    collector,        \* the Monitor in each registered collector
    reading           \* collections that hold monitorMutex

cvars == <<monitor, currentEndpoint, currentLogLevel, rec, fresh>>
avars == <<queue, registering, collector>>
vars == <<config, reachable, cvars, shared, avars, reading>>

Idle == [pc |-> "idle", name |-> None, spec |-> None, connected |-> FALSE,
         available |-> FALSE]

(* A status nobody has written yet.                                          *)
NoStatus == [connected |-> FALSE, available |-> FALSE]

Init ==
    /\ config = [c \in Configs |-> None]
    /\ reachable \in SUBSET Parsable
    /\ monitor = None /\ currentEndpoint = None /\ currentLogLevel = None
    /\ rec = Idle /\ fresh = FALSE
    /\ shared = None
    /\ queue = [s \in Autoscalers |-> "absent"]
    /\ registering = None
    /\ collector = [s \in Autoscalers |-> None]
    /\ reading = {}

-----------------------------------------------------------------------------
(* The config reconciler.                                                    *)

(* Slips: a new endpoint only counts while there is no monitor; an unchanged *)
(* endpoint ends the reconciliation.                                         *)
RecIgnoresChanges(c) ==
    /\ rec.pc = "idle" /\ config[c] # None
    /\ rec' = [Idle EXCEPT !.name = c, !.spec = config[c].spec,
                           !.pc = IF monitor = None THEN "create" ELSE "log"]
    /\ fresh' = TRUE
    /\ UNCHANGED <<config, reachable, monitor, currentEndpoint, currentLogLevel,
                   shared, avars, reading>>
RecLogsOnlyOnSetup(c) ==
    /\ rec.pc = "idle" /\ config[c] # None
    /\ monitor = None \/ currentEndpoint # config[c].spec.endpoint
    /\ rec' = [Idle EXCEPT !.name = c, !.spec = config[c].spec, !.pc = "create"]
    /\ fresh' = TRUE
    /\ UNCHANGED <<config, reachable, monitor, currentEndpoint, currentLogLevel,
                   shared, avars, reading>>

(* Get.  Monitoring is set up if there is no monitor or the endpoint is not  *)
(* the one of the last complete setup.  An object that is gone ends the run. *)
RecGets(c) ==
    /\ rec.pc = "idle" /\ config[c] # None
    /\ rec' = [Idle EXCEPT !.name = c, !.spec = config[c].spec,
                  !.pc = IF monitor = None \/ currentEndpoint # config[c].spec.endpoint
                         THEN "create" ELSE "log"]
    /\ fresh' = TRUE
    /\ UNCHANGED <<config, reachable, monitor, currentEndpoint, currentLogLevel,
                   shared, avars, reading>>

(* A slip: only the first Monitor is shared.                                 *)
RecSharesOnce ==
    /\ rec.pc = "create"
    /\ monitor' = rec.spec
    /\ rec' = [rec EXCEPT !.pc = IF shared = None THEN "share" ELSE "validate"]
    /\ UNCHANGED <<config, reachable, currentEndpoint, currentLogLevel, fresh,
                   shared, avars, reading>>

(* r.monitor = NewMonitor(...)                                               *)
RecCreatesMonitor ==
    /\ rec.pc = "create"
    /\ monitor' = rec.spec
    /\ rec' = [rec EXCEPT !.pc = "share"]
    /\ UNCHANGED <<config, reachable, currentEndpoint, currentLogLevel, fresh,
                   shared, avars, reading>>

(* SetMonitor: takes the write lock, so it waits for the collections that    *)
(* hold the lock, and they wait for it.                                      *)
RecSharesMonitor ==
    /\ rec.pc = "share" /\ reading = {}
    /\ shared' = monitor
    /\ rec' = [rec EXCEPT !.pc = "validate"]
    /\ UNCHANGED <<config, reachable, monitor, currentEndpoint, currentLogLevel,
                   fresh, avars, reading>>

(* ValidateMetrics: an error only without a client.  A query that fails, for *)
(* whatever reason, makes its metric unhealthy and nothing else.             *)
RecValidates ==
    /\ rec.pc = "validate"
    /\ \E ok \in IF rec.spec.endpoint \in reachable THEN BOOLEAN ELSE {FALSE} :
        rec' = [rec EXCEPT !.pc = "status",
                           !.connected = rec.spec.endpoint \in Parsable,
                           !.available = rec.spec.endpoint \in Parsable /\ ok]
    /\ UNCHANGED <<config, reachable, monitor, currentEndpoint, currentLogLevel,
                   fresh, shared, avars, reading>>

(* updateConditions (not reached after an error, so that the condition       *)
(* stays) and updateStatus; then the endpoint counts as set up.              *)
RecUpdatesStatus ==
    /\ rec.pc = "status" /\ fresh
    /\ config' = [config EXCEPT ![rec.name].status =
                    [connected |-> rec.connected,
                     available |-> IF rec.connected THEN rec.available
                                   ELSE @.available]]
    /\ currentEndpoint' = rec.spec.endpoint
    /\ rec' = [rec EXCEPT !.pc = "log"]
    /\ UNCHANGED <<reachable, monitor, currentLogLevel, fresh, shared, avars,
                   reading>>

(* The update is refused: the reconciliation ends with an error and is       *)
(* started again; the new monitor stays shared.                              *)
RecStatusRefused ==
    /\ rec.pc = "status" /\ (~fresh \/ Faulty)
    /\ rec' = Idle
    /\ UNCHANGED <<config, reachable, monitor, currentEndpoint, currentLogLevel,
                   fresh, shared, avars, reading>>

(* setupLogging, the end of the reconciliation.                              *)
RecSetsLogLevel ==
    /\ rec.pc = "log"
    /\ currentLogLevel' = EffectiveLevel(rec.spec)
    /\ rec' = Idle
    /\ UNCHANGED <<config, reachable, monitor, currentEndpoint, fresh, shared,
                   avars, reading>>

-----------------------------------------------------------------------------
(* The autoscaler reconciler, one worker.                                    *)

(* A slip: without a Monitor nothing asks for another run.                   *)
AutoscalerForgotten(s) ==
    /\ registering = None /\ rec.pc # "share"
    /\ queue[s] = "queued" /\ shared = None
    /\ queue' = [queue EXCEPT ![s] = "done"]
    /\ UNCHANGED <<config, reachable, cvars, shared, registering, collector,
                   reading>>

(* No Monitor yet: RequeueAfter 30 seconds.                                  *)
AutoscalerWaits(s) ==
    /\ registering = None /\ rec.pc # "share"
    /\ queue[s] = "queued" /\ shared = None
    /\ queue' = [queue EXCEPT ![s] = "delayed"]
    /\ UNCHANGED <<config, reachable, cvars, shared, registering, collector,
                   reading>>

(* A slip: the autoscaler is registered without a look at the Monitor.       *)
AutoscalerUnchecked(s) ==
    /\ registering = None /\ queue[s] = "queued"
    /\ registering' = IF collector[s] = None THEN s ELSE None
    /\ queue' = [queue EXCEPT ![s] = "done"]
    /\ UNCHANGED <<config, reachable, cvars, shared, collector, reading>>

(* The autoscaler is registered already, or is about to be.  The check for   *)
(* a Monitor takes the read lock; NewRegisteration reads it without.         *)
AutoscalerReconciled(s) ==
    /\ registering = None /\ rec.pc # "share"
    /\ queue[s] = "queued" /\ shared # None
    /\ registering' = IF collector[s] = None THEN s ELSE None
    /\ queue' = [queue EXCEPT ![s] = "done"]
    /\ UNCHANGED <<config, reachable, cvars, shared, collector, reading>>

NewRegisteration(s) ==
    /\ registering = s
    /\ collector' = [collector EXCEPT ![s] = shared]
    /\ registering' = None
    /\ UNCHANGED <<config, reachable, cvars, shared, queue, reading>>

(* Not found: Unregister.                                                    *)
AutoscalerRemoved(s) ==
    /\ registering = None /\ queue[s] = "removed"
    /\ collector' = [collector EXCEPT ![s] = None]
    /\ queue' = [queue EXCEPT ![s] = "absent"]
    /\ UNCHANGED <<config, reachable, cvars, shared, registering, reading>>

-----------------------------------------------------------------------------
(* CollectAndCompute: RLock, the queries, RUnlock.                           *)
CollectStarts(s) ==
    /\ collector[s] # None /\ s \notin reading
    /\ rec.pc # "share"
    /\ reading' = reading \cup {s}
    /\ UNCHANGED <<config, reachable, cvars, shared, avars>>

(* A slip: the error of CollectMetrics returns before RUnlock.               *)
CollectKeepsLock(s) ==
    /\ s \in reading
    /\ \/ collector[s] \in Settings /\ collector[s].endpoint \in reachable
          /\ reading' = reading \ {s}
       \/ collector[s] \in Settings /\ collector[s].endpoint \notin reachable
          /\ UNCHANGED reading
    /\ UNCHANGED <<config, reachable, cvars, shared, avars>>

CollectEnds(s) ==
    /\ s \in reading
    /\ reading' = reading \ {s}
    /\ UNCHANGED <<config, reachable, cvars, shared, avars>>

-----------------------------------------------------------------------------
(* The cluster and its users.                                                *)

(* A config is created or its spec edited.                                   *)
UserApplies(c, s) ==
    /\ config' = [config EXCEPT ![c] =
            [spec |-> s,
             status |-> IF config[c] = None THEN NoStatus ELSE config[c].status]]
    /\ config' # config
    /\ fresh' = (fresh /\ rec.name # c)
    /\ UNCHANGED <<reachable, monitor, currentEndpoint, currentLogLevel, rec,
                   shared, avars, reading>>

UserDeletes(c) ==
    /\ config[c] # None
    /\ config' = [config EXCEPT ![c] = None]
    /\ fresh' = (fresh /\ rec.name # c)
    /\ UNCHANGED <<reachable, monitor, currentEndpoint, currentLogLevel, rec,
                   shared, avars, reading>>

(* An autoscaler is created, changed or deleted, or its delay has elapsed.   *)
AutoscalerQueued(s) ==
    /\ queue[s] \in {"absent", "delayed", "done"}
    /\ queue' = [queue EXCEPT ![s] = "queued"]
    /\ UNCHANGED <<config, reachable, cvars, shared, registering, collector,
                   reading>>

AutoscalerDeleted(s) ==
    /\ queue[s] \in {"queued", "delayed", "done"}
    /\ queue' = [queue EXCEPT ![s] = "removed"]
    /\ UNCHANGED <<config, reachable, cvars, shared, registering, collector,
                   reading>>

ReachabilityChanges ==
    /\ reachable' \in SUBSET Parsable
    /\ UNCHANGED <<config, cvars, shared, avars, reading>>

(* The controller's process ends and starts again; every existing autoscaler *)
(* is queued.                                                                *)
Crash ==
    /\ monitor' = None /\ currentEndpoint' = None /\ currentLogLevel' = None
    /\ rec' = Idle /\ fresh' = FALSE
    /\ shared' = None
    /\ queue' = [s \in Autoscalers |-> IF queue[s] \in {"absent", "removed"} THEN "absent"
                                       ELSE "queued"]
    /\ registering' = None
    /\ collector' = [s \in Autoscalers |-> None]
    /\ reading' = {}
    /\ UNCHANGED <<config, reachable>>

-----------------------------------------------------------------------------
RecContinues ==
    \/ RecCreatesMonitor \/ RecSharesMonitor \/ RecValidates
    \/ RecUpdatesStatus \/ RecStatusRefused \/ RecSetsLogLevel

AutoscalerStep(s) ==
    \/ AutoscalerWaits(s) \/ AutoscalerReconciled(s) \/ NewRegisteration(s)
    \/ AutoscalerRemoved(s)

Next ==
    \/ \E c \in Configs : RecGets(c) \/ UserDeletes(c)
    \/ \E c \in Configs, s \in Settings : UserApplies(c, s)
    \/ RecContinues
    \/ \E s \in Autoscalers :
        \/ AutoscalerStep(s) \/ AutoscalerQueued(s) \/ AutoscalerDeleted(s)
        \/ CollectStarts(s) \/ CollectEnds(s)
    \/ ReachabilityChanges
    \/ Crash

Spec == Init /\ [][Next]_vars

(* Both work queues serve every object again: a config five minutes after a  *)
(* success and with a back-off after an error, a delayed autoscaler after 30 *)
(* seconds.  Collections end (their queries have ten seconds).  A status     *)
(* update that is retried again and again succeeds at last, and the process  *)
(* does not crash for ever.                                                  *)
FairSpec ==
    /\ Spec
    /\ <>[][~Crash]_vars
    /\ WF_vars(RecContinues) /\ SF_vars(RecUpdatesStatus)
    /\ \A c \in Configs : SF_vars(RecGets(c))
    /\ \A s \in Autoscalers :
        /\ SF_vars(AutoscalerStep(s)) /\ WF_vars(CollectEnds(s))
        /\ WF_vars(queue[s] = "delayed" /\ AutoscalerQueued(s))

-----------------------------------------------------------------------------
(* Types.  Once shared, a Monitor is never nil again: the read in            *)
(* NewRegisteration, which is not under the lock, cannot see the nil that    *)
(* the check before it excluded.                                             *)
TypeOK ==
    /\ config \in [Configs -> {None} \cup
          [spec : Settings, status : [connected : BOOLEAN, available : BOOLEAN]]]
    /\ reachable \subseteq Parsable
    /\ monitor \in Settings \cup {None} /\ shared \in Settings \cup {None}
    /\ currentEndpoint \in Endpoints \cup {None}
    /\ currentLogLevel \in Levels \cup {None}
    /\ rec.pc \in {"idle", "create", "share", "validate", "status", "log"}
    /\ rec.name \in Configs \cup {None} /\ rec.spec \in Settings \cup {None}
    /\ queue \in [Autoscalers -> {"absent", "queued", "delayed", "done", "removed"}]
    /\ registering \in Autoscalers \cup {None}
    /\ collector \in [Autoscalers -> Settings \cup {None}]
    /\ reading \subseteq Autoscalers
    /\ registering # None => shared # None

(* The endpoint that counts as set up is the one of the shared Monitor,      *)
(* while no setup is under way.                                              *)
EndpointInUse ==
    rec.pc \notin {"share", "validate", "status"} /\ currentEndpoint # None =>
        shared # None /\ shared.endpoint = currentEndpoint

(* Only a status update that is refused in the middle of a setup parts the   *)
(* two: no edit, restart, second config or failed validation leaves the      *)
(* collectors on another endpoint than the one Reconcile compares the spec   *)
(* with (setupMonitoring, SetMonitor).                                       *)
EndpointLeftOnlyByRefusal ==
    [][EndpointInUse /\ ~EndpointInUse' => RecStatusRefused]_vars

(* SetMonitor is never blocked for good by collections, which go on all the  *)
(* time: they let the waiting writer in (monitorMutex).                      *)
MonitorGetsShared == rec.pc = "share" ~> rec.pc # "share"

(* An endpoint other than the one of the last complete setup reaches the     *)
(* shared Monitor, whatever crashes or conflicts come in between, unless the *)
(* config is edited again (Reconcile, setupMonitoring).                      *)
ChangedEndpointTakesEffect ==
    \A c \in Configs, e \in Endpoints :
        (config[c] # None /\ config[c].spec.endpoint = e /\ currentEndpoint # e)
            ~> \/ shared # None /\ shared.endpoint = e
               \/ config[c] = None \/ config[c].spec.endpoint # e

(* The log level follows the spec, also when the endpoint does not change    *)
(* (setupLogging).                                                           *)
LogLevelTakesEffect ==
    \A c \in Configs, s \in Settings :
        (config[c] # None /\ config[c].spec = s)
            ~> \/ currentLogLevel = EffectiveLevel(s)
               \/ config[c] = None \/ config[c].spec # s

(* Whichever of the two objects comes first, an autoscaler ends up           *)
(* monitored as long as there is a config (the requeue of Reconcile while    *)
(* Monitor is nil).                                                          *)
MonitoredAtLast ==
    \A s \in Autoscalers :
        (queue[s] = "queued" /\ \E c \in Configs : config[c] # None)
            ~> \/ collector[s] # None
               \/ queue[s] \in {"absent", "removed"}
               \/ \A c \in Configs : config[c] = None

=============================================================================
