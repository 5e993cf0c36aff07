# A verification of the resource claim autoscaler controller

This project models the controller of this repository in TLA+, checks the models
with TLC on small instances, and proves nearly all of their safety properties
with TLAPS for every instance. The modules are translated from the Go source;
`PROJECT.json` says which lines each definition stands for.

## 1. The system

The controller scales LLM inference workloads that get their GPUs through
Dynamic Resource Allocation. A `ResourceClaimAutoscaler` names a service; the
controller finds the workload behind it (a Deployment or StatefulSet) and the
`ResourceClaimTemplate` its pods use, samples Prometheus periodically, computes
a better configuration (replicas, GPUs per replica, compute, memory) and puts it
into force: it creates a *managed* template, patches the workload to use it, and
deletes managed templates that nothing uses any more. When the autoscaler is
deleted it restores the workload.

### 1.1 Components

| Component | State | Operations | Interacts with |
|---|---|---|---|
| service monitor (`internal/monitor/service_monitor.go`) | map of `MonitoringEvent`s under `sm.mu`; per event a trigger channel of capacity 1, a timer, a loop goroutine, a cached spec | Start, Stop, RegisterWithCollector, UpdateCachedSpec, Unregister, UpdateTriggerTime; timer functions; monitoringLoop | called by the autoscaler reconciler; calls the collector and, in a new goroutine for each trigger, the scaling callback |
| collector, Prometheus client (`collector.go`, `monitor.go`) | the Monitor it was created with; `monitorMutex` held for reading | CollectAndCompute, CollectMetrics, ValidateMetrics | Prometheus |
| autoscaler reconciler (`resourceclaimautoscaler_controller.go`) | the stored object: finalizer, `Status.Discovery`, `ScalingStatus`; the shared `Monitor` | Reconcile (finalizer, discovery, registration, status; deletion: unregister, clean up, finalize), claim predicates and handlers, handleScalingAction, SetMonitor | API server, discovery, service monitor, scaler |
| resource scaler (`scaler.go`, `defaults.go`, `metric_handler.go`) | none of its own; the scaling status of the object | EvaluateAndScale, applyScalingAction, updateScalingStatus, applyResourceChanges, applyReplicaChanges, calculateLatencyOffsets | optimizer, claim template handler, API server |
| scaling decision (`scaling_action.go`) | none | determineScalingAction, checkMinTargetUtilization, applySingleTimeScalingLimit | used by the scaler |
| claim template handler (`resourceclaim_handler.go`) | the managed templates | patchResourceClaimTemplate, patchPodOwner, CleanupOldResourceClaimTemplates, DeleteTemplate | API server |
| config reconciler (`rcacontrollerconfig_controller.go`) | `monitor`, `currentEndpoint`, `currentLogLevel` | Reconcile, setupMonitoring, setupLogging | SetMonitor of the autoscaler reconciler, Prometheus |
| discovery (`discovery.go`) | none; what it finds is stored once in `Status.Discovery` | DiscoverFromService, discoverOwner, discoverResourceClaimTemplate | API server, read only; the autoscaler reconciler tries it again |
| optimizer (`internal/optimizer`) | per evaluation: the workload, tuned parameters, offsets, the best and the last configuration | FindOptimalConfiguration, evaluateConfiguration, TuneWithMetrics, estimates of resources, latency and queue | called by the scaler, which feeds the latencies measured and estimated back as offsets |

### 1.2 What is hard about it

* The timer functions do not take `sm.mu`. They race with Unregister, Stop,
  a re-registration and the loop of an earlier registration.
* Every trigger starts a goroutine of its own, so that two evaluations of one
  autoscaler overlap, and neither is waited for by the deletion.
* One scaling call is up to eight API requests: status, template, workload,
  status. Each may fail or conflict, and the process may die between any two.
* Reconciler, scaling calls and claim handlers write the same object; what
  keeps them apart is the optimistic concurrency of the API server alone.
* Cleanup decides by lists that are old when the deletions happen.
* The shared Monitor is replaced while collections hold its lock and while its
  config object is being edited.
* Discovery is a chain of reads of objects that come and go meanwhile, and no
  change of these objects triggers another try.
* The reconciler's own status updates queue the object again.
* The search has two nested loops with early exits, steps that need not divide
  their ranges, and estimates corrected by those of earlier rounds.
* Rounding to whole replicas, thresholds, percentages and ratios.

### 1.3 What makes each component correct

* Service monitor: a registered autoscaler is sampled for as long as it is
  registered, by one timer at a time, with the spec handed over last; a removed
  one is not, leaks no goroutine, and no timer function panics.
* Decision: the rounds of a steady demand end; a capped step stays between what
  there is and what is asked for, and within its limit.
* Lifecycle (reconciler, scaler, template handler): the original template stays
  known and untouched; nothing is patched before a finalizer guards it; grace
  periods hold whatever overlaps; the status follows the workload; templates in
  use exist; a deletion completes and restores the workload.
* Discovery: what is stored is the workload behind the pods and its template of
  the right class; a workload that can be discovered is discovered at last; the
  reconciler comes to rest.
* Optimizer and evaluation: the search ends, with the first configuration that
  meets the targets, inside the limits, with enough memory and no more compute
  than needed; estimates are sane whatever the offsets, and outages do not
  overwrite them.
* Config: a configuration gets through to the collectors, whichever object comes
  first, in spite of conflicts and restarts.

## 2. The modules

    Sampling          <- (INSTANCE) ServiceMonitor
    ServiceMonitor    <- MCServiceMonitor, ServiceMonitorProofs
    ScalingAction     <- ScalingRounds    <- MCScalingRounds, ScalingRoundsProofs
                      <- ScalingLifecycle <- MCScalingLifecycle, ScalingLifecycleProofs
                      <- ScalingActionProofs <- ScalingRoundsProofs, ScalingLifecycleProofs
    ControllerConfig  <- MCControllerConfig, ControllerConfigProofs
    Discovery         <- MCDiscovery, DiscoveryProofs
    LatencyModel      <- OptimizerSearch  <- MCOptimizerSearch, OptimizerSearchProofs
                      <- LatencyModelProofs  <- OptimizerSearchProofs

How they fit together: `Discovery` stands for the step `RecDiscovers` of
`ScalingLifecycle`, `OptimizerSearch` for the choice of a member of `Desired`
there, `ScalingAction` for the decision between the two, `Sampling` for the calls
that reach the scaler, and `ControllerConfig` for the Monitor they collect with.

### 2.1 ServiceMonitor

The scheduler: `events`, and per event object its key, cached spec, buffer,
closed channel, cancelled context and loop position; the timers and the
goroutines they start. Everything under `sm.mu` is one action. A timer function
has three steps (it starts, evaluates `getCachedSpec()`, executes the `select`),
because it takes no lock; `TimerSends` panics on a closed channel, as Go does,
and `select` takes any ready case. The loop has its positions `recv`, `collect`
and `rearm`. `Restart` is the new process after a panic.

Event objects and timers have identities out of `Ids` and `Timers`, reused once
nothing refers to them: the state space is finite without a bound on the length
of behaviours. A step that needs an identity waits for one.

`Sampling` is what the monitor promises, without timers, channels and contexts: a
current registration comes to owe calls, at most two at a time; one that was
dropped or replaced may still make the calls it owes and comes to owe no more.
`ServiceMonitor` implements it (`ImplementsSampling`, proved in 5.1), with `current <- events`
and `owed` the trigger in the channel plus the one that the loop collects for.
This is the interface that `ScalingLifecycle` relies on: its bound `MaxLate` on
the calls after an unregistration is the contract's `MaxOwed`.

### 2.2 ScalingAction and ScalingRounds

`ScalingAction` holds the decision as operators: comparison of totals, minimum
utilization, single-time limit, and what the next evaluation sees in force.
Floats are integers in hundredths. `ScalingRounds` applies the decision round
after round while the demand changes; it has no failures and no concurrency.

### 2.3 ScalingLifecycle

One autoscaler object `a`, its workload `w`, the templates `tpl`, the managed
claims `claim`, the reconciler `rec`, scaling calls `call` and claim handlers
`handler`. Each API request is one step, with the outcomes success, conflict and
(when `Faulty`) failure. `current` is the set of processes whose copy of the
object is the stored version; an update by any other is refused. A process's copy
only matters as long as it is current, so the copy itself is not stored, except
for what the code uses after another request (`rec.disc`, `call.cur`,
`handler.des`). The name of a managed template is a hash of the workload's
generation; here it is the generation. Between reading the template it starts
from, the generation, and the template of the new name a call lets everyone else
act (`CallReadsBase`, `CallReadsRevision`, `CallLooks`), and likewise between the
delete and the create that replace an outdated template.

The decision is `DetermineScalingAction`; which configuration the optimizer asks
for is any member of `Desired`. Of the service monitor this module keeps what
`ServiceMonitor` establishes: a registered autoscaler gets calls again and again,
and after Unregister at most two more (`late`), the trigger its loop works on
and the one in the buffer: the contract of `Sampling`.

Abstractions: conditions, ready counts and latency estimates only count as
writes that make other copies old; the second owner kind is treated by the code
like the first; a discovery that finds an owner and no template is not
distinguished from one that finds nothing; a failed Get in a reconciliation ends
it without an effect and is a stutter; reads see the stored object, and the delay
between a read and its use stands for what an informer cache may add.

### 2.4 ControllerConfig

The config objects, the config reconciler's fields and steps, the shared Monitor,
the autoscaler reconciler's queue with its 30-second requeue, registered
collectors, and `monitorMutex`: collections hold it for reading, a waiting writer
keeps new readers out. A Monitor is the spec it was built from.

### 2.5 Discovery

DiscoverFromService with one step per request, inside the reconciliations that
call it and store its result. `live` is what exists, `endpoints` what the slices
name, which lags behind; services, pods, owners and templates come and go at any
step, and requests fail. Objects have fixed kinds and controller owners. A pod
that cannot be read, or whose chain breaks, is skipped; the first of the list
sets the common owner, and if it was skipped the comparison for a later one
panics, which controller-runtime recovers and retries. Messages are kept as far
as they differ, since a condition with another message is another status, and a
status update that changes the object queues it again.

### 2.6 LatencyModel and OptimizerSearch

`LatencyModel` has the estimates as operators: tokens of a prefill, thread
occupancy, memory with its tuned overhead, the impact of the allocation, time to
first token, inter-token latency, Erlang's formula and the wait. `OptimizerSearch`
has the rounds of one autoscaler: a sample becomes a workload with latency
offsets, the search goes through replicas and GPUs one configuration at a time
and then shrinks the compute, and what was found is recorded or not. Of
`lastTestedConfig` the pair of replicas and GPUs is kept: its compute and memory
are always the largest, and evaluating it again gives the same estimate.

The program computes in floating point. The model counts ticks, blocks of tokens,
gigabytes and percent, and rounds as its header says. Erlang's formula is a
fraction whose two sides are multiplied by r! and by the r-th power of what one
replica serves, so that nothing in it is rounded: the powers, the sum and the
factorials of `queue.go:67` are one recursion over the replicas (`ErlangTerms`),
and the wait is rounded once, at its end. What the properties tell apart is kept:
the order of the loops, the skips and early exits, both roundings of the memory,
the clamps, the signs of offsets and of the wait. The costs of the model and the
GPU are constants, which stand for a known model on a known GPU.

### 2.7 External parts

The API server's optimistic concurrency, the garbage collector, the resource
claim controller, users, Prometheus and the restart of the process are modelled
from how the code uses them and are marked external in the map.

## 3. The runs

| Run | Shows |
|---|---|
| `monitor` | in every order of timers, loops, registrations and removals: the monitor implements `Sampling` (`ImplementsSampling`); a registered autoscaler has a running loop on an open channel and something that will trigger it (`NoSilentRegistration`); at most one live timer (`OneLiveTimer`); nothing reaches the buffer of a removed event (`NoTriggerOnceAbandoned`); no trigger carries a nil spec (`TypeOK`); sampling goes on (`SampledForever`) and loops of removed events end (`LoopsEnd`) |
| `monitor_panic` | *violated:* `NeverPanics` |
| `rounds_converge` | rounds come to an end (`Converges`) where no limit cuts a replica and compute is a whole percentage; `NeverPastTarget`, `StepNearLimit`, `StepGetsNearer` for the limiter |
| `lifecycle_calls` | two overlapping calls, the reconciler, conflicts and a deletion at any moment: `StableRollbackPoint`, `UntouchedUntilFinalizer`, `OneApplyPerGrace`, `DesiredTemplateMovesForward` |
| `lifecycle_claims` | one call, crashes, requests that fail, and claims whose handlers delete templates and write the status: `StableRollbackPoint`, `DesiredTemplateMovesForward` |
| `lifecycle_deletion` | with crashes and requests that fail: a deletion completes (`DeletionCompletes`), leaves nothing registered (`GoneIsUnregistered`), and restores the workload if no call is in flight (`RestoredWhenQuiet`); a template that is deleted to be created again is never the one the workload uses (`InUseWhenExclusive`) |
| `lifecycle_restored`, `lifecycle_in_use` | *violated:* `RestoredAfterDeletion`, `InUseTemplateExists` |
| `config` | SetMonitor gets its lock (`MonitorGetsShared`), autoscalers get a Monitor (`MonitoredAtLast`), edits take effect (`ChangedEndpointTakesEffect`, `LogLevelTakesEffect`); nothing but a refused status update parts the endpoint that counts as set up from that of the shared Monitor (`EndpointLeftOnlyByRefusal`) |
| `discovery` | what is found is right although the cluster changes during the walk (`FoundIsRight`), and stays, with a condition that agrees (`DiscoveryStays`); a cluster that stays discoverable is discovered (`DiscoveredAtLast`); the reconciler's status updates come to an end (`StatusSettles`) |
| `search` | the result has the memory and compute it needs, within the limits (`EnoughWithinLimits`), is the first in the order of the search that meets the targets, or else the largest (`FirstThatMeets`), and has the least compute of the grid (`SmallestCompute`); latencies are never negative (`TypeOK`); rounds without traffic or capacity leave the recorded estimates alone (`OnlyEstimatesRecorded`); evaluations end (`EvaluationEnds`) |
| `search_wait` | *violated:* `WaitAddsToService` |

### 3.1 Bounds

* Service monitor: two keys, two event objects and two timers. One key may be
  registered anew while the loop and a timer function of its old event still run,
  or two keys beside each other. The properties about safety are proved for any
  number of each. With one spec, that a new spec is used by a later collection is
  not asked: two specs multiply the states beyond what liveness allows.
* Rounds: replicas 0 to 3, GPUs 1 to 3, two values each of compute and memory,
  limits of none, 3 and 4 GPUs: replica and resource changes alone and together,
  up and down, capped or not. The limiter's bounds are proved for all values.
* Lifecycle: two calls and no claims, without crashes and with conflicts as the
  only failures (`SteadySpec`, `Faulty = FALSE`); or one call, one handler and one
  claim, with crashes and failures of any request; or one call alone with both,
  for the deletion and for the replacement of a template. A failed request ends a
  call like a conflict does. The last instance asks for one or two GPUs in turn:
  a call that failed to patch leaves a template behind that the next one has to
  replace.
  Two calls are what overlapping needs, and one claim at a time what cleanup
  needs to see a template with and without one. `MaxGen = 2` bounds the
  generations of the workload in which calls act, so that two templates come
  after the original one; `w.gen <= MaxGen` in the guards of the steps that
  patch is that bound. The cleanup of a deletion has no such guard.
* Discovery: a deployment with two pods, a stateful set of a custom resource, a
  lone replica set; two changes, failures or crashes (`MaxChanges`) at any of the
  steps. Two pods are what a common owner needs, and two changes let an object
  vanish and come back, or one vanish and a request fail. Pods of the two
  workloads together are reached by a change.
* Search: three specs (steps that divide the range or not, least numbers of
  replicas of 0, which is scale to zero, 1 and 2, targets given or defaulted), 1 to 3 replicas and GPUs, light to excessive
  traffic, long and short prompts, latencies measured or missing, two rounds, so
  that the second one has the offsets of the first. `CHECK_DEADLOCK FALSE`, since
  `MaxRounds` ends the behaviours.
* Config: one config, one autoscaler, three specs over two endpoints, one of
  which no client can be made for. Every property is about one config and one
  autoscaler; several configs would compete for the one Monitor by design.

### 3.2 Fairness

* `ServiceMonitor`: weak fairness of every timer function and loop (the Go
  runtime runs what can run, an armed timer fires, queries have a context with a
  deadline); strong fairness of re-arming, which waits for `sm.mu` (a Go mutex
  does not starve a waiter) and for a free identity of the bounded `Timers`.
  Nothing is assumed of registrations.
* `ScalingRounds`: a decision that is due is taken, since the monitor samples
  for ever (`SampledForever`).
* `ScalingLifecycle`: the steps of a deletion are strongly fair. The work queue
  repeats a failed reconciliation with a back-off, and a request that is
  repeated again and again succeeds at last. Nothing is assumed of scaling
  calls and handlers, and crashes may come for ever.
* `Discovery`: the reconciler's worker takes the next step, the endpoint slice
  controller catches up, and an event comes again and again: the resync of the
  client's cache every ten hours. There are finitely many changes and failures;
  nothing is assumed of the Monitor.
* `OptimizerSearch`: an evaluation that has begun goes on, as a call does.
* `ControllerConfig`: both work queues come back to every object (five minutes
  after a success, a back-off after an error, 30 seconds without a Monitor), an
  update repeated for ever succeeds, collections end (their queries have ten
  seconds), and there are finitely many crashes.

## 4. Findings

Where the code does something else than its documentation, a comment or a test
says, a run shows it (details and quotations in `PROJECT.json`):

1. `monitor_panic`: Unregister closes the channel while a timer function may be
   in its `select`; the send on the closed channel is ready and panics.
2. `lifecycle_restored`: a scaling call in flight patches the workload after the
   deletion restored it.
3. `lifecycle_in_use`: the cleanup deletes the template that was just patched
   into the workload, because the status does not name it yet.
4. `search_wait`: the wait in the queue divides by what one replica has left
   (`queue.go:44`), not by what all have. For a load that needs several replicas
   it is negative: the estimate is below the time of service, and more traffic
   may need fewer replicas. `WaitAddsBelowOneReplica` (5.5) proves that the wait
   never adds to the service for such loads, and never takes away from it for
   others.

### Observations without a run

Seen in the code while modelling it; no run of the project states them.

* A trigger buffered before Unregister is still collected afterwards
  (`service_monitor.go:288`); `service_monitor_test.go:257` expects the collector
  not to be called any more.
* With a limit smaller than one replica the limiter may round back to the
  replicas there are, and never gets on; it rounds up past the limit; with a
  smaller desired replica it may exceed `maxReplicas` (`scaling_action.go:341`).
* With equal compute totals a change of GPUs per replica is dropped while the
  replicas change (`scaling_action.go:268`).
* A desired fraction of a percent of compute is stored without the fraction, so
  that the next round finds a difference again (`resourceclaim_handler.go:273`).
* Two calls that read the same generation, where the slower one finds the
  template the faster one has already patched in and replaces it because it asks
  for another size, and a handler that cleans up, can both take the template in
  use away for a time (`resourceclaim_handler.go:209`, `:625`). `InUseWhenExclusive`
  says that nothing else does.
* `desiredReplicas` is recorded before it is put into force, and stays if that
  fails or nothing was discovered (`scaler.go:413`).
* A new Monitor is shared before its status update. If the update is refused
  because the endpoint was taken back, `currentEndpoint` already matches and the
  withdrawn Monitor stays (`rcacontrollerconfig_controller.go:75`). There is no
  other way to get there (`EndpointLeftOnlyByRefusal`, proved). Edited queries
  with the same endpoint have no effect; registered collectors keep the Monitor
  they were created with (`resourceclaimautoscaler_controller.go:287`); `Connected`
  is true of an endpoint that does not answer
  (`rcacontrollerconfig_controller.go:124`).
* MinTargetUtilization compares a percentage with a ratio and so blocks every
  scale-down under traffic (`scaling_action.go:62`, "already a ratio";
  `resourceclaimautoscaler_types.go:266`, "Values should be between 0.0 and 1.0").
* A status update refused after the patch of the workload is only logged
  (`scaler.go:543`): from then on the status names a template the workload does
  not use, and later patches replace nothing
  (`resourceclaim_handler.go:143`, "build on the latest configuration").
* Pods of different owners behind one service: the list of slices has no order,
  the message names the pods in the order of the list, and each new message is a
  status update that queues the object again. `StatusSettles` excludes it
  (`Mixed`).
* If the first pod of the list is skipped the comparison at `discovery.go:130`
  dereferences nil; the reconciler recovers and retries. Only the first template
  reference of a pod spec is looked at, so a second one with the right device
  class is not found. Nothing watches services, slices or pods: a discovery that
  found no pods waits for another event.
* The search ignores `minReplicas` and `minCountPerReplica`
  (`resource_optimizer.go:195`); rounding the memory up may pass the maximum; a
  step of 0 for compute never ends the loop at `resource_optimizer.go:277`, and
  for memory divides by zero.
* A failed collection looks like no traffic, and the round asks for the minimum
  (`scaler.go:70`, `metric_handler.go:46`).
* Latency offsets: the deviation from the raw estimate is added to an offset that
  already contains it (`scaler.go:606`), round after round. The other latency gets
  its difference without the "only positive" clamp (`scaler.go:623`), also when it
  was not measured. A Get that fails discards the offsets of the round.
* The batch counts twice in the memory of the cache
  (`resource_estimator.go:199`); `tuneWithComputeMetric` divides by a utilization
  of 0 when it is unknown (`resource_estimator.go:254`); an estimate of the total
  that is not above 0 is not recorded (`scaler.go:462`).

## 5. The proofs

### 5.1 ServiceMonitorProofs

Assumption: `NoneAssumption` (None is neither an event nor a spec). For any sets
of keys, events, timers and specs:

* `TypeCorrect`: `Spec => []TypeOK`;
* `RegistrationsStayAlive`: `Spec => []NoSilentRegistration`;
* `TimersNeverDouble`: `Spec => []OneLiveTimer`;
* `AbandonedStaySilent`: `Spec => NoTriggerOnceAbandoned`;
* `MonitorImplementsSampling`: `Spec => ImplementsSampling`, the refinement.

The inductive invariant `IInv` has five parts. `NoSilentRegistration` is the aim:
each step hands the chain over, from the timer to the buffer, from the buffer to
the loop, from the loop to a new timer. It is not inductive alone. A loop
re-arms by key, so one needs that an event is registered under its own key only
(`RegisteredUnderOwnKey`); otherwise cancelling the timer of one key could cut the
chain of another. That a select which gives a live timer up leaves a trigger in
the buffer needs what a timer slot looks like (`TimersWellFormed`) and that the
spec it sends is not nil (`TypeOK`). `OneLiveTimer` rests on UpdateTriggerTime
cancelling before it arms. There is one lemma per action and in it one step per
part. `AbandonedStaySilent` adds `AbandonedClosed`: an event that lost its
registration while its loop runs has a closed channel.

The refinement uses the same two. A step changes what `Sampling` sees of an event
in three ways: a registration or removal (`RegisterImplements`), a send that fills
the buffer, which makes a call owed only to an event whose channel is open and
which is therefore registered (`TimerSelectsImplements`), and a loop that starts or
ends a call or exits (`LoopImplements`); a loop that exits with a trigger still
buffered was cancelled, so its event is not registered. Every other step is a
stutter (`QuietStutters`).

### 5.2 ScalingActionProofs and ScalingRoundsProofs

`ScalingActionProofs` has the lemmas about the decision's operators that two
other modules rest on. `CeilBounds` (rounding up adds less than one replica) and
`CeilLeast` (it needs no more replicas than any number that is enough) are the
arithmetic; `LimiterStep` says what a capped step does to the number of GPUs,
`DecisionShape` that a decision has one of three actions and a configuration with
whole replicas of at least one GPU.

Assumption: `ConfigAssumption` (naturals, GPUs at least one). For any limits,
configurations and sequences of demands:

* `LimiterStopsAtTarget`: `Spec => []NeverPastTarget`;
* `LimiterNearLimit`: `Spec => []StepNearLimit`;
* `LimiterGetsNearer`: `Spec => []StepGetsNearer`, which is why the run
  `rounds_converge` has no scale-down limit smaller than a replica.

The invariant is that the configuration in force has natural fields and at least
one GPU per replica, which a capped step keeps because its total is at least one.

### 5.3 ScalingLifecycleProofs

Assumptions: `ProcAssumption` (calls, handlers and the reconciler are different
processes, `None` is nothing else, `MaxGen` is at least 1) and `ConfigAssumption`
(the configurations asked for and the limits are natural numbers, a replica has
a GPU). For any sets of calls, handlers and claims, any `Desired`, any limits,
requests that fail and crashes:

* `LifecycleTypes`: `Spec => []TypeOK`;
* `RollbackPointIsStable`: `Spec => []StableRollbackPoint`;
* `NothingBeforeFinalizer`: `Spec => []UntouchedUntilFinalizer`;
* `NoMonitoringOfTheGone`: `Spec => []GoneIsUnregistered`;
* `GracePeriodHolds`: `Spec => OneApplyPerGrace`;
* `TemplateMovesForward`: `Spec => DesiredTemplateMovesForward`;
* `DeletionRestores`: `Spec => RestoredWhenQuiet`;
* `InUseIsNotReplaced`: `Spec => InUseWhenExclusive`;
* `DeletionStepsForward`: `Spec => DeletionForward`, the part of
  `DeletionCompletes` that does not depend on fairness. While the object has a
  deletion timestamp the reconciler goes from one step of `FollowUp` to the next;
  only a crash, a failed request or a copy out of date sets it back, and only the
  last step lets the object go.

None of them is inductive; `IInv` has seven parts, which need each other.

* `ReconcilerInStep`: the reconciler works on an object in the state it read,
  because it alone adds and removes the finalizer and writes the discovery. A
  status update of anyone else makes its copy old, not wrong.
* `RegisteredWhileAlive` says when there is no registration: before the finalizer
  and from the first step of a deletion on.
* `DiscoveredIsOrig`, the rollback point, rests on `UntouchedUntilDiscovered`: as
  long as nothing was discovered no call is past the point where it looks for the
  template to replace, so the workload that discovery sees is the original one.
* `DecidedOutsideGrace`: a call that can still record its decision has the stored
  copy, so the grace periods are those it decided by.
* `NamesMoveForward`: template names are past generations of the workload, and a
  call that can still store its own has one that is not older than the stored.

For `RestoredWhenQuiet` a part `Restored` is added: without calls, what `RecCleansUp`
restored stays restored until the object is gone. The theorem's premise is an
invariant itself, so the induction is over the states where it holds. In the same
way `InUseKept` is added for `InUseWhenExclusive`: the workload's template is older
than its generation, because every patch raises the generation, so that a call
which names its template after the generation it has just read names another one;
and a call about to patch has its template.

The steps of a call are described once (`Edge`, `CallMoves`): which transitions
of a call's record there are and what each does to the object; each part of the
invariant then goes over the edges and not over the actions.

### 5.4 LatencyModelProofs

Assumption: `ModelAssumption` (costs are naturals, units are positive). About the
estimates as operators, for every model, GPU, load and offset:

* `LessComputeIsSlower`: if a single replica with less compute is stable, so is
  one with more, and none of its latencies is longer, the wait included.

The lemmas are the types of all operators (`LatencyNat`: numbers, those of one
request not negative), and the facts about the wait:

* `ErlangTermsRecursion`: the recursive definition has a solution. The functions
  that satisfy it up to a number of replicas exist for every number (`UpToExists`)
  and agree (`UpToAgrees`); both by a least counterexample (`LeastNatural`, from
  `WFMin`), as the induction theorems of the library cannot be instantiated.
* `ErlangCTyped`, `QueueWaitInt`: no denominator is zero, the wait is an integer,
  not negative when one replica can carry the load and not positive when it
  cannot.
* `OneReplicaWait`: for one replica the load that is left cancels, and the wait
  is the square of the service time, times the load asked for, over a constant.
  From this form it follows that the wait grows with the service time
  (`OneReplicaWaitMonotonic`); and the service time shrinks with the compute,
  through both roundings and all clamps (`PartsAntitone`).

### 5.5 OptimizerSearchProofs

Assumptions: `ModelAssumption` and `SearchAssumption` (costs are naturals, steps
positive, which the CRD does not enforce (section 4), compute from 1 to 100
percent; the least number of replicas may be 0, and the user's least memory above
the largest). For any model and GPU, any specs of this kind, samples and number of
rounds:

* `SearchTyped`: `Spec => []TypeOK`;
* `FoundIsEnough`: `Spec => []EnoughWithinLimits`;
* `FoundIsFirst`: `Spec => []FirstThatMeets`;
* `FoundIsSmallest`: `Spec => []SmallestCompute`;
* `RecordedIsEstimated`: `Spec => OnlyEstimatesRecorded`;
* `WaitAddsBelowOneReplica`: `Spec => []WaitSign`, the extent of the finding
  `search_wait`: what is returned has an end-to-end latency of at least the time
  of service if one replica could carry the load, and of at most that if not;
* `SearchStepsForward`: `Spec => StepsForward`, the part of termination that does
  not depend on fairness. Each step goes to a later pair of replicas and GPUs, to
  less compute, or to a later phase, and these are finitely many.

`IInv`: the types without the queue wait (`Typed`); every pair before `at` misses
the targets or does not fit, and `tested` is the last of those that fit
(`Tried`); a configuration that is being shrunk meets the targets (`Shrinking`)
and already has what the theorems say of the result (`Chosen`: `Enough` and
`First`); an estimate without traffic or stability is zero (`Estimated`). The
arithmetic is in `AllGPUs` (the budget of GPUs never cuts the GPUs of a replica
within the limits), `NextInOrder` (the order of the loops skips nothing) and
`AlignedEnough` (the memory rounded to a step). `IInv` never looks into the wait
in the queue: what follows from it alone, the first pair and enough memory, holds
for any estimate of it.

The other three add a part each. `Records`: what was tried and found has its type.
For `SmallestCompute`, what the shrinking loop has left behind meets the targets
and the next step down misses them (`ShrunkToTheLeast`); that all steps below miss
them as well is `LessComputeMisses`, from `LessComputeIsSlower`. The property is
about a single replica, and so is the proof: for several the wait may shrink as
the service gets longer, since it is negative. `EstimateKept`: the estimate
recorded with a configuration is the one of its own numbers.

### 5.6 DiscoveryProofs

Assumption: `ObjectAssumption` (finitely many objects of fixed kinds and owners).
For any ownership, any claims and classes, any order of the pods and any number
of changes, failures and crashes:

* `DiscoveryTypes`: `Spec => []TypeOK`;
* `WhatIsFoundIsRight`: `Spec => []FoundIsRight`;
* `DiscoveryIsFinal`: `Spec => DiscoveryStays`;
* `DiscoveryStepsForward`: `Spec => DiscoveryForward`, the part of the end of a
  discovery that does not depend on fairness. Each step is a later one, at the
  next pod of a list that stays as it was read, or one owner higher. The code has
  no bound on the walk and no check for cycles; the theorem says what bounds it:
  where ownership is acyclic (`Acyclic`, for this conjunct only) the set of objects
  above the current one loses a member with every step.

`IInv` says where discovery is (`Progress`). The pods of the list before the
current one are dealt with: each was skipped or has the common owner on top, and
if there is a common owner then the first pod was not skipped (`DealtWith`). The
object of the walk has the same top as the pod it started from. In the last
phases the common owner, its kind and its template are what the result will say.
That a pod skipped later is not the first one needs that the list names each pod
once. `TopOf` is recursive, along a relation that may have cycles: the lemma
`TopOfEquation` shows that a function with its equation exists, built from the
objects above one (`Above`), so that its definition can be used.

`DiscoveredOnce` is added for `DiscoveryStays`: with a result in the status no
discovery is under way, so none can end with another one, and the condition is
that of the result.

### 5.7 ControllerConfigProofs

Assumption: `SettingsAssumption`. For any configs, autoscalers and specs:

* `RegisteredWithMonitor`: `Spec => []TypeOK`. A registration captures a Monitor
  that is not nil although it reads it without the lock.
* `OnlyRefusalLeavesEndpoint`: `Spec => EndpointLeftOnlyByRefusal`.

`WorkerInStep` is what it takes: a reconciliation at work has the name and spec
of an object, which is stored as long as its copy is fresh, so that the status
update writes to an object that is there; and at "share" there is a Monitor.
`OneMonitorPerSetup` is added for the second theorem: from "share" on a setup
works on the Monitor of its own copy, and until it is done nobody shares another.

### 5.8 Only model-checked

Liveness: fairness and ENABLED are out of the prover's reach. These are
`LoopsEnd`, `SampledForever`, `Converges`, `DeletionCompletes`,
`MonitorGetsShared`, `MonitoredAtLast`, `ChangedEndpointTakesEffect`,
`LogLevelTakesEffect`, `DiscoveredAtLast`, `StatusSettles` and `EvaluationEnds`.
What some of them rest on is proved: something is always there to trigger a
registered autoscaler (`NoSilentRegistration`), a capped step gets nearer
(`StepGetsNearer`), and deletion, discovery and search never go round in circles
(`DeletionStepsForward`, `DiscoveryStepsForward`, `SearchStepsForward`).

Every invariant and every action property of the passing runs is a theorem.

## 6. Not modelled

* The calibration of an unknown model or GPU (`tuneModelParams`,
  `tuneDynamicMemory`, `tuneWithComputeMetric`) and the derivation of costs from a
  model's name: regular expressions and floating-point formulas without state
  that survives a round.
* The parsing of metric texts, beyond "a value, or 0".
* The violation computations of `collector.go`, which the controller does not
  call, and the texts of queries and messages.
* Periods: a timer may expire, and a grace period elapse, at any time.
* API types, generated code, flags and wiring of the process, the benchmark.

## 7. Plan

1. An autoscaler that is deleted and created again under its name, beside the
   calls of its predecessor.
2. Several configs that compete for the one Monitor, as a run: the proofs already
   allow any number of them.
3. Proofs: that `StatusSettles` and the service monitor's `LoopsEnd` have a
   measure, as deletion, discovery and search have.
