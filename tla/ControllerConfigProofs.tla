----------------------- MODULE ControllerConfigProofs -----------------------
(***************************************************************************)
(* TLAPS proofs about ControllerConfig, for any configs, autoscalers and   *)
(* monitoring specs.                                                       *)
(***************************************************************************)
EXTENDS ControllerConfig, TLAPS

Stored == [spec : Settings, status : [connected : BOOLEAN, available : BOOLEAN]]

Workers ==
    [pc : {"idle", "create", "share", "validate", "status", "log"},
     name : Configs \cup {None}, spec : Settings \cup {None},
     connected : BOOLEAN, available : BOOLEAN]

(* The config reconciler at work has a copy of an object, which is stored as *)
(* long as nothing else wrote it; what it shares is a Monitor.               *)
WorkerInStep ==
    /\ rec \in Workers /\ fresh \in BOOLEAN
    /\ rec.pc # "idle" => rec.name \in Configs /\ rec.spec \in Settings
    /\ rec.pc \in {"create", "share", "validate", "status"} /\ fresh =>
        config[rec.name] \in Stored
    /\ rec.pc = "share" => monitor \in Settings

IInv == TypeOK /\ WorkerInStep

-----------------------------------------------------------------------------
(* An idle worker.                                                           *)
LEMMA IdleTyped == Idle \in Workers /\ Idle.pc = "idle"
BY DEF Idle, Workers

(* At first nothing is shared and nobody works.                              *)
LEMMA InitIInv == Init => IInv
<1> SUFFICES ASSUME Init PROVE IInv OBVIOUS
<1>1. WorkerInStep BY IdleTyped DEF Init, WorkerInStep
<1>2. rec.pc = "idle" /\ rec.name = None /\ rec.spec = None BY DEF Init, Idle
<1>3. TypeOK BY <1>2 DEF Init, TypeOK
<1> QED BY <1>1, <1>3 DEF IInv

(* The reconciliation of a config, step by step.                             *)
LEMMA RecGetsKeeps == ASSUME NEW c \in Configs PROVE IInv /\ RecGets(c) => IInv'
<1> SUFFICES ASSUME IInv, RecGets(c) PROVE IInv' OBVIOUS
<1> DEFINE p == IF monitor = None \/ currentEndpoint # config[c].spec.endpoint
                THEN "create" ELSE "log"
<1>1. config[c] \in Stored BY DEF IInv, TypeOK, RecGets, Stored
<1>2. config[c].spec \in Settings BY <1>1 DEF Stored
<1>3. p \in {"create", "log"} OBVIOUS
<1>4. rec' = [Idle EXCEPT !.name = c, !.spec = config[c].spec, !.pc = p]
  BY DEF RecGets
<1> HIDE DEF p
<1>5. rec' \in Workers /\ rec'.name = c /\ rec'.spec = config[c].spec /\ rec'.pc = p
  BY <1>2, <1>3, <1>4, IdleTyped DEF Workers
<1>6. WorkerInStep' BY <1>1, <1>2, <1>3, <1>5 DEF WorkerInStep, RecGets
<1>7. TypeOK' BY <1>5 DEF IInv, TypeOK, RecGets, avars, Workers
<1> QED BY <1>6, <1>7 DEF IInv

(* What is shared is the Monitor of the copy, never nil.                     *)
LEMMA RecContinuesKeeps == IInv /\ RecContinues => IInv'
<1> SUFFICES ASSUME IInv, RecContinues PROVE IInv' OBVIOUS
<1>0. TypeOK /\ WorkerInStep /\ rec \in Workers /\ fresh \in BOOLEAN
  BY DEF IInv, WorkerInStep
<1>1. CASE RecCreatesMonitor
  <2>1. rec.name \in Configs /\ rec.spec \in Settings /\ monitor' = rec.spec
    BY <1>0, <1>1 DEF WorkerInStep, RecCreatesMonitor
  <2>2. /\ rec' \in Workers /\ rec'.pc = "share" /\ rec'.name = rec.name
        /\ rec'.spec = rec.spec
    BY <1>0, <1>1 DEF Workers, RecCreatesMonitor
  <2>3. WorkerInStep' BY <1>0, <1>1, <2>1, <2>2 DEF WorkerInStep, RecCreatesMonitor
  <2>4. TypeOK' BY <1>0, <1>1, <2>1, <2>2 DEF TypeOK, RecCreatesMonitor, avars
  <2> QED BY <2>3, <2>4 DEF IInv
<1>2. CASE RecSharesMonitor
  <2>1. rec.name \in Configs /\ rec.spec \in Settings /\ monitor \in Settings /\ shared' = monitor
    BY <1>0, <1>2 DEF WorkerInStep, RecSharesMonitor
  <2>2. /\ rec' \in Workers /\ rec'.pc = "validate" /\ rec'.name = rec.name
        /\ rec'.spec = rec.spec
    BY <1>0, <1>2 DEF Workers, RecSharesMonitor
  <2>3. WorkerInStep' BY <1>0, <1>2, <2>1, <2>2 DEF WorkerInStep, RecSharesMonitor
  <2>4. monitor # None BY <2>1, SettingsAssumption
  <2>5. TypeOK' BY <1>0, <1>2, <2>1, <2>2, <2>4 DEF TypeOK, RecSharesMonitor, avars
  <2> QED BY <2>3, <2>5 DEF IInv
<1>3. CASE RecValidates
  <2>1. rec.name \in Configs /\ rec.spec \in Settings
    BY <1>0, <1>3 DEF WorkerInStep, RecValidates
  <2>2. PICK ok \in BOOLEAN :
          rec' = [rec EXCEPT !.pc = "status",
                             !.connected = rec.spec.endpoint \in Parsable,
                             !.available = rec.spec.endpoint \in Parsable /\ ok]
    BY <1>3 DEF RecValidates
  <2>3. /\ rec' \in Workers /\ rec'.pc = "status" /\ rec'.name = rec.name
        /\ rec'.spec = rec.spec
    <3> DEFINE x == rec.spec.endpoint \in Parsable
               y == rec.spec.endpoint \in Parsable /\ ok
    <3>1. x \in BOOLEAN /\ y \in BOOLEAN OBVIOUS
    <3>2. rec' = [rec EXCEPT !.pc = "status", !.connected = x, !.available = y] BY <2>2
    <3> HIDE DEF x, y
    <3> QED BY <1>0, <3>1, <3>2 DEF Workers
  <2>4. WorkerInStep' BY <1>0, <1>3, <2>1, <2>3 DEF WorkerInStep, RecValidates
  <2>5. TypeOK' BY <1>0, <1>3, <2>1, <2>3 DEF TypeOK, RecValidates, avars
  <2> QED BY <2>4, <2>5 DEF IInv
<1>4. CASE RecUpdatesStatus
  <2>1. /\ rec.name \in Configs /\ rec.spec \in Settings /\ config[rec.name] \in Stored
        /\ rec.pc = "status"
    BY <1>0, <1>4 DEF WorkerInStep, RecUpdatesStatus
  <2>2. /\ rec' \in Workers /\ rec'.pc = "log" /\ rec'.name = rec.name
        /\ rec'.spec = rec.spec
    BY <1>0, <1>4 DEF Workers, RecUpdatesStatus
  <2>3. config' \in [Configs -> {None} \cup Stored]
    <3> DEFINE old == config[rec.name]
               a == IF rec.connected THEN rec.available ELSE old.status.available
               st == [connected |-> rec.connected, available |-> a]
               new == [old EXCEPT !.status = st]
    <3>1. config' = [config EXCEPT ![rec.name] = new] BY <1>4 DEF RecUpdatesStatus
    <3>2. rec.connected \in BOOLEAN /\ rec.available \in BOOLEAN BY <1>0 DEF Workers
    <3>3. a \in BOOLEAN BY <2>1, <3>2 DEF Stored
    <3> HIDE DEF a
    <3>4. st \in [connected : BOOLEAN, available : BOOLEAN] BY <3>2, <3>3
    <3> HIDE DEF st
    <3>5. new \in Stored BY <2>1, <3>4 DEF Stored
    <3> HIDE DEF new
    <3>6. config \in [Configs -> {None} \cup Stored] BY <1>0 DEF TypeOK, Stored
    <3> QED BY <2>1, <3>1, <3>5, <3>6
  <2>4. currentEndpoint' \in Endpoints BY <1>4, <2>1 DEF RecUpdatesStatus, Endpoints
  <2>5. WorkerInStep' BY <1>0, <1>4, <2>1, <2>2 DEF WorkerInStep, RecUpdatesStatus
  <2>6. TypeOK' BY <1>0, <1>4, <2>1, <2>2, <2>3, <2>4 DEF TypeOK, RecUpdatesStatus, avars, Stored
  <2> QED BY <2>5, <2>6 DEF IInv
<1>5. CASE RecStatusRefused
  <2>1. WorkerInStep' BY <1>0, <1>5, IdleTyped DEF WorkerInStep, RecStatusRefused
  <2>2. TypeOK' BY <1>0, <1>5, IdleTyped DEF TypeOK, RecStatusRefused, avars, Workers
  <2> QED BY <2>1, <2>2 DEF IInv
<1>6. CASE RecSetsLogLevel
  <2>1. currentLogLevel' \in Levels
    BY <1>0, <1>6 DEF WorkerInStep, RecSetsLogLevel, Levels
  <2>2. WorkerInStep' BY <1>0, <1>6, IdleTyped DEF WorkerInStep, RecSetsLogLevel
  <2>3. TypeOK' BY <1>0, <1>6, <2>1, IdleTyped DEF TypeOK, RecSetsLogLevel, avars, Workers
  <2> QED BY <2>2, <2>3 DEF IInv
<1> QED BY <1>1, <1>2, <1>3, <1>4, <1>5, <1>6 DEF RecContinues

(* The autoscaler reconciler and the collections touch nothing of it.        *)
LEMMA AutoscalersKeep ==
    ASSUME NEW s \in Autoscalers,
           IInv,
           \/ AutoscalerStep(s) \/ AutoscalerQueued(s) \/ AutoscalerDeleted(s)
           \/ CollectStarts(s) \/ CollectEnds(s)
    PROVE  IInv'
<1>0. TypeOK /\ WorkerInStep BY DEF IInv
<1>1. UNCHANGED <<config, reachable, cvars, shared>>
  BY DEF AutoscalerStep, AutoscalerWaits, AutoscalerReconciled, NewRegisteration,
         AutoscalerRemoved, AutoscalerQueued, AutoscalerDeleted, CollectStarts, CollectEnds
<1>2. WorkerInStep' BY <1>0, <1>1 DEF WorkerInStep, cvars
<1>3. queue' \in [Autoscalers -> {"absent", "queued", "delayed", "done", "removed"}]
  BY <1>0
  DEF TypeOK, AutoscalerStep, AutoscalerWaits, AutoscalerReconciled, NewRegisteration,
      AutoscalerRemoved, AutoscalerQueued, AutoscalerDeleted, CollectStarts, CollectEnds, avars
<1>4. /\ registering' \in Autoscalers \cup {None}
      /\ registering' # None => shared # None
  BY <1>0
  DEF TypeOK, AutoscalerStep, AutoscalerWaits, AutoscalerReconciled, NewRegisteration,
      AutoscalerRemoved, AutoscalerQueued, AutoscalerDeleted, CollectStarts, CollectEnds, avars
<1>5. collector' \in [Autoscalers -> Settings \cup {None}]
  BY <1>0
  DEF TypeOK, AutoscalerStep, AutoscalerWaits, AutoscalerReconciled, NewRegisteration,
      AutoscalerRemoved, AutoscalerQueued, AutoscalerDeleted, CollectStarts, CollectEnds, avars
<1>6. reading' \subseteq Autoscalers
  BY <1>0
  DEF TypeOK, AutoscalerStep, AutoscalerWaits, AutoscalerReconciled, NewRegisteration,
      AutoscalerRemoved, AutoscalerQueued, AutoscalerDeleted, CollectStarts, CollectEnds
<1>7. TypeOK' BY <1>0, <1>1, <1>3, <1>4, <1>5, <1>6 DEF TypeOK, cvars
<1> QED BY <1>2, <1>7 DEF IInv

(* A user's edit makes the reconciler's copy of that object stale.           *)
LEMMA UsersKeep ==
    ASSUME NEW c \in Configs, NEW s \in Settings, IInv, UserApplies(c, s) \/ UserDeletes(c)
    PROVE  IInv'
<1>0. TypeOK /\ WorkerInStep BY DEF IInv
<1>1. PICK v \in {None} \cup Stored : config' = [config EXCEPT ![c] = v]
  <2>1. CASE UserDeletes(c) BY <2>1 DEF UserDeletes
  <2>2. CASE UserApplies(c, s)
    <3> DEFINE st == IF config[c] = None THEN NoStatus ELSE config[c].status
    <3>1. st \in [connected : BOOLEAN, available : BOOLEAN] BY <1>0 DEF TypeOK, NoStatus
    <3>2. config' = [config EXCEPT ![c] = [spec |-> s, status |-> st]]
      BY <2>2 DEF UserApplies
    <3> HIDE DEF st
    <3>3. [spec |-> s, status |-> st] \in Stored BY <3>1 DEF Stored
    <3> QED BY <3>2, <3>3
  <2> QED BY <2>1, <2>2
<1>2. config \in [Configs -> {None} \cup Stored] BY <1>0 DEF TypeOK, Stored
<1>3. /\ config' \in [Configs -> {None} \cup Stored]
      /\ \A x \in Configs : x # c => config'[x] = config[x]
  BY <1>1, <1>2
<1>4. fresh' = (fresh /\ rec.name # c) BY DEF UserApplies, UserDeletes
<1>5. UNCHANGED <<reachable, monitor, currentEndpoint, currentLogLevel, rec, shared, avars, reading>>
  BY DEF UserApplies, UserDeletes
<1>6. fresh' \in BOOLEAN BY <1>4
<1>7. WorkerInStep' BY <1>0, <1>3, <1>4, <1>5, <1>6 DEF WorkerInStep
<1>8. TypeOK' BY <1>0, <1>3, <1>5 DEF TypeOK, Stored, avars
<1> QED BY <1>7, <1>8 DEF IInv

(* IInv is inductive.                                                        *)
LEMMA NextIInv == IInv /\ [Next]_vars => IInv'
<1> SUFFICES ASSUME IInv, [Next]_vars PROVE IInv' OBVIOUS
<1>1. ASSUME NEW c \in Configs, RecGets(c) PROVE IInv' BY <1>1, RecGetsKeeps
<1>2. ASSUME NEW c \in Configs, UserDeletes(c) PROVE IInv'
  <2>1. config[c] \in Stored BY <1>2 DEF UserDeletes, IInv, TypeOK, Stored
  <2>2. config[c].spec \in Settings BY <2>1 DEF Stored
  <2> QED BY <1>2, <2>2, UsersKeep
<1>3. ASSUME NEW c \in Configs, NEW s \in Settings, UserApplies(c, s) PROVE IInv'
  BY <1>3, UsersKeep
<1>4. CASE RecContinues BY <1>4, RecContinuesKeeps
<1>5. ASSUME NEW s \in Autoscalers,
             \/ AutoscalerStep(s) \/ AutoscalerQueued(s) \/ AutoscalerDeleted(s)
             \/ CollectStarts(s) \/ CollectEnds(s)
      PROVE  IInv'
  BY <1>5, AutoscalersKeep
<1>6. CASE ReachabilityChanges
  BY <1>6 DEF IInv, TypeOK, WorkerInStep, ReachabilityChanges, cvars, avars
<1>7. CASE Crash
  <2>1. WorkerInStep' BY <1>7, IdleTyped DEF Crash, WorkerInStep
  <2>2. TypeOK' BY <1>7, IdleTyped DEF IInv, TypeOK, Crash, Workers
  <2> QED BY <2>1, <2>2 DEF IInv
<1>8. CASE UNCHANGED vars
  BY <1>8 DEF IInv, TypeOK, WorkerInStep, vars, cvars, avars
<1> QED BY <1>1, <1>2, <1>3, <1>4, <1>5, <1>6, <1>7, <1>8 DEF Next

(* The inductive invariant holds in every reachable state.                   *)
LEMMA Invariance == Spec => []IInv
BY InitIInv, NextIInv, PTL DEF Spec

(* TypeOK, for every set of configs and autoscalers: above all, the          *)
(* unlocked read of the Monitor in NewRegisteration never sees nil, because  *)
(* nothing but a crash, which ends the registration too, takes a shared      *)
(* Monitor away.                                                             *)
THEOREM RegisteredWithMonitor == Spec => []TypeOK
<1>1. IInv => TypeOK BY DEF IInv
<1> QED BY <1>1, Invariance, PTL

-----------------------------------------------------------------------------
(* A setup works on one Monitor: that of the copy it started with.           *)
OneMonitorPerSetup ==
    /\ rec.pc = "share" => monitor = rec.spec
    /\ rec.pc \in {"validate", "status"} => shared = rec.spec

(* Each step of a setup hands its Monitor on, and nobody else shares one.    *)
LEMMA SetupInductive ==
    ASSUME IInv, OneMonitorPerSetup, [Next]_vars
    PROVE  OneMonitorPerSetup'
<1>0. rec \in Workers BY DEF IInv, WorkerInStep
<1>1. CASE UNCHANGED <<rec, monitor, shared>> BY <1>1 DEF OneMonitorPerSetup
<1>2. ASSUME NEW c \in Configs, RecGets(c) PROVE OneMonitorPerSetup'
  <2>1. rec'.pc \in {"create", "log"} BY <1>2 DEF RecGets, Idle
  <2> QED BY <2>1 DEF OneMonitorPerSetup
<1>3. CASE RecCreatesMonitor
  <2>1. rec'.pc = "share" /\ rec'.spec = rec.spec /\ monitor' = rec.spec
    BY <1>0, <1>3 DEF RecCreatesMonitor, Workers
  <2> QED BY <2>1 DEF OneMonitorPerSetup
<1>4. CASE RecSharesMonitor
  <2>1. rec.pc = "share" /\ rec'.pc = "validate" /\ rec'.spec = rec.spec /\ shared' = monitor
    BY <1>0, <1>4 DEF RecSharesMonitor, Workers
  <2> QED BY <2>1 DEF OneMonitorPerSetup
<1>5. CASE RecValidates
  <2>1. /\ rec.pc = "validate" /\ rec'.pc = "status" /\ rec'.spec = rec.spec
        /\ shared' = shared
    BY <1>0, <1>5 DEF RecValidates, Workers
  <2> QED BY <2>1 DEF OneMonitorPerSetup
<1>6. CASE RecUpdatesStatus
  <2>1. rec'.pc = "log" BY <1>0, <1>6 DEF RecUpdatesStatus, Workers
  <2> QED BY <2>1 DEF OneMonitorPerSetup
<1>7. CASE rec' = Idle
  <2>1. rec'.pc = "idle" BY <1>7 DEF Idle
  <2> QED BY <2>1 DEF OneMonitorPerSetup
<1> QED BY <1>1, <1>2, <1>3, <1>4, <1>5, <1>6, <1>7
    DEF Next, RecContinues, RecStatusRefused, RecSetsLogLevel, UserApplies, UserDeletes,
        AutoscalerStep, AutoscalerWaits, AutoscalerReconciled, NewRegisteration,
        AutoscalerRemoved, AutoscalerQueued, AutoscalerDeleted, CollectStarts, CollectEnds,
        ReachabilityChanges, Crash, vars, cvars

(* EndpointLeftOnlyByRefusal, for any number of configs and autoscalers: a   *)
(* complete setup leaves the shared Monitor on the endpoint it records, and  *)
(* nothing but a refused status update, which leaves setupMonitoring after   *)
(* SetMonitor and before r.currentEndpoint is set, parts the two.            *)
THEOREM OnlyRefusalLeavesEndpoint == Spec => EndpointLeftOnlyByRefusal
<1>1. Init => OneMonitorPerSetup BY DEF Init, OneMonitorPerSetup, Idle
<1>2. ASSUME IInv, OneMonitorPerSetup, [Next]_vars, EndpointInUse, ~RecStatusRefused
      PROVE  EndpointInUse'
  <2>0. rec \in Workers BY <1>2 DEF IInv, WorkerInStep
  <2>1. CASE UNCHANGED <<rec, shared, currentEndpoint>> BY <1>2, <2>1 DEF EndpointInUse
  <2>2. ASSUME NEW c \in Configs, RecGets(c) PROVE EndpointInUse'
    <3>1. rec.pc = "idle" /\ UNCHANGED <<shared, currentEndpoint>> BY <2>2 DEF RecGets
    <3> QED BY <1>2, <3>1 DEF EndpointInUse
  <2>3. CASE RecCreatesMonitor
    <3>1. rec'.pc = "share" BY <2>0, <2>3 DEF RecCreatesMonitor, Workers
    <3> QED BY <3>1 DEF EndpointInUse
  <2>4. CASE RecSharesMonitor
    <3>1. rec'.pc = "validate" BY <2>0, <2>4 DEF RecSharesMonitor, Workers
    <3> QED BY <3>1 DEF EndpointInUse
  <2>5. CASE RecValidates
    <3>1. rec'.pc = "status" BY <2>0, <2>5 DEF RecValidates, Workers
    <3> QED BY <3>1 DEF EndpointInUse
  <2>6. CASE RecUpdatesStatus
    <3>1. /\ rec.pc = "status" /\ shared' = shared
          /\ currentEndpoint' = rec.spec.endpoint
      BY <2>6 DEF RecUpdatesStatus
    <3>2. shared = rec.spec /\ shared # None
      BY <1>2, <3>1, SettingsAssumption DEF OneMonitorPerSetup, IInv, WorkerInStep
    <3> QED BY <3>1, <3>2 DEF EndpointInUse
  <2>7. CASE RecSetsLogLevel
    <3>1. rec.pc = "log" /\ UNCHANGED <<shared, currentEndpoint>> BY <2>7 DEF RecSetsLogLevel
    <3> QED BY <1>2, <3>1 DEF EndpointInUse
  <2>8. CASE Crash
    <3>1. currentEndpoint' = None BY <2>8 DEF Crash
    <3> QED BY <3>1 DEF EndpointInUse
  <2> QED BY <1>2, <2>1, <2>2, <2>3, <2>4, <2>5, <2>6, <2>7, <2>8
      DEF Next, RecContinues, UserApplies, UserDeletes,
          AutoscalerStep, AutoscalerWaits, AutoscalerReconciled, NewRegisteration,
          AutoscalerRemoved, AutoscalerQueued, AutoscalerDeleted, CollectStarts, CollectEnds,
          ReachabilityChanges, vars, cvars
<1>3. IInv /\ OneMonitorPerSetup /\ [Next]_vars =>
        [EndpointInUse /\ ~EndpointInUse' => RecStatusRefused]_vars
  BY <1>2
<1> QED BY <1>1, <1>3, SetupInductive, Invariance, PTL DEF Spec, EndpointLeftOnlyByRefusal
=============================================================================
