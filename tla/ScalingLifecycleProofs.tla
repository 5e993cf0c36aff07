----------------------- MODULE ScalingLifecycleProofs -----------------------
(***************************************************************************)
(* TLAPS proofs about ScalingLifecycle: for any number of overlapping      *)
(* calls, handlers and claims, any configurations and limits, with failing *)
(* requests and crashes.                                                   *)
(***************************************************************************)
EXTENDS ScalingLifecycle, ScalingActionProofs

(* The reconciler and the life of the object.  What it read of the status is *)
(* what is stored, as nobody else writes Status.Discovery; it works on an    *)
(* object of the kind it found, as only it adds and removes the finalizer.   *)
ReconcilerInStep ==
    /\ rec.pc = "addfin" => a.life \in {"new", "gone"}
    /\ rec.pc = "addfin" /\ Rec \in current => a.life = "new"
    /\ rec.pc \in {"discover", "register", "status"} => a.life \in {"active", "deleting"}
    /\ rec.pc \in {"unregister", "cleanup", "finalize"} => a.life = "deleting"
    /\ rec.pc \in {"discover", "unregister", "cleanup"} => rec.disc = a.disc
    /\ rec.pc \in {"register", "status"} /\ a.disc # None => rec.disc = a.disc

(* Nothing is registered before the finalizer is there, nor after the first  *)
(* step of the deletion.                                                     *)
RegisteredWhileAlive ==
    /\ a.life \in {"new", "gone"} => ~registered
    /\ rec.pc \in {"cleanup", "finalize"} => ~registered

(* The rollback point.                                                       *)
DiscoveredIsOrig ==
    /\ a.disc \in {None, Orig} /\ rec.disc \in {None, Orig}
    /\ tpl[Orig] = OrigSize

(* As long as there is no rollback point nothing has been changed that would *)
(* have to be rolled back, and no call is past the point where it looks for  *)
(* the template it is to replace.                                            *)
UntouchedUntilDiscovered ==
    /\ a.life = "new" => a.disc = None
    /\ a.disc = None =>
        /\ w.repl = 1 /\ w.tmpl = Orig /\ a.tmpl = None
        /\ \A c \in Calls :
            /\ call[c].pc \notin {"revision", "look", "delete", "create", "patch",
                                  "confirm", "refresh", "replicas"}
            /\ call[c].cur = None /\ call[c].then # "refresh"

(* A call whose copy is the stored object, and that is about to record its   *)
(* decision, decided outside the grace period.                               *)
DecidedOutsideGrace ==
    \A c \in Calls : call[c].pc = "record" /\ c \in current => call[c].act \notin a.grace

(* Template names are generations of the past, and a call that can still     *)
(* store its name has one that is not older than the stored one.             *)
NamesMoveForward ==
    /\ a.tmpl # None => a.tmpl <= w.gen
    /\ \A c \in Calls :
        call[c].new # None =>
            /\ call[c].new <= w.gen
            /\ c \in current /\ a.tmpl # None => a.tmpl <= call[c].new

IInv ==
    /\ TypeOK
    /\ ReconcilerInStep
    /\ RegisteredWhileAlive
    /\ DiscoveredIsOrig
    /\ UntouchedUntilDiscovered
    /\ DecidedOutsideGrace
    /\ NamesMoveForward

-----------------------------------------------------------------------------
(* Facts about the constants and the idle records.                           *)
LEMMA Constants ==
    /\ Orig \in Names /\ Orig \notin Managed /\ Managed \subseteq Names
    /\ Names \subseteq Nat /\ None \notin Names /\ None \notin Managed
    /\ Rec \in Procs /\ Calls \subseteq Procs /\ Handlers \subseteq Procs
    /\ Rec \notin Calls /\ Rec \notin Handlers
    /\ \A c \in Calls : c \notin Handlers
BY ProcAssumption DEF Orig, Managed, Names, Procs

(* A worker that is idle has its type.                                       *)
LEMMA IdleTyped ==
    /\ IdleCall \in CallRecord /\ Report \in CallRecord
    /\ IdleHandler \in HandlerRecord
    /\ IdleRec \in [pc : RecPcs, disc : Names \cup {None}, dirty : BOOLEAN]
    /\ IdleRec.pc = "idle" /\ IdleRec.disc = None
    /\ IdleCall.pc = "idle" /\ IdleCall.cur = None /\ IdleCall.new = None
    /\ IdleCall.then = "idle"
    /\ Report.pc = "report" /\ Report.cur = None /\ Report.new = None
    /\ Report.then = "idle"
BY DEF IdleCall, Report, IdleHandler, IdleRec, CallRecord, HandlerRecord, CallPcs,
       HandlerPcs, RecPcs

(* The initial state.                                                        *)
LEMMA InitIInv == Init => IInv
<1> SUFFICES ASSUME Init PROVE IInv OBVIOUS
<1>1. a \in Object BY DEF Init, Object
<1>2. w \in Workload BY Constants DEF Init, Workload
<1>3. tpl \in [Names -> Sizes \cup {None}] /\ tpl[Orig] = OrigSize
  BY Constants, ConfigAssumption DEF Init
<1>4. TypeOK
  <2>1. call \in [Calls -> CallRecord] /\ handler \in [Handlers -> HandlerRecord]
    BY IdleTyped DEF Init
  <2>2. claim \in [Claims -> [tmpl : Managed, bound : BOOLEAN] \cup {None}]
    BY DEF Init
  <2>3. current \subseteq Procs /\ late \in 0..MaxLate
    BY DEF Init, MaxLate
  <2>5. registered \in BOOLEAN BY DEF Init
  <2>4. rec \in [pc : RecPcs, disc : Names \cup {None}, dirty : BOOLEAN] /\ rec.pc # "cleanup"
    BY IdleTyped DEF Init
  <2> QED BY <1>1, <1>2, <1>3, <2>1, <2>2, <2>3, <2>4, <2>5 DEF TypeOK
<1>5. ReconcilerInStep /\ RegisteredWhileAlive BY IdleTyped DEF Init, ReconcilerInStep, RegisteredWhileAlive
<1>6. DiscoveredIsOrig BY <1>3, IdleTyped DEF Init, DiscoveredIsOrig
<1>7. UntouchedUntilDiscovered BY IdleTyped DEF Init, UntouchedUntilDiscovered
<1>8. DecidedOutsideGrace /\ NamesMoveForward
  BY IdleTyped DEF Init, DecidedOutsideGrace, NamesMoveForward
<1> QED BY <1>4, <1>5, <1>6, <1>7, <1>8 DEF IInv

-----------------------------------------------------------------------------
(* What the steps of a call have in common.                                  *)

(* What determineScalingAction sees of the object.                           *)
LEMMA SeenTyped ==
    ASSUME TypeOK, NEW size \in {SeenSize} \cup (IF Faulty THEN {DefaultSize} ELSE {})
    PROVE  Seen(size) \in Shape
<1>1. size \in Sizes
  BY ConfigAssumption DEF TypeOK, SeenSize, Readable
<1>2. SeenReplicas \in Nat BY DEF TypeOK, Object, SeenReplicas
<1> QED BY <1>1, <1>2 DEF Seen, Shape, Sizes

(* The decision of a call whose copy is the stored object, and what it goes  *)
(* on with.                                                                  *)
LEMMA DecisionTyped ==
    ASSUME TypeOK, NEW c \in Calls, CallDecides(c)
    PROVE  \/ Ends(c)
           \/ c \notin current /\ UNCHANGED current /\ Goes(c, "record")
           \/ \E x \in CallRecord :
                /\ c \in current /\ UNCHANGED current
                /\ call' = [call EXCEPT ![c] = x]
                /\ x.pc = "record" /\ x.act \in Directions \ a.grace
                /\ x.cur = CurrentTemplate(a.disc, a.tmpl) /\ x.new = None
                /\ x.then = "refresh" => a.disc # None
<1>0. /\ call \in [Calls -> CallRecord] /\ call[c] \in CallRecord
      /\ a \in Object
  BY DEF TypeOK
<1>1. CASE c \notin current BY <1>1 DEF CallDecides
<1>2. CASE c \in current /\ ~Ends(c)
  <2>1. PICK size \in {SeenSize} \cup (IF Faulty THEN {DefaultSize} ELSE {}) :
          LET dec == DetermineScalingAction(Behavior, Seen(size), call[c].des, 1)
          IN  /\ dec.action # "None" /\ dec.action \notin a.grace
              /\ call' = [call EXCEPT ![c] =
                  [pc |-> "record", des |-> dec.desired, act |-> dec.action,
                   then |-> IF dec.resourceChange THEN "base"
                            ELSE IF dec.replicaChange /\ a.disc # None
                                 THEN "refresh" ELSE "idle",
                   cur |-> CurrentTemplate(a.disc, a.tmpl), new |-> None]]
              /\ UNCHANGED current
    BY <1>2 DEF CallDecides
  <2> DEFINE dec == DetermineScalingAction(Behavior, Seen(size), call[c].des, 1)
             then == IF dec.resourceChange THEN "base"
                     ELSE IF dec.replicaChange /\ a.disc # None THEN "refresh" ELSE "idle"
             x == [pc |-> "record", des |-> dec.desired, act |-> dec.action,
                   then |-> then, cur |-> CurrentTemplate(a.disc, a.tmpl), new |-> None]
  <2>2. call[c].des \in Shape
    BY <1>0 DEF CallDecides, CallRecord, Configs, Config, Shape
  <2>3. dec.action \in {"None", "ScaleUp", "ScaleDown"} /\ dec.desired \in Shape
    BY <2>2, SeenTyped, DecisionShape, ConfigAssumption
  <2>4. /\ then \in {"idle", "base", "refresh"}
        /\ then = "refresh" => a.disc # None
    OBVIOUS
  <2>5. /\ dec.action # "None" /\ dec.action \notin a.grace
        /\ call' = [call EXCEPT ![c] = x] /\ UNCHANGED current
    BY <2>1
  <2> HIDE DEF dec, then
  <2>6. CurrentTemplate(a.disc, a.tmpl) \in Names \cup {None}
    BY <1>0 DEF CurrentTemplate, Object
  <2>7. /\ x.pc = "record" /\ x.act = dec.action /\ x.then = then /\ x.new = None
        /\ x.cur = CurrentTemplate(a.disc, a.tmpl) /\ x.des = dec.desired
    OBVIOUS
  <2>8. x \in CallRecord
    <3>1. dec.desired \in Configs /\ dec.desired # None
      BY <2>3, ProcAssumption DEF Configs, Config, Shape
    <3>2. dec.action \in Directions BY <2>3, <2>5 DEF Directions
    <3> QED BY <2>4, <2>6, <3>1, <3>2 DEF CallRecord, CallPcs
  <2>9. x.act \in Directions \ a.grace BY <2>3, <2>5, <2>7 DEF Directions
  <2> HIDE DEF x
  <2> QED BY <1>2, <2>4, <2>5, <2>7, <2>8, <2>9
<1> QED BY <1>1, <1>2

(* A step of call c replaces its own record by one of the right shape.       *)
LEMMA CallReplacesOwn ==
    ASSUME TypeOK, NEW c \in Calls, CallStep(c)
    PROVE  \E x \in CallRecord : call' = [call EXCEPT ![c] = x]
<1>0. /\ call \in [Calls -> CallRecord] /\ call[c] \in CallRecord
      /\ a \in Object /\ w \in Workload
  BY DEF TypeOK
<1>1. CASE Ends(c) BY <1>1, IdleTyped DEF Ends
<1>2. CASE call' = [call EXCEPT ![c] = Report] BY <1>2, IdleTyped
<1>3. CASE CallStarts(c)
  <2>1. CASE \E d \in Desired :
               call' = [call EXCEPT ![c] = [IdleCall EXCEPT !.pc = "get", !.des = d]]
    <3>1. PICK d \in Configs :
            call' = [call EXCEPT ![c] = [IdleCall EXCEPT !.pc = "get", !.des = d]]
      BY <2>1, ConfigAssumption
    <3>2. [IdleCall EXCEPT !.pc = "get", !.des = d] \in CallRecord
      BY <3>1, ProcAssumption DEF IdleCall, CallRecord, CallPcs
    <3> QED BY <3>1, <3>2
  <2> QED BY <1>2, <1>3, <2>1 DEF CallStarts
<1>4. CASE CallGets(c)
  <2>1. CASE Goes(c, "decide")
    <3>1. [call[c] EXCEPT !.pc = "decide"] \in CallRecord
      BY <1>0, <1>4 DEF CallGets, CallRecord, CallPcs
    <3> QED BY <1>0, <2>1, <3>1 DEF Goes
  <2> QED BY <1>2, <1>4, <2>1 DEF CallGets, Fails
<1>5. CASE CallRecords(c) /\ ~Ends(c)
  <2> DEFINE x == [IdleCall EXCEPT !.pc = call[c].then, !.des = call[c].des,
                                   !.cur = call[c].cur]
  <2>1. call' = [call EXCEPT ![c] = x] BY <1>5 DEF CallRecords
  <2>2. x \in CallRecord BY <1>0, <1>5 DEF CallRecords, IdleCall, CallRecord, CallPcs
  <2> QED BY <2>1, <2>2
<1>6. CASE CallReadsRevision(c)
  <2>1. CASE Fails(c) BY <1>2, <2>1 DEF Fails
  <2>2. CASE ~Fails(c)
    <3>1. call' = [call EXCEPT ![c].new = w.gen, ![c].pc = "look"]
      BY <1>6, <2>2 DEF CallReadsRevision, OwnerRevision
    <3>2. w.gen \in Managed
      BY <1>0, <1>6, ProcAssumption DEF CallReadsRevision, Managed, Workload
    <3>3. [call[c] EXCEPT !.new = w.gen, !.pc = "look"] \in CallRecord
      BY <1>0, <1>6, <3>2, Constants DEF CallReadsRevision, CallRecord, CallPcs
    <3>4. call' = [call EXCEPT ![c] = [call[c] EXCEPT !.new = w.gen, !.pc = "look"]]
      BY <1>0, <3>1
    <3> QED BY <3>3, <3>4
  <2> QED BY <2>1, <2>2
<1>7. CASE \/ CallReadsBase(c) \/ CallLooks(c) \/ CallDeletesOutdated(c) \/ CallCreates(c)
           \/ CallRefreshesStatus(c)
  <2>1. CASE Fails(c) BY <1>2, <2>1 DEF Fails
  <2>2. CASE ~Fails(c)
    <3>1. PICK pc \in {"revision", "delete", "create", "patch", "replicas"} :
            /\ call' = [call EXCEPT ![c].pc = pc]
            /\ call[c].pc \in {"base", "look", "delete", "create", "refresh"}
            /\ call[c].pc = "refresh" <=> pc = "replicas"
            /\ call[c].pc = "base" <=> pc = "revision"
            /\ pc = "revision" => call[c].cur # None
      BY <1>7, <2>2, Constants
      DEF CallReadsBase, CallLooks, CallDeletesOutdated, CallCreates, CallRefreshesStatus,
          Goes, Readable
    <3>2. [call[c] EXCEPT !.pc = pc] \in CallRecord
      BY <1>0, <3>1 DEF CallRecord, CallPcs
    <3>3. call' = [call EXCEPT ![c] = [call[c] EXCEPT !.pc = pc]] BY <1>0, <3>1
    <3> QED BY <3>2, <3>3
  <2> QED BY <2>1, <2>2
<1>8. CASE CallPatchesOwner(c)
  <2>1. CASE Fails(c) BY <1>2, <2>1 DEF Fails
  <2>2. CASE ~Fails(c)
    <3>1. call' = [call EXCEPT ![c] = [IdleCall EXCEPT !.pc = "confirm", !.new = call[c].new]]
      BY <1>8, <2>2 DEF CallPatchesOwner
    <3>2. [IdleCall EXCEPT !.pc = "confirm", !.new = call[c].new] \in CallRecord
      BY <1>0, <1>8 DEF CallPatchesOwner, IdleCall, CallRecord, CallPcs
    <3> QED BY <3>1, <3>2
  <2> QED BY <2>1, <2>2
<1>9. CASE CallDecides(c)
  <2>1. CASE Goes(c, "record")
    <3>1. [call[c] EXCEPT !.pc = "record"] \in CallRecord
      BY <1>0, <1>9 DEF CallDecides, CallRecord, CallPcs
    <3> QED BY <1>0, <2>1, <3>1 DEF Goes
  <2> QED BY <1>1, <1>9, <2>1, DecisionTyped
<1> QED
  BY <1>1, <1>2, <1>3, <1>4, <1>5, <1>6, <1>7, <1>8, <1>9
  DEF CallStep, CallRecords, CallRecordRefused, CallConfirms, CallConfirmRefused,
      CallPatchesReplicas, CallReports, Fails

(* The steps of a call that write the object or the workload are four; all   *)
(* others leave both alone.                                                  *)
LEMMA CallWritesNothing ==
    ASSUME NEW c \in Calls, CallStep(c)
    PROVE  /\ UNCHANGED <<claim, registered, rec, handler>>
           /\ CallRecords(c) \/ CallConfirms(c) \/ UNCHANGED a
           /\ CallPatchesOwner(c) \/ CallPatchesReplicas(c) \/ UNCHANGED w
           /\ CallDeletesOutdated(c) \/ CallCreates(c) \/ UNCHANGED tpl
           /\ CallStarts(c) \/ UNCHANGED late
BY DEF CallStep, CallStarts, CallGets, CallDecides, CallRecords, CallRecordRefused,
       CallReadsBase, CallReadsRevision, CallLooks, CallDeletesOutdated, CallCreates,
       CallPatchesOwner, CallConfirms,
       CallConfirmRefused, CallRefreshesStatus, CallPatchesReplicas, CallReports,
       Refused, Touches

(* A call writes neither the life of the object nor the discovery result.    *)
LEMMA CallObject ==
    ASSUME TypeOK, NEW c \in Calls, CallStep(c)
    PROVE  /\ a' \in Object /\ a'.life = a.life /\ a'.disc = a.disc
           /\ CallConfirms(c) \/ a'.tmpl = a.tmpl
<1>0. /\ a \in Object /\ call[c] \in CallRecord BY DEF TypeOK
<1>1. CASE CallRecords(c)
  <2>1. call[c].des.r \in Nat
    BY <1>0, <1>1, ProcAssumption DEF CallRecords, CallRecord, Configs, Config
  <2>2. a' = [a EXCEPT !.repl = call[c].des.r, !.grace = Directions]
    BY <1>1 DEF CallRecords, Writes
  <2> QED BY <1>0, <2>1, <2>2 DEF Object
<1>2. CASE CallConfirms(c)
  <2>1. call[c].new \in Names BY <1>0, <1>2, Constants DEF CallConfirms, CallRecord
  <2>2. a' = [a EXCEPT !.tmpl = call[c].new] BY <1>2 DEF CallConfirms, Writes
  <2> QED BY <1>0, <1>2, <2>1, <2>2 DEF Object
<1>3. CASE UNCHANGED a BY <1>0, <1>3
<1> QED BY <1>1, <1>2, <1>3, CallWritesNothing

(* A call renews no copy but its own, and that only when it reads; a write   *)
(* of the object leaves no other copy valid.                                 *)
LEMMA CallCopies ==
    ASSUME TypeOK, NEW c \in Calls, CallStep(c)
    PROVE  /\ current' \subseteq current \cup {c}
           /\ c \in current' /\ c \notin current => CallGets(c) /\ Goes(c, "decide")
           /\ CallRecords(c) \/ CallConfirms(c) => current' \subseteq {c}
           /\ CallConfirms(c) => current' = {}
BY DEF CallStep, CallStarts, CallGets, CallDecides, CallRecords, CallRecordRefused,
       CallReadsBase, CallReadsRevision, CallLooks, CallDeletesOutdated, CallCreates,
       CallPatchesOwner, CallConfirms,
       CallConfirmRefused, CallRefreshesStatus, CallPatchesReplicas, CallReports,
       Refused, Touches, Reads, Drops, Fails, Writes

(* The generation of the workload only grows.                                *)
LEMMA UpdatesWorkloadTyped ==
    ASSUME w \in Workload, NEW repl \in Nat, NEW tmpl \in Names,
           UpdatesWorkload(repl, tmpl)
    PROVE  w' \in Workload /\ w'.gen >= w.gen /\ w'.repl = repl /\ w'.tmpl = tmpl
BY DEF Workload, UpdatesWorkload

(* What a scaling call does to the workload.                                 *)
LEMMA CallWorkload ==
    ASSUME TypeOK, NEW c \in Calls, CallStep(c)
    PROVE  w' \in Workload /\ w'.gen >= w.gen
<1>0. /\ w \in Workload /\ call[c] \in CallRecord BY DEF TypeOK
<1>1. CASE UNCHANGED w BY <1>0, <1>1 DEF Workload
<1>2. CASE ~UNCHANGED w
  <2>1. /\ call[c].pc \in {"patch", "replicas"}
        /\ \/ UpdatesWorkload(call[c].des.r, IF w.tmpl = call[c].cur THEN call[c].new ELSE w.tmpl)
           \/ UpdatesWorkload(call[c].des.r, w.tmpl)
        /\ call[c].pc = "patch" \/ UpdatesWorkload(call[c].des.r, w.tmpl)
    BY <1>2, CallWritesNothing DEF CallPatchesOwner, CallPatchesReplicas
  <2>2. call[c].des.r \in Nat
    BY <1>0, <2>1, ProcAssumption DEF CallRecord, Configs, Config
  <2>3. w.tmpl \in Names /\ (call[c].pc = "patch" => call[c].new \in Names)
    BY <1>0, Constants DEF CallRecord, Workload
  <2> QED BY <1>0, <2>1, <2>2, <2>3, UpdatesWorkloadTyped
<1> QED BY <1>1, <1>2

(* Templates are deleted and created under managed names only.               *)
LEMMA CallTemplates ==
    ASSUME TypeOK, NEW c \in Calls, CallStep(c)
    PROVE  /\ tpl' \in [Names -> Sizes \cup {None}] /\ tpl'[Orig] = tpl[Orig]
           /\ late' \in 0..MaxLate
<1>0. /\ tpl \in [Names -> Sizes \cup {None}] /\ call[c] \in CallRecord
      /\ late \in 0..MaxLate
  BY DEF TypeOK
<1>1. late' \in 0..MaxLate
  <2>1. late' = late \/ (late > 0 /\ late' = late - 1)
    BY CallWritesNothing DEF CallStarts
  <2> QED BY <1>0, <2>1 DEF MaxLate
<1>2. CASE UNCHANGED tpl BY <1>0, <1>1, <1>2
<1>3. CASE ~UNCHANGED tpl
  <2>1. /\ call[c].pc \in {"delete", "create"}
        /\ \/ tpl' = [tpl EXCEPT ![call[c].new] = None]
           \/ tpl' = [tpl EXCEPT ![call[c].new] =
                         [Size(call[c].des) EXCEPT !.c = StoredCompute(@)]]
    BY <1>3, CallWritesNothing DEF CallDeletesOutdated, CallCreates
  <2>2. call[c].new \in Managed /\ call[c].des \in Configs BY <1>0, <2>1 DEF CallRecord
  <2>3. [Size(call[c].des) EXCEPT !.c = StoredCompute(@)] \in Sizes
    BY <2>2, StoredComputeNat DEF Size, Sizes, Configs, Config
  <2> QED BY <1>0, <1>1, <2>1, <2>2, <2>3, Constants
<1> QED BY <1>2, <1>3

(* The types are kept by the steps of a call.                                *)
LEMMA CallTypes ==
    ASSUME TypeOK, NEW c \in Calls, CallStep(c)
    PROVE  TypeOK'
<1>1. call' \in [Calls -> CallRecord] BY CallReplacesOwn DEF TypeOK
<1>2. current' \subseteq Procs BY CallCopies, Constants DEF TypeOK
<1>3. UNCHANGED <<claim, registered, rec, handler>> BY CallWritesNothing
<1> QED BY <1>1, <1>2, <1>3, CallObject, CallWorkload, CallTemplates DEF TypeOK

-----------------------------------------------------------------------------
(* What the steps of a handler have in common: they change templates with    *)
(* managed names, and nothing else but themselves.                           *)
LEMMA HandlerFrame ==
    ASSUME TypeOK, NEW h \in Handlers, HandlerStep(h)
    PROVE  /\ UNCHANGED <<a, w, claim, registered, late, rec, call>>
           /\ current' \subseteq current \cup {h}
           /\ tpl' \in [Names -> Sizes \cup {None}] /\ tpl'[Orig] = tpl[Orig]
<1>0. /\ tpl \in [Names -> Sizes \cup {None}] /\ handler[h] \in HandlerRecord
  BY DEF TypeOK
<1>1. /\ UNCHANGED <<a, w, claim, registered, late, rec, call>>
      /\ current' \subseteq current \cup {h}
  BY DEF HandlerStep, HandlerGets, HandlerUpdatesStatus, HandlerLists, HandlerSweeps,
         HandlerDone, DeletedGets, DeletedRemoves, Reads, Drops, Touches, Refused
<1>2. CASE UNCHANGED tpl BY <1>0, <1>1, <1>2
<1>3. CASE \E n \in Managed \cup {None} : tpl' = [tpl EXCEPT ![n] = None]
  <2>1. PICK n \in Managed \cup {None} : tpl' = [tpl EXCEPT ![n] = None] BY <1>3
  <2>2. Orig # n BY Constants
  <2> QED BY <1>0, <1>1, <2>1, <2>2, Constants
<1>4. UNCHANGED tpl \/ HandlerSweeps(h) \/ DeletedRemoves(h)
  BY DEF HandlerStep, HandlerGets, HandlerUpdatesStatus, HandlerLists, HandlerDone, DeletedGets
<1>5. ASSUME HandlerSweeps(h), ~UNCHANGED tpl
      PROVE  \E n \in Managed : tpl' = [tpl EXCEPT ![n] = None]
  BY <1>0, <1>5 DEF HandlerSweeps, HandlerRecord
<1>6. ASSUME DeletedRemoves(h), ~UNCHANGED tpl
      PROVE  \E n \in Managed \cup {None} : tpl' = [tpl EXCEPT ![n] = None]
  BY <1>0, <1>6 DEF DeletedRemoves, HandlerRecord
<1> QED BY <1>2, <1>3, <1>4, <1>5, <1>6

(* A step of a handler leaves its record one of a handler.                   *)
LEMMA HandlerReplacesOwn ==
    ASSUME TypeOK, NEW h \in Handlers, HandlerStep(h)
    PROVE  handler' \in [Handlers -> HandlerRecord]
<1>0. /\ handler \in [Handlers -> HandlerRecord] /\ handler[h] \in HandlerRecord
      /\ a \in Object
  BY DEF TypeOK
<1>1. CASE Leaves(h) BY <1>0, <1>1, IdleTyped DEF Leaves
<1>2. CASE HandlerGets(h) /\ ~Leaves(h)
  <2>1. PICK pc \in {"done", "status"}, des \in Names \cup {None} :
          handler' = [handler EXCEPT ![h].des = des, ![h].pc = pc]
    <3>1. a.tmpl \in Names \cup {None} BY <1>0 DEF Object
    <3> QED BY <1>2, <3>1 DEF HandlerGets
  <2> QED BY <1>0, <2>1 DEF HandlerRecord, HandlerPcs
<1>3. CASE HandlerUpdatesStatus(h)
  <2>1. PICK pc \in {"done", "list"} : handler' = [handler EXCEPT ![h].pc = pc]
    BY <1>3 DEF HandlerUpdatesStatus
  <2> QED BY <1>0, <2>1 DEF HandlerRecord, HandlerPcs
<1>4. CASE HandlerLists(h)
  <2>1. PICK v \in SUBSET Managed :
          handler' = [handler EXCEPT ![h] = [IdleHandler EXCEPT !.pc = "sweep", !.victims = v]]
    <3>1. Unclaimed \ {handler[h].des} \in SUBSET Managed BY DEF Unclaimed
    <3> QED BY <1>4, <3>1 DEF HandlerLists
  <2>2. [IdleHandler EXCEPT !.pc = "sweep", !.victims = v] \in HandlerRecord
    BY DEF IdleHandler, HandlerRecord, HandlerPcs
  <2> QED BY <1>0, <2>1, <2>2
<1>5. CASE HandlerSweeps(h) /\ ~Leaves(h)
  <2>1. PICK n : handler' = [handler EXCEPT ![h].victims = @ \ {n}]
    BY <1>5 DEF HandlerSweeps
  <2>2. handler[h].victims \ {n} \in SUBSET Managed BY <1>0 DEF HandlerRecord
  <2> QED BY <1>0, <2>1, <2>2 DEF HandlerRecord
<1>6. CASE DeletedGets(h) /\ ~Leaves(h)
  <2>1. PICK pc \in {"status", "remove", "done"} : handler' = [handler EXCEPT ![h].pc = pc]
    BY <1>6 DEF DeletedGets
  <2> QED BY <1>0, <2>1 DEF HandlerRecord, HandlerPcs
<1> QED
  BY <1>1, <1>2, <1>3, <1>4, <1>5, <1>6 DEF HandlerStep, HandlerDone, DeletedRemoves

(* The claim template handler keeps the types.                               *)
LEMMA HandlerTypes ==
    ASSUME TypeOK, NEW h \in Handlers, HandlerStep(h)
    PROVE  TypeOK'
<1>1. current' \subseteq Procs BY HandlerFrame, Constants DEF TypeOK
<1> QED BY <1>1, HandlerFrame, HandlerReplacesOwn DEF TypeOK

(* What the steps of the cluster and its users have in common.               *)
LEMMA EnvironmentFrame ==
    ASSUME TypeOK, Environment
    PROVE  /\ UNCHANGED <<registered, late, rec, call>>
           /\ a' \in Object /\ a'.disc = a.disc /\ a'.tmpl = a.tmpl /\ a'.grace \subseteq a.grace
           /\ current' \subseteq current
           /\ UserDeletes \/ a'.life = a.life
           /\ w' \in Workload /\ w'.repl = w.repl /\ w'.tmpl = w.tmpl /\ w'.gen >= w.gen
           /\ tpl' \in [Names -> Sizes \cup {None}] /\ tpl'[Orig] = tpl[Orig]
<1>0. /\ a \in Object /\ w \in Workload /\ tpl \in [Names -> Sizes \cup {None}]
  BY DEF TypeOK
<1>1. /\ UNCHANGED <<registered, late, rec, call>>
      /\ current' \subseteq current
      /\ GraceElapses \/ UserDeletes \/ UNCHANGED a
      /\ UserRollsOut \/ UNCHANGED w
      /\ (\E n \in Managed : GarbageCollected(n)) \/ UNCHANGED tpl
  BY DEF Environment, ClaimCreated, ClaimAllocationChanges, ClaimDeleted, GraceElapses,
         UserDeletes, UserRollsOut, GarbageCollected
<1>2. /\ a' \in Object /\ a'.disc = a.disc /\ a'.tmpl = a.tmpl /\ a'.grace \subseteq a.grace
      /\ UserDeletes \/ a'.life = a.life
  <2>1. CASE GraceElapses
    <3>1. PICK d \in a.grace : a' = [a EXCEPT !.grace = @ \ {d}] BY <2>1 DEF GraceElapses
    <3>2. a.grace \ {d} \in SUBSET Directions BY <1>0 DEF Object
    <3> QED BY <1>0, <3>1, <3>2 DEF Object
  <2>2. CASE UserDeletes BY <1>0, <2>2 DEF UserDeletes, Object
  <2>3. CASE UNCHANGED a BY <1>0, <2>3
  <2> QED BY <1>1, <2>1, <2>2, <2>3
<1>3. w' \in Workload /\ w'.repl = w.repl /\ w'.tmpl = w.tmpl /\ w'.gen >= w.gen
  BY <1>0, <1>1 DEF UserRollsOut, Workload
<1>4. tpl' \in [Names -> Sizes \cup {None}] /\ tpl'[Orig] = tpl[Orig]
  BY <1>0, <1>1, Constants DEF GarbageCollected
<1> QED BY <1>1, <1>2, <1>3, <1>4

(* The environment keeps the types.                                          *)
LEMMA EnvironmentTypes ==
    ASSUME TypeOK, Environment
    PROVE  TypeOK'
<1>0. /\ handler \in [Handlers -> HandlerRecord] /\ w \in Workload
      /\ claim \in [Claims -> [tmpl : Managed, bound : BOOLEAN] \cup {None}]
  BY DEF TypeOK
<1>1. claim' \in [Claims -> [tmpl : Managed, bound : BOOLEAN] \cup {None}]
  <2>1. ASSUME NEW k \in Claims, ClaimCreated(k)
        PROVE  claim' \in [Claims -> [tmpl : Managed, bound : BOOLEAN] \cup {None}]
    <3>1. w.tmpl \in Managed BY <1>0, <2>1 DEF ClaimCreated, Workload, Names
    <3> QED BY <1>0, <2>1, <3>1 DEF ClaimCreated
  <2>2. ASSUME NEW k \in Claims, ClaimAllocationChanges(k)
        PROVE  claim' \in [Claims -> [tmpl : Managed, bound : BOOLEAN] \cup {None}]
    BY <1>0, <2>2 DEF ClaimAllocationChanges
  <2>3. ASSUME NEW k \in Claims, ClaimDeleted(k)
        PROVE  claim' \in [Claims -> [tmpl : Managed, bound : BOOLEAN] \cup {None}]
    BY <1>0, <2>3 DEF ClaimDeleted
  <2> QED BY <1>0, <2>1, <2>2, <2>3 DEF Environment, GraceElapses, UserDeletes, UserRollsOut,
                                       GarbageCollected
<1>2. handler' \in [Handlers -> HandlerRecord]
  <2>1. ASSUME NEW k \in Claims, ClaimAllocationChanges(k)
        PROVE  handler' \in [Handlers -> HandlerRecord]
    <3>1. PICK h \in Handlers :
            handler' = [handler EXCEPT ![h] = Spawned("update", None, ~claim[k].bound)]
      BY <2>1 DEF ClaimAllocationChanges
    <3>2. (~claim[k].bound) \in BOOLEAN OBVIOUS
    <3>3. Spawned("update", None, ~claim[k].bound) \in HandlerRecord
      BY <3>2 DEF Spawned, IdleHandler, HandlerRecord, HandlerPcs
    <3> QED BY <1>0, <3>1, <3>3
  <2>2. ASSUME NEW k \in Claims, ClaimDeleted(k)
        PROVE  handler' \in [Handlers -> HandlerRecord]
    <3>1. PICK h \in Handlers :
            handler' = [handler EXCEPT ![h] = Spawned("deleted", claim[k].tmpl, FALSE)]
      BY <2>2 DEF ClaimDeleted
    <3>2. claim[k].tmpl \in Managed BY <1>0, <2>2 DEF ClaimDeleted
    <3>3. Spawned("deleted", claim[k].tmpl, FALSE) \in HandlerRecord
      BY <3>2 DEF Spawned, IdleHandler, HandlerRecord, HandlerPcs
    <3> QED BY <1>0, <3>1, <3>3
  <2> QED BY <1>0, <2>1, <2>2 DEF Environment, ClaimCreated, GraceElapses, UserDeletes,
                                  UserRollsOut, GarbageCollected
<1> QED BY <1>1, <1>2, EnvironmentFrame DEF TypeOK

-----------------------------------------------------------------------------
(* What the steps of the reconciler have in common.  A write of the object   *)
(* leaves no copy of it valid.                                               *)
LEMMA RecFrame ==
    ASSUME TypeOK, RecStep
    PROVE  /\ UNCHANGED <<tpl, claim, call, handler>>
           /\ a' \in Object /\ a'.tmpl = a.tmpl /\ a'.grace = a.grace
           /\ current' \subseteq current \cup {Rec}
           /\ UNCHANGED a \/ RecAddsFinalizer \/ RecUpdatesStatus \/ RecFinalizes
           /\ UNCHANGED w \/ RecCleansUp
<1>0. a \in Object /\ rec.disc \in Names \cup {None} BY DEF TypeOK
<1>1. /\ UNCHANGED <<tpl, claim, call, handler>>
      /\ current' \subseteq current \cup {Rec}
      /\ UNCHANGED a \/ RecAddsFinalizer \/ RecUpdatesStatus \/ RecFinalizes
      /\ UNCHANGED w \/ RecCleansUp
  BY DEF RecStep, RecFindsNothing, RecGets, RecAddsFinalizer, RecDiscovers, RecRegisters,
         RecUpdatesStatus, RecUnregisters, RecCleansUp, RecCleanUpFails, RecFinalizes,
         RecFinalizeFails, Reads, Drops, Refused, Touches, Writes
<1>2. /\ a' \in {a, [a EXCEPT !.life = "active"], [a EXCEPT !.disc = rec.disc],
               [a EXCEPT !.life = "gone"]}
  BY <1>1 DEF RecAddsFinalizer, RecUpdatesStatus, RecFinalizes, Refused, Touches, Writes
<1>3. a' \in Object /\ a'.tmpl = a.tmpl /\ a'.grace = a.grace
  BY <1>0, <1>2 DEF Object
<1> QED BY <1>1, <1>3

(* The record of the reconciler.                                             *)
LEMMA RecRecord ==
    ASSUME TypeOK, RecStep
    PROVE  /\ rec' \in [pc : RecPcs, disc : Names \cup {None}, dirty : BOOLEAN]
           /\ rec'.pc = "cleanup" => rec'.disc # None
           /\ registered' \in BOOLEAN /\ late' \in 0..MaxLate
<1> DEFINE R == [pc : RecPcs, disc : Names \cup {None}, dirty : BOOLEAN]
<1>0. /\ rec \in R /\ a \in Object /\ w \in Workload /\ late \in 0..MaxLate
      /\ rec.pc = "cleanup" => rec.disc # None
  BY DEF TypeOK
<1>1. /\ late' \in 0..MaxLate
  <2>1. late' = late \/ late' = MaxLate
    BY DEF RecStep, RecFindsNothing, RecGets, RecAddsFinalizer, RecDiscovers, RecRegisters,
           RecUpdatesStatus, RecUnregisters, RecCleansUp, RecCleanUpFails, RecFinalizes,
           RecFinalizeFails
  <2> QED BY <1>0, <2>1 DEF MaxLate
<1>2. registered' \in BOOLEAN
  <2>1. registered' = registered \/ registered' = TRUE \/ registered' = FALSE
    BY DEF RecStep, RecFindsNothing, RecGets, RecAddsFinalizer, RecDiscovers, RecRegisters,
           RecUpdatesStatus, RecUnregisters, RecCleansUp, RecCleanUpFails, RecFinalizes,
           RecFinalizeFails
  <2> QED BY <2>1 DEF TypeOK
<1>3. CASE UNCHANGED rec \/ rec' = IdleRec BY <1>0, <1>1, <1>2, <1>3, IdleTyped
<1>4. CASE RecGets
  <2>1. PICK pc \in {"addfin", "discover", "unregister"} :
          rec' = [pc |-> pc, disc |-> a.disc, dirty |-> FALSE]
    BY <1>0, <1>4 DEF RecGets, Object
  <2> QED BY <1>0, <1>1, <1>2, <2>1 DEF Object, RecPcs
<1>5. CASE RecDiscovers
  <2>1. PICK d \in Names \cup {None} :
          rec' = [pc |-> "register", disc |-> d, dirty |-> rec.disc = None]
    BY <1>0, <1>5 DEF RecDiscovers, Workload
  <2>2. (rec.disc = None) \in BOOLEAN OBVIOUS
  <2>3. rec' \in R /\ rec'.pc = "register" BY <2>1, <2>2 DEF RecPcs
  <2> QED BY <1>1, <1>2, <2>3
<1>6. CASE RecRegisters
  <2>1. rec' = [rec EXCEPT !.pc = "status", !.dirty = rec.dirty \/ ~registered]
    BY <1>6 DEF RecRegisters
  <2>2. (rec.dirty \/ ~registered) \in BOOLEAN OBVIOUS
  <2>3. rec' \in R /\ rec'.pc = "status" BY <1>0, <2>1, <2>2 DEF RecPcs
  <2> QED BY <1>1, <1>2, <2>3
<1>7. CASE RecUnregisters
  <2>1. PICK pc \in {"finalize", "cleanup"} :
          /\ rec' = [rec EXCEPT !.pc = pc]
          /\ pc = "cleanup" => rec.disc # None
    BY <1>7 DEF RecUnregisters
  <2> QED BY <1>0, <1>1, <1>2, <2>1 DEF RecPcs
<1>8. CASE RecCleansUp
  <2>1. rec' = [IdleRec EXCEPT !.pc = "finalize"] BY <1>8 DEF RecCleansUp
  <2>2. rec' \in R /\ rec'.pc = "finalize" BY <2>1 DEF IdleRec, RecPcs
  <2> QED BY <1>1, <1>2, <2>2
<1> QED
  BY <1>3, <1>4, <1>5, <1>6, <1>7, <1>8
  DEF RecStep, RecFindsNothing, RecAddsFinalizer, RecUpdatesStatus, RecCleanUpFails,
      RecFinalizes, RecFinalizeFails

(* What a reconciliation does to the workload.                               *)
LEMMA RecWorkload ==
    ASSUME TypeOK, RecStep
    PROVE  w' \in Workload /\ w'.gen >= w.gen
<1>0. w \in Workload /\ rec.disc \in Names \cup {None} BY DEF TypeOK
<1>1. CASE UNCHANGED w BY <1>0, <1>1 DEF Workload
<1>2. CASE RecCleansUp
  <2>1. rec.disc \in Names BY <1>0, <1>2 DEF RecCleansUp, TypeOK
  <2> QED BY <1>0, <1>2, <2>1, UpdatesWorkloadTyped, ProcAssumption DEF RecCleansUp
<1> QED BY <1>1, <1>2, RecFrame

(* A reconciliation keeps the types.                                         *)
LEMMA RecTypes ==
    ASSUME TypeOK, RecStep
    PROVE  TypeOK'
<1>1. current' \subseteq Procs BY RecFrame, Constants DEF TypeOK
<1> QED BY <1>1, RecFrame, RecRecord, RecWorkload DEF TypeOK

(* A restart keeps the types.                                                *)
LEMMA CrashTypes ==
    ASSUME TypeOK, Crash
    PROVE  TypeOK'
<1>1. registered' \in BOOLEAN BY DEF Crash
<1>2. late' \in 0..MaxLate BY DEF Crash, MaxLate
<1>3. rec' \in [pc : RecPcs, disc : Names \cup {None}, dirty : BOOLEAN] /\ rec'.pc # "cleanup"
  BY IdleTyped DEF Crash
<1>4. call' \in [Calls -> CallRecord] /\ handler' \in [Handlers -> HandlerRecord]
  BY IdleTyped DEF Crash
<1> QED BY <1>1, <1>2, <1>3, <1>4 DEF Crash, TypeOK

(* Every step keeps the types.                                               *)
LEMMA NextTypes == TypeOK /\ [Next]_vars => TypeOK'
<1> SUFFICES ASSUME TypeOK, [Next]_vars PROVE TypeOK' OBVIOUS
<1>1. CASE RecStep BY <1>1, RecTypes
<1>2. CASE \E c \in Calls : CallStep(c) BY <1>2, CallTypes
<1>3. CASE \E h \in Handlers : HandlerStep(h) BY <1>3, HandlerTypes
<1>4. CASE Environment BY <1>4, EnvironmentTypes
<1>5. CASE Crash BY <1>5, CrashTypes
<1>6. CASE UNCHANGED vars BY <1>6 DEF vars, TypeOK
<1> QED BY <1>1, <1>2, <1>3, <1>4, <1>5, <1>6 DEF Next, Step

-----------------------------------------------------------------------------
(* The reconciler stays in step with the object.                             *)

(* Nobody else changes what the reconciler relies on, except for the user,   *)
(* whose deletion makes its copy old.                                        *)
LEMMA OthersKeepInStep ==
    ASSUME IInv, UNCHANGED <<rec, registered>>, a'.disc = a.disc,
           Rec \in current' => Rec \in current,
           a'.life = a.life \/ UserDeletes
    PROVE  ReconcilerInStep' /\ RegisteredWhileAlive'
<1>0. a \in Object BY DEF IInv, TypeOK
<1>1. CASE a'.life = a.life
  BY <1>1 DEF IInv, ReconcilerInStep, RegisteredWhileAlive
<1>2. CASE UserDeletes
  <2>1. /\ Rec \notin current'
        /\ \/ a.life = "new" /\ a'.life = "gone"
           \/ a.life = "active" /\ a'.life = "deleting"
    BY <1>0, <1>2 DEF UserDeletes, Object
  <2> QED BY <2>1 DEF IInv, ReconcilerInStep, RegisteredWhileAlive
<1> QED BY <1>1, <1>2

(* A reconciliation keeps in step with what it has done so far.              *)
LEMMA RecKeepsInStep ==
    ASSUME IInv, RecStep
    PROVE  ReconcilerInStep' /\ RegisteredWhileAlive'
<1> USE DEF ReconcilerInStep, RegisteredWhileAlive
<1>0. /\ a \in Object /\ rec \in [pc : RecPcs, disc : Names \cup {None}, dirty : BOOLEAN]
      /\ ReconcilerInStep /\ RegisteredWhileAlive
  BY DEF IInv, TypeOK
<1>1. CASE RecFindsNothing BY <1>0, <1>1 DEF RecFindsNothing
<1>2. CASE RecGets BY <1>0, <1>2 DEF RecGets, Object
<1>3. CASE RecAddsFinalizer
  BY <1>0, <1>3, IdleTyped DEF RecAddsFinalizer, Writes, Refused, Object
<1>4. CASE RecDiscovers
  <2>1. rec'.pc = "register" /\ (rec.disc # None => rec'.disc = rec.disc)
    BY <1>4 DEF RecDiscovers
  <2>2. UNCHANGED <<a, registered>> /\ rec.pc = "discover" BY <1>4 DEF RecDiscovers
  <2> QED BY <1>0, <2>1, <2>2
<1>5. CASE RecRegisters
  <2>1. rec'.pc = "status" /\ rec'.disc = rec.disc BY <1>0, <1>5 DEF RecRegisters
  <2>2. UNCHANGED a /\ rec.pc = "register" BY <1>5 DEF RecRegisters
  <2> QED BY <1>0, <2>1, <2>2
<1>6. CASE RecUpdatesStatus
  <2>1. rec'.pc = "idle" /\ a'.life = a.life /\ UNCHANGED registered
    BY <1>0, <1>6, IdleTyped DEF RecUpdatesStatus, Writes, Refused, Touches, Object
  <2> QED BY <1>0, <2>1
<1>7. CASE RecUnregisters
  <2>1. rec'.pc \in {"finalize", "cleanup"} /\ rec'.disc = rec.disc /\ ~registered'
    BY <1>0, <1>7 DEF RecUnregisters
  <2>2. UNCHANGED a /\ rec.pc = "unregister" BY <1>7 DEF RecUnregisters
  <2> QED BY <1>0, <2>1, <2>2
<1>8. CASE RecCleansUp
  <2>1. rec'.pc = "finalize" BY <1>8 DEF RecCleansUp, IdleRec
  <2>2. UNCHANGED <<a, registered>> /\ rec.pc = "cleanup" BY <1>8 DEF RecCleansUp
  <2> QED BY <1>0, <2>1, <2>2
<1>9. CASE RecFinalizes
  <2>1. rec'.pc = "idle" /\ UNCHANGED registered /\ rec.pc = "finalize"
    BY <1>9, IdleTyped DEF RecFinalizes
  <2> QED BY <1>0, <2>1
<1>10. CASE RecCleanUpFails \/ RecFinalizeFails
  <2>1. rec'.pc = "idle" /\ UNCHANGED <<a, registered>>
    BY <1>10, IdleTyped DEF RecCleanUpFails, RecFinalizeFails, Refused
  <2> QED BY <1>0, <2>1
<1> QED BY <1>1, <1>2, <1>3, <1>4, <1>5, <1>6, <1>7, <1>8, <1>9, <1>10 DEF RecStep

(* So does every other step.                                                 *)
LEMMA NextKeepsInStep ==
    ASSUME IInv, [Next]_vars
    PROVE  ReconcilerInStep' /\ RegisteredWhileAlive'
<1>0. TypeOK BY DEF IInv
<1>1. CASE RecStep BY <1>1, RecKeepsInStep
<1>2. ASSUME NEW c \in Calls, CallStep(c) PROVE ReconcilerInStep' /\ RegisteredWhileAlive'
  <2>1. UNCHANGED <<rec, registered>> BY <1>2, CallWritesNothing
  <2>2. a'.life = a.life /\ a'.disc = a.disc BY <1>0, <1>2, CallObject
  <2>3. Rec \in current' => Rec \in current BY <1>0, <1>2, CallCopies, Constants
  <2> QED BY <2>1, <2>2, <2>3, OthersKeepInStep
<1>3. ASSUME NEW h \in Handlers, HandlerStep(h)
      PROVE  ReconcilerInStep' /\ RegisteredWhileAlive'
  <2>1. Rec \in current' => Rec \in current BY <1>0, <1>3, HandlerFrame, Constants
  <2> QED BY <1>0, <1>3, <2>1, HandlerFrame, OthersKeepInStep
<1>4. CASE Environment BY <1>0, <1>4, EnvironmentFrame, OthersKeepInStep
<1>5. CASE Crash
  BY <1>5, IdleTyped DEF Crash, IInv, ReconcilerInStep, RegisteredWhileAlive
<1>6. CASE UNCHANGED vars
  BY <1>6 DEF vars, IInv, ReconcilerInStep, RegisteredWhileAlive
<1> QED BY <1>1, <1>2, <1>3, <1>4, <1>5, <1>6 DEF Next, Step

-----------------------------------------------------------------------------
(* The rollback point.                                                       *)

(* The reconciler stores what it found while the workload was untouched.     *)
LEMMA NextDiscoveredIsOrig == IInv /\ [Next]_vars => DiscoveredIsOrig'
<1> SUFFICES ASSUME IInv, [Next]_vars PROVE DiscoveredIsOrig' OBVIOUS
<1> USE DEF DiscoveredIsOrig
<1>0. TypeOK /\ DiscoveredIsOrig BY DEF IInv
<1>1. CASE RecStep
  <2>1. a'.disc \in {a.disc, rec.disc}
    BY <1>0, <1>1, RecFrame
    DEF TypeOK, Object, RecAddsFinalizer, RecUpdatesStatus, RecFinalizes, Writes, Refused, Touches
  <2>2. rec'.disc \in {None, Orig}
    <3>1. CASE RecDiscovers
      <4>1. rec'.disc \in {rec.disc, w.tmpl, None} /\ (rec'.disc = w.tmpl => rec.disc = None \/ rec'.disc = rec.disc)
        BY <3>1 DEF RecDiscovers
      <4>2. rec.disc = None => w.tmpl = Orig
        BY <3>1 DEF RecDiscovers, IInv, ReconcilerInStep, UntouchedUntilDiscovered
      <4> QED BY <1>0, <4>1, <4>2
    <3>2. CASE ~RecDiscovers
      <4>1. CASE rec' \in {rec, IdleRec} BY <1>0, <4>1, IdleTyped
      <4>2. CASE RecGets BY <1>0, <4>2 DEF RecGets
      <4>3. CASE RecRegisters \/ RecUnregisters
        BY <1>0, <4>3 DEF RecRegisters, RecUnregisters, TypeOK
      <4>4. CASE RecCleansUp BY <4>4 DEF RecCleansUp, IdleRec
      <4> QED
        BY <1>1, <3>2, <4>1, <4>2, <4>3, <4>4
        DEF RecStep, RecFindsNothing, RecAddsFinalizer, RecUpdatesStatus, RecCleanUpFails,
            RecFinalizes, RecFinalizeFails
    <3> QED BY <3>1, <3>2
  <2>3. tpl' = tpl BY <1>0, <1>1, RecFrame
  <2> QED BY <1>0, <2>1, <2>2, <2>3
<1>2. CASE \E c \in Calls : CallStep(c)
  BY <1>0, <1>2, CallWritesNothing, CallObject, CallTemplates
<1>3. CASE \E h \in Handlers : HandlerStep(h) BY <1>0, <1>3, HandlerFrame
<1>4. CASE Environment BY <1>0, <1>4, EnvironmentFrame
<1>5. CASE Crash BY <1>0, <1>5, IdleTyped DEF Crash
<1>6. CASE UNCHANGED vars BY <1>0, <1>6 DEF vars
<1> QED BY <1>1, <1>2, <1>3, <1>4, <1>5, <1>6 DEF Next, Step

(* The edges along which a call moves from its old record x to the new y.    *)
Edge(c, x, y) ==
    \/ y.pc \in {"idle", "report", "get"} /\ y.cur = None /\ y.new = None /\ y.then = "idle"
    \/ /\ y.cur = x.cur /\ y.new = x.new /\ y.then = x.then
       /\ \/ x.pc = "get" /\ y.pc = "decide"
          \/ x.pc = "decide" /\ y.pc = "record" /\ c \notin current'
          \/ x.pc = "base" /\ x.cur # None /\ y.pc = "revision"
          \/ x.pc \in {"look", "delete", "create"} /\ y.pc \in {"delete", "create", "patch"}
          \/ x.pc = "refresh" /\ y.pc = "replicas"
    \/ /\ x.pc = "decide" /\ y.pc = "record" /\ y.new = None /\ y.act \notin a.grace
       /\ y.cur = CurrentTemplate(a.disc, a.tmpl)
       /\ y.then = "refresh" => a.disc # None
    \/ /\ x.pc = "record" /\ y.pc = x.then /\ y.cur = x.cur /\ y.new = None
       /\ y.then = "idle"
    \/ x.pc = "revision" /\ y.pc = "look" /\ y.new = w.gen /\ UNCHANGED <<a, w, current>>
    \/ x.pc = "patch" /\ y.pc = "confirm" /\ y.new = x.new

(* Every step of a call is along one of the edges.                           *)
LEMMA CallMoves ==
    ASSUME TypeOK, NEW c \in Calls, CallStep(c)
    PROVE  /\ \A d \in Calls \ {c} : call'[d] = call[d]
           /\ Edge(c, call[c], call'[c])
<1>1. call \in [Calls -> CallRecord] /\ call[c] \in CallRecord BY DEF TypeOK
<1>2. \A d \in Calls \ {c} : call'[d] = call[d]
  BY <1>1, CallReplacesOwn
<1> SUFFICES Edge(c, call[c], call'[c]) BY <1>2
<1>3. CASE Ends(c) BY <1>1, <1>3, IdleTyped DEF Ends, Edge
<1>4. CASE call' = [call EXCEPT ![c] = Report] BY <1>1, <1>4, IdleTyped DEF Edge
<1>5. CASE CallStarts(c) /\ call' # [call EXCEPT ![c] = Report]
  <2>1. PICK d \in Desired :
          call' = [call EXCEPT ![c] = [IdleCall EXCEPT !.pc = "get", !.des = d]]
    BY <1>5 DEF CallStarts
  <2> QED BY <1>1, <2>1 DEF IdleCall, Edge
<1>6. CASE CallGets(c)
  <2>1. CASE Goes(c, "decide")
    <3>1. call'[c] = [call[c] EXCEPT !.pc = "decide"] BY <1>1, <2>1 DEF Goes
    <3> QED BY <1>1, <1>6, <3>1 DEF Edge, CallGets, CallRecord
  <2> QED BY <1>4, <1>6, <2>1 DEF CallGets, Fails
<1>7. CASE CallDecides(c)
  <2>1. CASE c \notin current /\ UNCHANGED current /\ Goes(c, "record")
    <3>1. call'[c] = [call[c] EXCEPT !.pc = "record"] BY <1>1, <2>1 DEF Goes
    <3> QED BY <1>1, <1>7, <2>1, <3>1 DEF Edge, CallDecides, CallRecord
  <2>2. ASSUME NEW x \in CallRecord, call' = [call EXCEPT ![c] = x],
               x.pc = "record", x.act \in Directions \ a.grace,
               x.cur = CurrentTemplate(a.disc, a.tmpl), x.new = None,
               x.then = "refresh" => a.disc # None
        PROVE  Edge(c, call[c], call'[c])
    <3>1. call'[c] = x BY <1>1, <2>2
    <3> QED BY <1>7, <2>2, <3>1 DEF Edge, CallDecides
  <2> QED BY <1>3, <1>7, <2>1, <2>2, DecisionTyped
<1>8. CASE CallRecords(c) /\ ~Ends(c)
  <2>1. call' = [call EXCEPT ![c] = [IdleCall EXCEPT !.pc = call[c].then,
                    !.des = call[c].des, !.cur = call[c].cur]]
    BY <1>8 DEF CallRecords
  <2>2. /\ call'[c].pc = call[c].then /\ call'[c].cur = call[c].cur
        /\ call'[c].new = None /\ call'[c].then = "idle"
    BY <1>1, <2>1 DEF IdleCall
  <2> QED BY <1>8, <2>2 DEF Edge, CallRecords
<1>9. CASE CallReadsRevision(c) /\ call' # [call EXCEPT ![c] = Report]
  <2>1. call' = [call EXCEPT ![c].new = w.gen, ![c].pc = "look"]
    BY <1>9 DEF CallReadsRevision, OwnerRevision, Fails
  <2>2. call'[c] = [call[c] EXCEPT !.new = w.gen, !.pc = "look"] BY <1>1, <2>1
  <2>3. call'[c].pc = "look" /\ call'[c].new = w.gen BY <1>1, <2>2 DEF CallRecord
  <2>4. UNCHANGED <<a, w, current>> /\ call[c].pc = "revision"
    BY <1>9 DEF CallReadsRevision, Fails
  <2> QED BY <2>3, <2>4 DEF Edge
<1>10. CASE /\ \/ CallReadsBase(c) \/ CallLooks(c) \/ CallDeletesOutdated(c) \/ CallCreates(c)
               \/ CallRefreshesStatus(c)
            /\ call' # [call EXCEPT ![c] = Report]
  <2>1. PICK pc \in {"revision", "delete", "create", "patch", "replicas"} :
          /\ call' = [call EXCEPT ![c].pc = pc]
          /\ \/ call[c].pc = "base" /\ call[c].cur # None /\ pc = "revision"
             \/ /\ call[c].pc \in {"look", "delete", "create"}
                /\ pc \in {"delete", "create", "patch"}
             \/ call[c].pc = "refresh" /\ pc = "replicas"
    BY <1>10, Constants
    DEF CallReadsBase, CallLooks, CallDeletesOutdated, CallCreates, CallRefreshesStatus,
        Goes, Fails, Readable
  <2>2. call'[c] = [call[c] EXCEPT !.pc = pc] BY <1>1, <2>1
  <2> QED BY <1>1, <2>1, <2>2 DEF Edge, CallRecord
<1>11. CASE CallPatchesOwner(c) /\ call' # [call EXCEPT ![c] = Report]
  <2>1. call' = [call EXCEPT ![c] = [IdleCall EXCEPT !.pc = "confirm", !.new = call[c].new]]
    BY <1>11 DEF CallPatchesOwner, Fails
  <2>2. call'[c].pc = "confirm" /\ call'[c].new = call[c].new BY <1>1, <2>1 DEF IdleCall
  <2> QED BY <1>11, <2>2 DEF Edge, CallPatchesOwner
<1> QED
  BY <1>3, <1>4, <1>5, <1>6, <1>7, <1>8, <1>9, <1>10, <1>11
  DEF CallStep, CallRecordRefused, CallConfirms, CallConfirmRefused, CallPatchesReplicas,
      CallReports, Fails, CallRecords

(* While there is no rollback point, a step of a call leaves the workload    *)
(* and the desired template alone.                                           *)
LEMMA CallKeepsUntouched ==
    ASSUME IInv, NEW c \in Calls, CallStep(c)
    PROVE  UntouchedUntilDiscovered'
<1>1. TypeOK /\ UntouchedUntilDiscovered BY DEF IInv
<1>2. a'.life = a.life /\ a'.disc = a.disc BY <1>1, CallObject
<1>3. a.life = "new" => a.disc = None BY <1>1 DEF UntouchedUntilDiscovered
<1>4. CASE a.disc # None BY <1>2, <1>3, <1>4 DEF UntouchedUntilDiscovered
<1>5. CASE a.disc = None
  <2>1. /\ w.repl = 1 /\ w.tmpl = Orig /\ a.tmpl = None
        /\ \A d \in Calls :
            /\ call[d].pc \notin {"revision", "look", "delete", "create", "patch", "confirm",
                                  "refresh", "replicas"}
            /\ call[d].cur = None /\ call[d].then # "refresh"
    BY <1>1, <1>5 DEF UntouchedUntilDiscovered
  <2>2. UNCHANGED w BY <2>1, CallWritesNothing DEF CallPatchesOwner, CallPatchesReplicas
  <2>3. a'.tmpl = None BY <1>1, <2>1, CallObject DEF CallConfirms
  <2>4. call[c].then \in {"idle", "base", "refresh"} BY <1>1 DEF TypeOK, CallRecord
  <2>5. /\ call'[c].pc \notin {"revision", "look", "delete", "create", "patch", "confirm",
                              "refresh", "replicas"}
        /\ call'[c].cur = None /\ call'[c].then # "refresh"
    BY <1>1, <1>5, <2>1, <2>4, CallMoves DEF Edge, CurrentTemplate
  <2>6. \A d \in Calls \ {c} : call'[d] = call[d] BY <1>1, CallMoves
  <2> QED BY <1>2, <1>3, <2>1, <2>2, <2>3, <2>5, <2>6 DEF UntouchedUntilDiscovered
<1> QED BY <1>4, <1>5

(* The workload keeps its template until there is a rollback point.          *)
LEMMA NextUntouched == IInv /\ [Next]_vars => UntouchedUntilDiscovered'
<1> SUFFICES ASSUME IInv, [Next]_vars PROVE UntouchedUntilDiscovered' OBVIOUS
<1>0. TypeOK /\ UntouchedUntilDiscovered /\ ReconcilerInStep BY DEF IInv
<1>1. CASE RecStep
  <2>0. a \in Object BY <1>0 DEF TypeOK
  <2>1. UNCHANGED call /\ a'.tmpl = a.tmpl BY <1>0, <1>1, RecFrame
  <2>2. a'.disc = None => a.disc = None
    BY <1>0, <1>1, <2>0, RecFrame
    DEF Object, RecAddsFinalizer, RecUpdatesStatus, RecFinalizes, Writes, Refused, Touches,
        ReconcilerInStep
  <2>3. a.disc = None => UNCHANGED w
    BY <1>0, <1>1, RecFrame DEF RecCleansUp, ReconcilerInStep, TypeOK
  <2>4. a'.life = "new" => a'.disc = None
    BY <1>0, <1>1, <2>0, RecFrame
    DEF Object, RecAddsFinalizer, RecUpdatesStatus, RecFinalizes, Writes, Refused, Touches,
        ReconcilerInStep, UntouchedUntilDiscovered
  <2> QED BY <1>0, <2>1, <2>2, <2>3, <2>4 DEF UntouchedUntilDiscovered
<1>2. CASE \E c \in Calls : CallStep(c) BY <1>2, CallKeepsUntouched
<1>3. CASE \E h \in Handlers : HandlerStep(h)
  BY <1>0, <1>3, HandlerFrame DEF UntouchedUntilDiscovered
<1>4. CASE Environment
  <2>1. a'.life = "new" => a.life = "new"
    BY <1>0, <1>4, EnvironmentFrame DEF UserDeletes, TypeOK, Object
  <2> QED BY <1>0, <1>4, <2>1, EnvironmentFrame DEF UntouchedUntilDiscovered
<1>5. CASE Crash BY <1>0, <1>5, IdleTyped DEF Crash, UntouchedUntilDiscovered
<1>6. CASE UNCHANGED vars BY <1>0, <1>6 DEF vars, UntouchedUntilDiscovered
<1> QED BY <1>1, <1>2, <1>3, <1>4, <1>5, <1>6 DEF Next, Step

-----------------------------------------------------------------------------
(* Overlapping calls.                                                        *)

(* A step of anyone else leaves the calls and the grace period of a call     *)
(* whose copy is still valid as they are.                                    *)
LEMMA OthersKeepCalls ==
    ASSUME IInv, [Next]_vars, ~(\E c \in Calls : CallStep(c)), ~Crash
    PROVE  /\ UNCHANGED call
           /\ a'.tmpl = a.tmpl /\ a'.grace \subseteq a.grace
           /\ w'.gen >= w.gen /\ w.gen \in Nat
           /\ \A c \in Calls : c \in current' => c \in current
<1>0. TypeOK /\ w.gen \in Nat BY DEF IInv, TypeOK, Workload
<1>1. CASE RecStep BY <1>0, <1>1, RecFrame, RecWorkload, Constants
<1>2. CASE \E h \in Handlers : HandlerStep(h)
  BY <1>0, <1>2, HandlerFrame, Constants
<1>3. CASE Environment BY <1>0, <1>3, EnvironmentFrame
<1>4. CASE UNCHANGED vars BY <1>0, <1>4 DEF vars
<1> QED BY <1>1, <1>2, <1>3, <1>4 DEF Next, Step

(* Of two calls that saw the same status only one records its decision.      *)
LEMMA NextDecidedOutsideGrace == IInv /\ [Next]_vars => DecidedOutsideGrace'
<1> SUFFICES ASSUME IInv, [Next]_vars PROVE DecidedOutsideGrace' OBVIOUS
<1> USE DEF DecidedOutsideGrace
<1>0. TypeOK /\ DecidedOutsideGrace BY DEF IInv
<1>1. ASSUME NEW c \in Calls, CallStep(c) PROVE DecidedOutsideGrace'
  <2> SUFFICES ASSUME NEW d \in Calls, call'[d].pc = "record", d \in current'
               PROVE  call'[d].act \notin a'.grace
    OBVIOUS
  <2>1. CASE UNCHANGED a
    <3>1. CASE d # c
      <4>1. call'[d] = call[d] BY <1>0, <1>1, <3>1, CallMoves
      <4>2. d \in current BY <1>0, <1>1, <3>1, CallCopies
      <4> QED BY <1>0, <2>1, <4>1, <4>2
    <3>2. CASE d = c
      <4>1. call[c].then \in {"idle", "base", "refresh"} BY <1>0 DEF TypeOK, CallRecord
      <4>2. call'[c].act \notin a.grace BY <1>0, <1>1, <3>2, <4>1, CallMoves DEF Edge
      <4> QED BY <2>1, <3>2, <4>2
    <3> QED BY <3>1, <3>2
  <2>2. CASE CallRecords(c) \/ CallConfirms(c)
    <3>1. d = c BY <1>0, <1>1, <2>2, CallCopies
    <3>2. call[c].pc \in {"record", "confirm"} BY <2>2 DEF CallRecords, CallConfirms
    <3>3. call[c].then \in {"idle", "base", "refresh"} BY <1>0 DEF TypeOK, CallRecord
    <3> QED BY <1>0, <1>1, <3>1, <3>2, <3>3, CallMoves DEF Edge
  <2> QED BY <1>1, <2>1, <2>2, CallWritesNothing
<1>2. CASE Crash BY <1>2 DEF Crash
<1>3. CASE ~(\E c \in Calls : CallStep(c)) /\ ~Crash
  BY <1>0, <1>3, OthersKeepCalls
<1> QED BY <1>1, <1>2, <1>3

(* Names of templates are taken from a generation that only grows.           *)
LEMMA NextNamesMoveForward == IInv /\ [Next]_vars => NamesMoveForward'
<1> SUFFICES ASSUME IInv, [Next]_vars PROVE NamesMoveForward' OBVIOUS
<1> USE DEF NamesMoveForward
<1>0. TypeOK /\ NamesMoveForward BY DEF IInv
<1>1. TypeOK' BY <1>0, NextTypes
<1>2. /\ a.tmpl # None => a.tmpl \in Nat
      /\ a'.tmpl # None => a'.tmpl \in Nat
      /\ w.gen \in Nat /\ w'.gen \in Nat
      /\ \A d \in Calls : call[d].new # None => call[d].new \in Nat
  BY <1>0, <1>1, Constants DEF TypeOK, Object, Workload, CallRecord
<1>3. ASSUME NEW c \in Calls, CallStep(c) PROVE NamesMoveForward'
  <2>1. w'.gen >= w.gen BY <1>0, <1>3, CallWorkload
  <2>2. CASE CallConfirms(c)
    <3>1. a'.tmpl = call[c].new /\ current' = {} /\ call'[c] = IdleCall
      BY <1>0, <2>2 DEF CallConfirms, Writes, Ends, TypeOK, Object
    <3>2. \A d \in Calls \ {c} : call'[d] = call[d] BY <1>0, <1>3, CallMoves
    <3> QED BY <1>0, <1>2, <2>1, <3>1, <3>2, IdleTyped
  <2>3. CASE ~CallConfirms(c)
    <3>1. a'.tmpl = a.tmpl BY <1>0, <1>3, <2>3, CallObject
    <3>2. a'.tmpl # None => a'.tmpl <= w'.gen BY <1>0, <1>2, <2>1, <3>1
    <3>3. ASSUME NEW d \in Calls, call'[d].new # None
          PROVE  /\ call'[d].new <= w'.gen
                 /\ d \in current' /\ a'.tmpl # None => a'.tmpl <= call'[d].new
      <4>1. CASE call'[d].new = call[d].new
        <5>1. call[d].new # None BY <3>3, <4>1
        <5>2. d \in current' => d \in current
          <6>1. CASE d # c BY <1>0, <1>3, <6>1, CallCopies
          <6>2. CASE d = c
            <7>1. call[c].pc # "get" BY <1>0, <5>1, <6>2 DEF TypeOK, CallRecord
            <7> QED BY <1>0, <1>3, <6>2, <7>1, CallCopies DEF CallGets
          <6> QED BY <6>1, <6>2
        <5> QED BY <1>0, <1>2, <2>1, <3>1, <4>1, <5>1, <5>2
      <4>2. CASE d = c /\ call'[c].new = w.gen
        BY <1>0, <1>2, <2>1, <3>1, <4>2
      <4>3. call'[d].new = call[d].new \/ (d = c /\ call'[c].new = w.gen)
        BY <1>0, <1>3, <3>3, CallMoves DEF Edge
      <4> QED BY <4>1, <4>2, <4>3
    <3> QED BY <3>2, <3>3
  <2> QED BY <2>2, <2>3
<1>4. CASE Crash BY <1>0, <1>4, IdleTyped DEF Crash
<1>5. CASE ~(\E c \in Calls : CallStep(c)) /\ ~Crash
  BY <1>0, <1>2, <1>5, OthersKeepCalls
<1> QED BY <1>3, <1>4, <1>5

-----------------------------------------------------------------------------
(* The inductive invariant holds in every reachable state.                   *)
LEMMA NextIInv == IInv /\ [Next]_vars => IInv'
<1> SUFFICES ASSUME IInv, [Next]_vars PROVE IInv' OBVIOUS
<1>1. TypeOK' BY NextTypes DEF IInv
<1> QED
  BY <1>1, NextKeepsInStep, NextDiscoveredIsOrig, NextUntouched, NextDecidedOutsideGrace,
     NextNamesMoveForward
  DEF IInv

(* The inductive invariant holds in every reachable state.                   *)
LEMMA Invariance == Spec => []IInv
<1>1. Init => IInv BY InitIInv
<1>2. IInv /\ [Next]_vars => IInv' BY NextIInv
<1> QED BY <1>1, <1>2, PTL DEF Spec

(* Type correctness of the object, the workload, the templates, the claims   *)
(* and all goroutines: among the rest, a reconciler that cleans up knows the *)
(* template to restore, a call that patches the workload has a template to   *)
(* replace and a name for the new one, and a configuration that the policies *)
(* limited is still one with a GPU (EvaluateAndScale, Reconcile).            *)
THEOREM LifecycleTypes == Spec => []TypeOK
<1>1. IInv => TypeOK BY DEF IInv
<1> QED BY <1>1, Invariance, PTL

(* Status.Discovery.ResourceClaim, once set, is the template the workload    *)
(* had before the controller touched it, and that template is never changed  *)
(* or deleted (discoverResources, CleanupOldResourceClaimTemplates,          *)
(* patchResourceClaimTemplate).                                              *)
THEOREM RollbackPointIsStable == Spec => []StableRollbackPoint
<1>1. IInv => StableRollbackPoint
  BY DEF IInv, DiscoveredIsOrig, StableRollbackPoint
<1> QED BY <1>1, Invariance, PTL

(* No call changes the workload of an object that has no finalizer yet: an   *)
(* immediate deletion leaves nothing to restore (Reconcile,                  *)
(* applyScalingAction).                                                      *)
THEOREM NothingBeforeFinalizer == Spec => []UntouchedUntilFinalizer
<1>1. IInv => UntouchedUntilFinalizer
  BY DEF IInv, UntouchedUntilDiscovered, UntouchedUntilFinalizer
<1> QED BY <1>1, Invariance, PTL

(* When the finalizer is removed the autoscaler is unregistered and stays    *)
(* so: no reconciliation in progress registers it again (Reconcile).         *)
THEOREM NoMonitoringOfTheGone == Spec => []GoneIsUnregistered
<1>1. IInv => GoneIsUnregistered
  BY DEF IInv, RegisteredWhileAlive, GoneIsUnregistered
<1> QED BY <1>1, Invariance, PTL

(* Among any number of overlapping calls no decision is recorded within the  *)
(* grace period of its direction (checkGracePeriod, updateScalingStatus).    *)
THEOREM GracePeriodHolds == Spec => OneApplyPerGrace
<1>1. IInv /\ [Next]_vars =>
        [\A c \in Calls : CallRecords(c) => call[c].act \notin a.grace]_vars
  BY DEF IInv, DecidedOutsideGrace, CallRecords, Writes
<1> QED BY <1>1, Invariance, PTL DEF Spec, OneApplyPerGrace

(* The desired template of the status is never taken back to an older one,   *)
(* however slow the call that made it (applyResourceChanges).                *)
THEOREM TemplateMovesForward == Spec => DesiredTemplateMovesForward
<1>1. ASSUME IInv, [Next]_vars, a.tmpl # None
      PROVE  a'.tmpl # None /\ a'.tmpl >= a.tmpl
  <2>0. TypeOK /\ a.tmpl \in Nat BY <1>1, Constants DEF IInv, TypeOK, Object
  <2>1. CASE a'.tmpl = a.tmpl BY <1>1, <2>0, <2>1
  <2>2. ASSUME NEW c \in Calls, CallConfirms(c) PROVE a'.tmpl # None /\ a'.tmpl >= a.tmpl
    <3>1. a'.tmpl = call[c].new /\ c \in current /\ call[c].pc = "confirm"
      BY <2>0, <2>2 DEF CallConfirms, Writes, TypeOK, Object
    <3>2. call[c].new \in Managed BY <2>0, <3>1 DEF TypeOK, CallRecord
    <3>3. a.tmpl <= call[c].new BY <1>1, <3>1, <3>2, Constants DEF IInv, NamesMoveForward
    <3> QED BY <2>0, <3>1, <3>2, <3>3, Constants
  <2>3. CASE \E c \in Calls : CallStep(c) BY <2>0, <2>1, <2>2, <2>3, CallObject
  <2>4. CASE Crash BY <2>1, <2>4 DEF Crash
  <2>5. CASE ~(\E c \in Calls : CallStep(c)) /\ ~Crash
    BY <1>1, <2>1, <2>5, OthersKeepCalls
  <2> QED BY <2>3, <2>4, <2>5
<1>2. IInv /\ [Next]_vars => [a.tmpl # None => a'.tmpl # None /\ a'.tmpl >= a.tmpl]_vars
  BY <1>1
<1> QED BY <1>2, Invariance, PTL DEF Spec, DesiredTemplateMovesForward

-----------------------------------------------------------------------------
(* The restoration.                                                          *)

(* The deletion removes the finalizer of a workload that has its original    *)
(* template, and then it keeps it.                                           *)
Restored ==
    /\ a.life = "gone" => w.tmpl = Orig
    /\ rec.pc = "finalize" => w.tmpl = Orig

(* A call that is idle starts at most, which does not change the workload.   *)
LEMMA QuietCalls ==
    ASSUME Quiet, NEW c \in Calls, CallStep(c)
    PROVE  UNCHANGED <<a, w, rec>>
BY DEF Quiet, CallStep, CallStarts, CallGets, CallDecides, CallRecords, CallRecordRefused,
       CallReadsBase, CallReadsRevision, CallLooks, CallDeletesOutdated, CallCreates,
       CallPatchesOwner, CallConfirms,
       CallConfirmRefused, CallRefreshesStatus, CallPatchesReplicas, CallReports

(* What a deletion restored stays restored.                                  *)
LEMMA NextRestored ==
    ASSUME IInv, Restored, a.life \in {"deleting", "gone"} => Quiet, [Next]_vars
    PROVE  Restored'
<1> USE DEF Restored
<1>0. /\ TypeOK /\ ReconcilerInStep /\ UntouchedUntilDiscovered /\ DiscoveredIsOrig
      /\ a \in Object
  BY DEF IInv, TypeOK
<1>1. CASE RecStep
  <2>1. CASE RecUnregisters
    <3>1. /\ UNCHANGED <<a, w>> /\ a.life = "deleting" /\ rec.disc = a.disc
          /\ rec'.pc = "finalize" => rec.disc = None
      BY <1>0, <2>1 DEF RecUnregisters, ReconcilerInStep, TypeOK
    <3> QED BY <1>0, <3>1 DEF UntouchedUntilDiscovered
  <2>2. CASE RecCleansUp
    <3>1. rec.disc = Orig BY <1>0, <2>2 DEF RecCleansUp, TypeOK, DiscoveredIsOrig
    <3>2. w'.tmpl = Orig
      BY <1>0, <2>2, <3>1, UpdatesWorkloadTyped, Constants, ProcAssumption
      DEF RecCleansUp, TypeOK
    <3> QED BY <3>2
  <2>3. CASE RecFinalizes BY <2>3, IdleTyped DEF RecFinalizes
  <2>4. CASE RecGets BY <1>0, <2>4 DEF RecGets, Object
  <2>5. CASE RecDiscovers BY <2>5 DEF RecDiscovers
  <2>6. CASE RecRegisters BY <1>0, <2>6 DEF RecRegisters, TypeOK
  <2>7. CASE RecFindsNothing BY <2>7 DEF RecFindsNothing
  <2>8. CASE RecAddsFinalizer \/ RecUpdatesStatus \/ RecCleanUpFails \/ RecFinalizeFails
    <3>1. UNCHANGED w /\ rec'.pc = "idle"
      BY <2>8, IdleTyped DEF RecAddsFinalizer, RecUpdatesStatus, RecCleanUpFails, RecFinalizeFails
    <3>2. a'.life \in {a.life, "active"}
      BY <1>0, <2>8
      DEF RecAddsFinalizer, RecUpdatesStatus, RecCleanUpFails, RecFinalizeFails, Writes,
          Refused, Touches, Object
    <3> QED BY <3>1, <3>2
  <2> QED BY <1>1, <2>1, <2>2, <2>3, <2>4, <2>5, <2>6, <2>7, <2>8 DEF RecStep
<1>2. ASSUME NEW c \in Calls, CallStep(c) PROVE Restored'
  <2>1. CASE a.life \in {"deleting", "gone"} BY <1>2, <2>1, QuietCalls
  <2>2. CASE a.life \notin {"deleting", "gone"}
    <3>1. a'.life = a.life /\ rec' = rec BY <1>0, <1>2, CallObject, CallWritesNothing
    <3> QED BY <1>0, <2>2, <3>1 DEF ReconcilerInStep
  <2> QED BY <2>1, <2>2
<1>3. CASE \E h \in Handlers : HandlerStep(h) BY <1>0, <1>3, HandlerFrame
<1>4. CASE Environment
  <2>1. CASE UserDeletes
    <3>1. a'.life = "gone" => a.life = "new" BY <1>0, <2>1 DEF UserDeletes, Object
    <3>2. UNCHANGED <<w, rec>> BY <2>1 DEF UserDeletes
    <3> QED BY <1>0, <3>1, <3>2 DEF UntouchedUntilDiscovered
  <2>2. CASE ~UserDeletes BY <1>0, <1>4, <2>2, EnvironmentFrame
  <2> QED BY <2>1, <2>2
<1>5. CASE Crash BY <1>5, IdleTyped DEF Crash
<1>6. CASE UNCHANGED vars BY <1>6 DEF vars
<1> QED BY <1>1, <1>2, <1>3, <1>4, <1>5, <1>6 DEF Next, Step

(* When no call runs from the deletion on, the object only goes away with    *)
(* the workload back on its original template, whatever failed or crashed    *)
(* before and whatever template the status knows (cleanupWorkload).          *)
THEOREM DeletionRestores == Spec => RestoredWhenQuiet
<1>1. Init => Restored BY IdleTyped DEF Init, Restored
<1>2. IInv /\ Restored /\ (a.life \in {"deleting", "gone"} => Quiet) /\ [Next]_vars
        => Restored'
  BY NextRestored
<1>3. Restored => (a.life = "gone" => w.tmpl = Orig) BY DEF Restored
<1> QED BY <1>1, <1>2, <1>3, Invariance, PTL DEF Spec, RestoredWhenQuiet

-----------------------------------------------------------------------------
(* Templates that are deleted and created again.                             *)

(* The workload's template was named after an earlier generation, so that it *)
(* is not the one a call replaces; and a call that is about to patch its     *)
(* template into the workload has one.                                       *)
InUseKept ==
    /\ w.tmpl < w.gen
    /\ \A c \in Replacing : w.tmpl # call[c].new
    /\ a.life # "gone" =>
        /\ tpl[w.tmpl] # None
        /\ \A c \in Calls : call[c].pc = "patch" => tpl[call[c].new] # None

(* A call that patches the workload raises its generation above the name it  *)
(* puts there.                                                               *)
LEMMA PatchNamesEarlier ==
    ASSUME TypeOK, w.tmpl < w.gen, NEW repl, NEW tmpl \in Names, tmpl <= w.gen,
           UpdatesWorkload(repl, tmpl)
    PROVE  w'.tmpl < w'.gen /\ w'.tmpl = tmpl
BY Constants DEF TypeOK, Workload, UpdatesWorkload

(* What the steps of a call do to the template in use.                       *)
LEMMA CallInUse ==
    ASSUME IInv, InUseKept, Exclusive, NEW c \in Calls, CallStep(c)
    PROVE  InUseKept'
<1>0. /\ TypeOK /\ NamesMoveForward /\ call[c] \in CallRecord /\ w \in Workload
      /\ tpl \in [Names -> Sizes \cup {None}]
  BY DEF IInv, TypeOK
<1>1. w.tmpl \in Names /\ w.tmpl <= w.gen
  <2>1. w.tmpl \in Names /\ w.gen \in Nat BY <1>0 DEF Workload
  <2>2. w.tmpl \in Nat BY <2>1, Constants
  <2> QED BY <2>1, <2>2 DEF InUseKept
<1>2. /\ \A d \in Calls \ {c} : call'[d] = call[d]
      /\ Edge(c, call[c], call'[c])
  BY <1>0, CallMoves
<1>3. a'.life = a.life BY <1>0, CallObject
<1>4. CASE CallPatchesOwner(c) /\ ~UNCHANGED w
  <2>1. /\ UpdatesWorkload(call[c].des.r, IF w.tmpl = call[c].cur THEN call[c].new ELSE w.tmpl)
        /\ UNCHANGED tpl /\ call[c].pc = "patch"
        /\ call' = [call EXCEPT ![c] =
                [IdleCall EXCEPT !.pc = "confirm", !.new = call[c].new]]
    BY <1>4 DEF CallPatchesOwner
  <2>0. call'[c].pc = "confirm" BY <1>0, <2>1 DEF TypeOK, IdleCall
  <2>2. call[c].new \in Names /\ call[c].new <= w.gen
    BY <1>0, <2>1, Constants DEF CallRecord, NamesMoveForward
  <2>3. w'.tmpl < w'.gen /\ w'.tmpl \in {call[c].new, w.tmpl}
    BY <1>0, <1>1, <2>1, <2>2, PatchNamesEarlier DEF InUseKept
  <2>4. Replacing' = {}
    <3>1. \A d \in Calls \ {c} : call[d].pc \notin {"look", "delete", "create", "patch"}
      BY <2>1 DEF Exclusive, Replacing
    <3> QED BY <1>2, <2>0, <3>1 DEF Replacing
  <2>5. \A d \in Calls : call'[d].pc # "patch" BY <2>4 DEF Replacing
  <2> QED BY <1>3, <2>1, <2>3, <2>4, <2>5 DEF InUseKept
<1>5. CASE UNCHANGED w \/ CallPatchesReplicas(c)
  <2>1. w'.tmpl = w.tmpl /\ w'.tmpl < w'.gen
    <3>1. CASE UNCHANGED w BY <3>1 DEF InUseKept
    <3>2. CASE CallPatchesReplicas(c) /\ ~UNCHANGED w
      <4>1. UpdatesWorkload(call[c].des.r, w.tmpl) BY <3>2 DEF CallPatchesReplicas
      <4> QED BY <1>0, <1>1, <4>1, PatchNamesEarlier DEF InUseKept
    <3> QED BY <1>5, <3>1, <3>2
  <2>2. \A d \in Replacing' : w'.tmpl # call'[d].new
    <3> SUFFICES ASSUME NEW d \in Calls,
                        call'[d].pc \in {"look", "delete", "create", "patch"}
                 PROVE  w.tmpl # call'[d].new
      BY <2>1 DEF Replacing
    <3>1. CASE d # c BY <1>2, <3>1 DEF InUseKept, Replacing
    <3>2. CASE d = c
      <4>1. CASE call'[c].new = w.gen BY <1>0, <3>2, <4>1, Constants DEF InUseKept, Workload
      <4>2. CASE /\ call[c].pc \in {"look", "delete", "create"}
                 /\ call'[c].new = call[c].new
        BY <3>2, <4>2 DEF InUseKept, Replacing
      <4>3. call[c].then \in {"idle", "base", "refresh"} BY <1>0 DEF CallRecord
      <4> QED BY <1>2, <3>2, <4>1, <4>2, <4>3 DEF Edge
    <3> QED BY <3>1, <3>2
  <2>3. ASSUME a.life # "gone" PROVE tpl'[w.tmpl] # None
    <3>1. tpl[w.tmpl] # None /\ w.tmpl \in Names BY <1>0, <2>3 DEF InUseKept, Workload
    <3>2. CASE UNCHANGED tpl BY <3>1, <3>2
    <3>3. CASE /\ CallDeletesOutdated(c) \/ CallCreates(c)
               /\ ~UNCHANGED tpl
      <4>1. /\ call[c].pc \in {"delete", "create"}
            /\ \E x : tpl' = [tpl EXCEPT ![call[c].new] = x]
        BY <3>3 DEF CallDeletesOutdated, CallCreates
      <4>2. w.tmpl # call[c].new BY <4>1 DEF InUseKept, Replacing
      <4> QED BY <1>0, <3>1, <4>1, <4>2
    <3> QED BY <3>2, <3>3, CallWritesNothing
  <2>4. ASSUME a.life # "gone", NEW d \in Calls, call'[d].pc = "patch"
        PROVE  tpl'[call'[d].new] # None
    <3>1. CASE d # c
      <4>1. call[d].pc = "patch" /\ call'[d].new = call[d].new BY <1>2, <2>4, <3>1
      <4>2. call[c].pc \notin {"delete", "create"}
        BY <3>1, <4>1 DEF Exclusive, Replacing
      <4>3. UNCHANGED tpl BY <4>2, CallWritesNothing DEF CallDeletesOutdated, CallCreates
      <4> QED BY <2>4, <4>1, <4>3 DEF InUseKept
    <3>2. CASE d = c
      <4>0. call[c].then \in {"idle", "base", "refresh"} BY <1>0 DEF CallRecord
      <4>1. /\ call[c].pc \in {"look", "delete", "create"} /\ call'[c].new = call[c].new
        BY <1>2, <2>4, <3>2, <4>0 DEF Edge
      <4>2. call[c].new \in Names /\ call[c].des \in Configs
        BY <1>0, <4>1, Constants DEF CallRecord
      <4>3. CASE CallLooks(c)
        <5>1. /\ UNCHANGED tpl
              /\ Goes(c, IF tpl[call[c].new] = None THEN "create"
                         ELSE IF TemplateMatchesDesiredConfig(call[c].new, call[c].des)
                              THEN "patch" ELSE "delete")
          BY <1>0, <2>4, <3>2, <4>3, IdleTyped DEF CallLooks, Fails, TypeOK
        <5>2. tpl[call[c].new] # None BY <1>0, <2>4, <3>2, <5>1 DEF Goes, TypeOK
        <5> QED BY <3>2, <4>1, <5>1, <5>2
      <4>4. CASE CallDeletesOutdated(c)
        <5>1. call' = [call EXCEPT ![c].pc = "create"] \/ call' = [call EXCEPT ![c] = Report]
          BY <4>4 DEF CallDeletesOutdated, Fails, Goes
        <5>2. call \in [Calls -> CallRecord] BY <1>0 DEF TypeOK
        <5>3. CASE call' = [call EXCEPT ![c].pc = "create"]
          BY <2>4, <3>2, <5>2, <5>3 DEF CallRecord
        <5>4. CASE call' = [call EXCEPT ![c] = Report]
          BY <2>4, <3>2, <5>2, <5>4 DEF Report, IdleCall
        <5> QED BY <5>1, <5>3, <5>4
      <4>5. CASE CallCreates(c)
        <5>1. tpl' = [tpl EXCEPT ![call[c].new] =
                         [Size(call[c].des) EXCEPT !.c = StoredCompute(@)]]
          BY <1>0, <2>4, <3>2, <4>5, IdleTyped DEF CallCreates, Fails, TypeOK
        <5>2. [Size(call[c].des) EXCEPT !.c = StoredCompute(@)] \in Sizes
          BY <4>2, StoredComputeNat DEF Size, Sizes, Configs, Config
        <5>3. tpl'[call[c].new] \in Sizes BY <1>0, <4>2, <5>1, <5>2
        <5> QED BY <3>2, <4>1, <5>3, ProcAssumption
      <4>6. CallLooks(c) \/ CallDeletesOutdated(c) \/ CallCreates(c)
        BY <4>1
        DEF CallStep, CallStarts, CallGets, CallDecides, CallRecords, CallRecordRefused,
            CallReadsBase, CallReadsRevision, CallPatchesOwner, CallConfirms,
            CallConfirmRefused, CallRefreshesStatus, CallPatchesReplicas, CallReports
      <4> QED BY <4>3, <4>4, <4>5, <4>6
    <3> QED BY <3>1, <3>2
  <2> QED BY <1>3, <2>1, <2>2, <2>3, <2>4 DEF InUseKept
<1> QED BY <1>4, <1>5, CallWritesNothing

(* Nobody but the handlers deletes a template outside of a call, as long as  *)
(* the object is there.                                                      *)
LEMMA NextInUse ==
    ASSUME IInv, InUseKept, Exclusive, [Next]_vars
    PROVE  InUseKept'
<1>0. /\ TypeOK /\ ReconcilerInStep /\ DiscoveredIsOrig /\ a \in Object /\ w \in Workload
      /\ call \in [Calls -> CallRecord]
  BY DEF IInv, TypeOK
<1>1. CASE RecStep
  <2>1. UNCHANGED <<tpl, call>> BY <1>0, <1>1, RecFrame
  <2>2. a'.life # "gone" => a.life # "gone"
    BY <1>0, <1>1, RecFrame
    DEF Object, RecAddsFinalizer, RecUpdatesStatus, RecFinalizes, Writes, Refused, Touches,
        ReconcilerInStep
  <2>3. CASE UNCHANGED w BY <2>1, <2>2, <2>3 DEF InUseKept, Replacing
  <2>4. CASE RecCleansUp
    <3>1. rec.disc = Orig BY <1>0, <2>4 DEF RecCleansUp, TypeOK, DiscoveredIsOrig
    <3>2. w'.tmpl = Orig /\ w'.gen >= w.gen /\ w'.gen \in Nat /\ w.gen > 0
      BY <1>0, <2>4, <3>1, UpdatesWorkloadTyped, Constants, ProcAssumption
      DEF RecCleansUp, Workload
    <3>3. tpl'[w'.tmpl] # None
      BY <1>0, <2>1, <3>2, ConfigAssumption, ProcAssumption DEF DiscoveredIsOrig
    <3>4. \A c \in Replacing' : w'.tmpl # call'[c].new
      BY <1>0, <2>1, <3>2, Constants DEF Replacing, CallRecord
    <3>5. w'.tmpl < w'.gen BY <1>0, <3>2 DEF Orig, Workload
    <3> QED BY <2>1, <2>2, <3>3, <3>4, <3>5 DEF InUseKept
  <2> QED BY <1>0, <1>1, <2>3, <2>4, RecFrame
<1>2. CASE \E c \in Calls : CallStep(c) BY <1>2, CallInUse
<1>3. CASE \E h \in Handlers : HandlerStep(h)
  <2>1. UNCHANGED <<a, w, call>> BY <1>0, <1>3, HandlerFrame
  <2>2. UNCHANGED tpl
    BY <1>3
    DEF Exclusive, HandlerStep, HandlerGets, HandlerUpdatesStatus, HandlerLists,
        HandlerSweeps, HandlerDone, DeletedGets, DeletedRemoves
  <2> QED BY <2>1, <2>2 DEF InUseKept, Replacing
<1>4. CASE Environment
  <2>1. /\ UNCHANGED call /\ w'.tmpl = w.tmpl /\ w'.gen >= w.gen /\ w'.gen \in Nat
        /\ w.tmpl \in Nat /\ w.gen \in Nat
    BY <1>0, <1>4, EnvironmentFrame, Constants DEF Workload
  <2>2. a'.life # "gone" => a.life # "gone"
    BY <1>0, <1>4, EnvironmentFrame DEF UserDeletes
  <2>3. a.life # "gone" => UNCHANGED tpl
    BY <1>4
    DEF Environment, ClaimCreated, ClaimAllocationChanges, ClaimDeleted, GraceElapses,
        UserDeletes, UserRollsOut, GarbageCollected
  <2>4. w'.tmpl < w'.gen BY <2>1 DEF InUseKept
  <2> QED BY <2>1, <2>2, <2>3, <2>4 DEF InUseKept, Replacing
<1>5. CASE Crash BY <1>5, IdleTyped DEF Crash, InUseKept, Replacing
<1>6. CASE UNCHANGED vars BY <1>6 DEF vars, InUseKept, Replacing
<1> QED BY <1>1, <1>2, <1>3, <1>4, <1>5, <1>6 DEF Next, Step

(* However often patchResourceClaimTemplate deletes a template and fails to  *)
(* create it again, the workload's template is there, as long as no call is  *)
(* overtaken by another between the naming and the patch and no handler      *)
(* deletes templates.                                                        *)
THEOREM InUseIsNotReplaced == Spec => InUseWhenExclusive
<1>1. Init => InUseKept
  BY IdleTyped, Constants, ConfigAssumption, ProcAssumption DEF Init, InUseKept, Replacing, Orig
<1>2. IInv /\ InUseKept /\ Exclusive /\ [Next]_vars => InUseKept' BY NextInUse
<1>3. InUseKept => (a.life # "gone" => tpl[w.tmpl] # None) BY DEF InUseKept
<1> QED BY <1>1, <1>2, <1>3, Invariance, PTL DEF Spec, InUseWhenExclusive

-----------------------------------------------------------------------------
(* What ends a deletion, as far as it does not depend on fairness.           *)

(* The steps of the reconciler once the deletion timestamp is there: those   *)
(* of a reconciliation that began before, and those of the deletion.         *)
FollowUp ==
    [p \in RecPcs |-> CASE p = "idle" -> {"unregister"}
                        [] p = "discover" -> {"register"}
                        [] p = "register" -> {"status"}
                        [] p = "status" -> {"idle"}
                        [] p = "unregister" -> {"cleanup", "finalize"}
                        [] p = "cleanup" -> {"finalize"}
                        [] p \in {"addfin", "finalize"} -> {}]

(* A deletion gets a step further, or it starts again, which takes a crash,  *)
(* a copy that is out of date or a request that fails; and the object goes   *)
(* away at the last step only.                                               *)
Onward ==
    /\ a'.life = "deleting" \/ (a'.life = "gone" /\ rec.pc = "finalize" /\ Rec \in current)
    /\ \/ rec' = rec
       \/ rec'.pc \in FollowUp[rec.pc]
       \/ rec' = IdleRec /\ (a'.life = "gone" \/ Crash \/ Rec \notin current \/ Faulty)

DeletionForward == [][a.life = "deleting" => Onward]_vars

(* A reconciliation during the deletion.                                     *)
LEMMA RecOnward ==
    ASSUME IInv, RecStep, a.life = "deleting"
    PROVE  Onward
<1>0. /\ a \in Object /\ rec \in [pc : RecPcs, disc : Names \cup {None}, dirty : BOOLEAN]
      /\ ReconcilerInStep
  BY DEF IInv, TypeOK
<1>1. CASE RecFindsNothing BY <1>1 DEF RecFindsNothing
<1>2. CASE RecAddsFinalizer BY <1>0, <1>2 DEF RecAddsFinalizer, ReconcilerInStep
<1>3. ASSUME UNCHANGED a, rec'.pc \in FollowUp[rec.pc] PROVE Onward BY <1>3 DEF Onward
<1>4. CASE RecGets
  <2>1. rec.pc = "idle" /\ rec'.pc = "unregister" /\ UNCHANGED a BY <1>4 DEF RecGets
  <2> QED BY <1>3, <2>1 DEF FollowUp, RecPcs
<1>5. CASE RecDiscovers
  <2>1. rec.pc = "discover" /\ rec'.pc = "register" /\ UNCHANGED a BY <1>5 DEF RecDiscovers
  <2> QED BY <1>3, <2>1 DEF FollowUp, RecPcs
<1>6. CASE RecRegisters
  <2>1. rec.pc = "register" /\ rec'.pc = "status" /\ UNCHANGED a
    BY <1>0, <1>6 DEF RecRegisters
  <2> QED BY <1>3, <2>1 DEF FollowUp, RecPcs
<1>7. CASE RecUpdatesStatus
  <2>1. rec.pc = "status" /\ rec'.pc = "idle" BY <1>7, IdleTyped DEF RecUpdatesStatus
  <2>2. a'.life = a.life
    BY <1>0, <1>7 DEF RecUpdatesStatus, Writes, Touches, Refused, Object
  <2>3. rec'.pc \in FollowUp[rec.pc] BY <2>1 DEF FollowUp, RecPcs
  <2> QED BY <2>2, <2>3 DEF Onward
<1>8. CASE RecUnregisters
  <2>1. rec.pc = "unregister" /\ rec'.pc \in {"cleanup", "finalize"} /\ UNCHANGED a
    BY <1>0, <1>8 DEF RecUnregisters
  <2> QED BY <1>3, <2>1 DEF FollowUp, RecPcs
<1>9. CASE RecCleansUp
  <2>1. rec.pc = "cleanup" /\ rec'.pc = "finalize" /\ UNCHANGED a
    BY <1>9 DEF RecCleansUp, IdleRec
  <2> QED BY <1>3, <2>1 DEF FollowUp, RecPcs
<1>10. CASE RecFinalizes
  <2>1. rec.pc = "finalize" /\ Rec \in current /\ a'.life = "gone" /\ rec' = IdleRec
    BY <1>0, <1>10 DEF RecFinalizes, Writes, Object
  <2> QED BY <2>1 DEF Onward
<1>11. CASE RecCleanUpFails \/ RecFinalizeFails
  <2>1. UNCHANGED a /\ rec' = IdleRec /\ (Rec \notin current \/ Faulty)
    BY <1>11 DEF RecCleanUpFails, RecFinalizeFails, Refused
  <2> QED BY <2>1 DEF Onward
<1> QED BY <1>1, <1>2, <1>4, <1>5, <1>6, <1>7, <1>8, <1>9, <1>10, <1>11 DEF RecStep, Onward

(* The deletion branch of Reconcile goes from one step to the next, however  *)
(* many calls, handlers and users are at work meanwhile; only a crash, a     *)
(* failed request or a write of somebody else, which makes the copy out of   *)
(* date, sets it back, and only its last step lets the object go.  With the  *)
(* fairness of the work queue this is what DeletionCompletes rests on.       *)
THEOREM DeletionStepsForward == Spec => DeletionForward
<1>1. ASSUME IInv, [Next]_vars, a.life = "deleting" PROVE Onward
  <2>0. TypeOK BY <1>1 DEF IInv
  <2>1. CASE rec' = rec /\ a'.life = a.life BY <1>1, <2>1 DEF Onward
  <2>2. CASE RecStep BY <1>1, <2>2, RecOnward
  <2>3. CASE \E c \in Calls : CallStep(c)
    BY <2>0, <2>1, <2>3, CallObject, CallWritesNothing
  <2>4. CASE \E h \in Handlers : HandlerStep(h) BY <2>0, <2>1, <2>4, HandlerFrame
  <2>5. CASE Environment
    <3>1. ~UserDeletes BY <1>1 DEF UserDeletes
    <3> QED BY <2>0, <2>1, <2>5, <3>1, EnvironmentFrame
  <2>6. CASE Crash
    <3>1. UNCHANGED a /\ rec' = IdleRec BY <2>6 DEF Crash
    <3> QED BY <1>1, <2>6, <3>1 DEF Onward
  <2>7. CASE UNCHANGED vars BY <2>1, <2>7 DEF vars
  <2> QED BY <1>1, <2>2, <2>3, <2>4, <2>5, <2>6, <2>7 DEF Next, Step
<1>2. IInv /\ [Next]_vars => [a.life = "deleting" => Onward]_vars BY <1>1
<1> QED BY <1>2, Invariance, PTL DEF Spec, DeletionForward
=============================================================================
