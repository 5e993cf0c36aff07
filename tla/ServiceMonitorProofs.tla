------------------------ MODULE ServiceMonitorProofs ------------------------
(***************************************************************************)
(* TLAPS proofs about ServiceMonitor, for any sets of keys, events, timers *)
(* and specs.  The inductive invariant adds to the checked invariants what *)
(* a timer slot looks like: only a free one names no event, an armed one   *)
(* is live, and the event of a used one has a cached spec.                 *)
(***************************************************************************)
EXTENDS ServiceMonitor, TLAPS

(* The shape of timers that the steps rely on. *)
TimersWellFormed ==
    \A t \in Timers :
        /\ timer[t].pc = "free" <=> timer[t].id = None
        /\ timer[t].pc = "free" => ~timer[t].live
        /\ timer[t].pc = "armed" => timer[t].live
        /\ timer[t].pc # "free" => cached[timer[t].id] # None

IInv ==
    /\ TypeOK
    /\ TimersWellFormed
    /\ RegisteredUnderOwnKey
    /\ OneLiveTimer
    /\ NoSilentRegistration

(* StopAndCancel leaves event i without an armed and without a live timer    *)
(* and the timers of every other event alone.                                *)
LEMMA StopAndCancelEffect ==
    ASSUME TypeOK, TimersWellFormed, NEW i \in Ids, NEW tm,
           tm = StopAndCancel(timer, i)
    PROVE  /\ tm \in [Timers -> TimerRec]
           /\ \A t \in Timers : timer[t].id # i => tm[t] = timer[t]
           /\ \A t \in Timers : timer[t].id = i =>
                \/ tm[t] = FreeTimer
                \/ /\ tm[t].id = i /\ tm[t].pc = timer[t].pc
                   /\ tm[t].pc \in {"started", "select"}
                   /\ tm[t].spec = timer[t].spec /\ ~tm[t].live
<1> FreeTimer \in TimerRec BY DEF FreeTimer, TimerRec, TimerPc
<1> QED BY NoneAssumption DEF StopAndCancel, TypeOK, TimersWellFormed, TimerRec, TimerPc, FreeTimer

(* Initially nothing is registered and every timer is free.                  *)
LEMMA InitIInv == Init => IInv
<1> SUFFICES ASSUME Init PROVE IInv OBVIOUS
<1>1. FreeTimer \in TimerRec BY DEF FreeTimer, TimerRec, TimerPc
<1>2. \A t \in Timers : timer[t] = FreeTimer BY DEF Init
<1>3. \A t \in Timers : timer[t].pc = "free" /\ timer[t].id = None /\ ~timer[t].live
  BY <1>2 DEF FreeTimer
<1>4. TypeOK BY <1>1, <1>3, NoneAssumption DEF Init, TypeOK
<1>5. TimersWellFormed BY <1>3 DEF TimersWellFormed
<1>6. OneLiveTimer BY <1>3 DEF OneLiveTimer
<1>7. RegisteredUnderOwnKey /\ NoSilentRegistration
  BY DEF Init, RegisteredUnderOwnKey, NoSilentRegistration
<1> QED BY <1>4, <1>5, <1>6, <1>7 DEF IInv

(* RegisterWithCollector: the replaced event loses its live timer, the new one *)
(* gets the only one it has; every other event keeps its chain.              *)
LEMMA RegisterIInv ==
    ASSUME IInv, NEW k \in Keys, NEW s \in Specs, RegisterWithCollector(k, s)
    PROVE  IInv'
<1> USE DEF IInv
<1> DEFINE old == events[k]
           base == IF old = None THEN timer ELSE StopAndCancel(timer, old)
<1>1. PICK i \in Ids, t \in Timers :
        /\ Unreachable(i)
        /\ base[t].pc = "free"
        /\ timer' = [base EXCEPT ![t] = ArmedTimer(i)]
        /\ closed' = [j \in Ids |-> IF j = i THEN FALSE ELSE closed[j] \/ j = old]
        /\ mcancel' = [j \in Ids |-> IF j = i THEN FALSE ELSE mcancel[j] \/ j = old]
        /\ key' = [key EXCEPT ![i] = k]
        /\ cached' = [cached EXCEPT ![i] = s]
        /\ buf' = [buf EXCEPT ![i] = None]
        /\ loop' = [loop EXCEPT ![i] = "recv"]
        /\ held' = [held EXCEPT ![i] = None]
        /\ events' = [events EXCEPT ![k] = i]
  BY DEF RegisterWithCollector
<1>2. old \in Ids \cup {None} /\ old # i
  BY <1>1, NoneAssumption DEF TypeOK, Unreachable
<1>3. /\ base \in [Timers -> TimerRec]
      /\ \A u \in Timers : \/ base[u] = timer[u] /\ (old # None => timer[u].id # old)
                           \/ base[u] = FreeTimer /\ timer[u].id = old
                           \/ /\ base[u].id = old /\ base[u].pc \in {"started", "select"}
                              /\ base[u].pc = timer[u].pc /\ timer[u].id = old
                              /\ base[u].spec = timer[u].spec /\ ~base[u].live
  <2>1. CASE old = None BY <2>1 DEF TypeOK
  <2>2. CASE old # None
    <3>1. old \in Ids BY <2>2, <1>2
    <3> QED BY <2>2, <3>1, StopAndCancelEffect
  <2> QED BY <2>1, <2>2
<1> HIDE DEF base
<1>4. ArmedTimer(i) \in TimerRec BY DEF ArmedTimer, TimerRec, TimerPc
<1>5. \A u \in Timers : timer'[u] = IF u = t THEN ArmedTimer(i) ELSE base[u]
  BY <1>1, <1>3
<1>6. TypeOK'
  <2>1. timer' \in [Timers -> TimerRec] BY <1>1, <1>3, <1>4
  <2>2. \A u \in Timers : /\ timer'[u].pc # "free" => timer'[u].id # None
                          /\ timer'[u].pc = "select" => timer'[u].spec # None
    BY <1>3, <1>5, NoneAssumption DEF TypeOK, ArmedTimer, FreeTimer, TimersWellFormed
  <2>3. started' \in BOOLEAN /\ panicked' \in BOOLEAN BY DEF TypeOK, RegisterWithCollector
  <2>4. closed' \in [Ids -> BOOLEAN] /\ mcancel' \in [Ids -> BOOLEAN]
    BY <1>1 DEF TypeOK
  <2>5. /\ events' \in [Keys -> Ids \cup {None}] /\ key' \in [Ids -> Keys]
        /\ cached' \in [Ids -> Specs \cup {None}] /\ buf' \in [Ids -> Specs \cup {None}]
        /\ loop' \in [Ids -> {"none", "recv", "collect", "rearm"}]
        /\ held' \in [Ids -> Specs \cup {None}]
    BY <1>1 DEF TypeOK
  <2>6. \A j \in Ids : loop'[j] \in {"collect", "rearm"} => held'[j] # None
    BY <1>1 DEF TypeOK
  <2>7. \A l \in Keys : events'[l] # None => cached'[events'[l]] # None
    BY <1>1, NoneAssumption DEF TypeOK
  <2> QED BY <2>1, <2>2, <2>3, <2>4, <2>5, <2>6, <2>7 DEF TypeOK
<1>7. TimersWellFormed'
  <2> SUFFICES ASSUME NEW u \in Timers
               PROVE /\ timer'[u].pc = "free" <=> timer'[u].id = None
                     /\ timer'[u].pc = "free" => ~timer'[u].live
                     /\ timer'[u].pc = "armed" => timer'[u].live
                     /\ timer'[u].pc # "free" => cached'[timer'[u].id] # None
    BY DEF TimersWellFormed
  <2>1. CASE u = t BY <2>1, <1>1, <1>5, NoneAssumption DEF ArmedTimer, TypeOK
  <2>2. CASE u # t
    <3>1. timer'[u] = base[u] BY <2>2, <1>5
    <3>2. CASE base[u] = timer[u]
      <4>1. timer[u].id # i BY <1>1 DEF Unreachable
      <4>2. timer[u].id \in Ids => cached'[timer[u].id] = cached[timer[u].id]
        BY <4>1, <1>1 DEF TypeOK
      <4>3. timer[u].id \in Ids \cup {None} BY DEF TypeOK, TimerRec
      <4> QED BY <3>1, <3>2, <4>2, <4>3 DEF TimersWellFormed
    <3>3. CASE base[u] = FreeTimer BY <3>1, <3>3 DEF FreeTimer
    <3>4. CASE /\ base[u].id = old /\ base[u].pc \in {"started", "select"}
               /\ base[u].pc = timer[u].pc /\ ~base[u].live /\ timer[u].id = old
      <4>1. old \in Ids /\ cached[old] # None
        BY <1>2, <3>4 DEF TimersWellFormed
      <4>2. cached'[old] # None BY <4>1, <1>1, <1>2 DEF TypeOK
      <4> QED BY <3>1, <3>4, <4>1, <4>2, NoneAssumption
    <3> QED BY <1>3, <3>2, <3>3, <3>4
  <2> QED BY <2>1, <2>2
<1>8. RegisteredUnderOwnKey'
  BY <1>1, NoneAssumption DEF RegisteredUnderOwnKey, TypeOK, Unreachable
<1>9. OneLiveTimer'
  <2>1. \A u \in Timers : u # t /\ timer'[u].live =>
            timer'[u] = timer[u] /\ timer[u].id # None /\ timer[u].id # old /\ timer[u].id # i
    BY <1>1, <1>3, <1>5 DEF FreeTimer, Unreachable, TimersWellFormed
  <2>2. timer'[t].id = i BY <1>5 DEF ArmedTimer
  <2>3. \A u, v \in Timers : timer'[u].live /\ timer'[v].live /\ timer'[u].id = timer'[v].id => u = v
    BY <2>1, <2>2 DEF OneLiveTimer
  <2>4. \A u \in Timers : timer'[u].live => \E l \in Keys : events'[l] = timer'[u].id
    <3> TAKE u \in Timers
    <3>1. CASE u = t BY <3>1, <2>2, <1>1 DEF TypeOK
    <3>2. CASE u # t
      <4> HAVE timer'[u].live
      <4>1. PICK l \in Keys : events[l] = timer[u].id BY <2>1, <3>2 DEF OneLiveTimer
      <4>2. l # k /\ events'[l] = timer'[u].id BY <4>1, <2>1, <3>2, <1>1 DEF TypeOK
      <4> QED BY <4>2
    <3> QED BY <3>1, <3>2
  <2> QED BY <2>3, <2>4 DEF OneLiveTimer
<1>10. NoSilentRegistration'
  <2> SUFFICES ASSUME NEW l \in Keys, events'[l] # None
               PROVE /\ ~closed'[events'[l]] /\ ~mcancel'[events'[l]]
                     /\ loop'[events'[l]] # "none"
                     /\ ChainAlive(events[l])'
    BY DEF NoSilentRegistration
  <2>1. CASE l = k
    <3>1. events'[l] = i BY <2>1, <1>1 DEF TypeOK
    <3>2. timer'[t].id = i /\ timer'[t].live BY <1>5 DEF ArmedTimer
    <3> QED BY <3>1, <3>2, <1>1 DEF TypeOK, ChainAlive
  <2>2. CASE l # k
    <3> DEFINE m == events[l]
    <3>1. m = events'[l] /\ m \in Ids /\ m # i /\ m # old
      BY <2>2, <1>1, NoneAssumption DEF TypeOK, Unreachable, RegisteredUnderOwnKey
    <3>2. /\ ~closed[m] /\ ~mcancel[m] /\ loop[m] # "none" /\ ChainAlive(m)
      BY <3>1 DEF NoSilentRegistration
    <3>3. closed'[m] = closed[m] /\ mcancel'[m] = mcancel[m] /\ loop'[m] = loop[m] /\ buf'[m] = buf[m]
      BY <3>1, <1>1 DEF TypeOK
    <3>4. \A u \in Timers : timer[u].id = m /\ timer[u].live => timer'[u] = timer[u]
      BY <3>1, <1>1, <1>3, <1>5, NoneAssumption DEF TimersWellFormed
    <3>5. ChainAlive(events[l])'
      BY <3>1, <3>2, <3>3, <3>4 DEF ChainAlive
    <3> QED BY <3>1, <3>2, <3>3, <3>5
  <2> QED BY <2>1, <2>2
<1> QED BY <1>6, <1>7, <1>8, <1>9, <1>10

(* Start, UpdateCachedSpec, Stop and Restart.  Stop and Restart leave no     *)
(* event registered and no timer live.                                       *)
LEMMA StartIInv == IInv /\ Start => IInv'
BY DEF IInv, Start, evars, TypeOK, TimersWellFormed, RegisteredUnderOwnKey,
       OneLiveTimer, NoSilentRegistration, ChainAlive

(* UpdateCachedSpec never takes a spec away.                                 *)
LEMMA UpdateCachedSpecIInv ==
    ASSUME IInv, NEW k \in Keys, NEW s \in Specs, UpdateCachedSpec(k, s)
    PROVE  IInv'
<1> USE DEF IInv, UpdateCachedSpec
<1>1. events[k] \in Ids BY DEF TypeOK
<1>2. TypeOK'
  <2>1. \A l \in Keys : events[l] # None => cached'[events[l]] # None
    BY <1>1, NoneAssumption DEF TypeOK
  <2> QED BY <1>1, <2>1 DEF TypeOK
<1>3. TimersWellFormed'
  <2>1. \A t \in Timers : timer[t].id \in Ids \cup {None} BY DEF TypeOK, TimerRec
  <2>2. \A j \in Ids : cached[j] # None => cached'[j] # None
    BY <1>1, NoneAssumption DEF TypeOK
  <2> QED BY <2>1, <2>2 DEF TimersWellFormed
<1>4. RegisteredUnderOwnKey' BY DEF RegisteredUnderOwnKey
<1>5. OneLiveTimer' BY DEF OneLiveTimer
<1>6. NoSilentRegistration' BY DEF NoSilentRegistration, ChainAlive
<1> QED BY <1>2, <1>3, <1>4, <1>5, <1>6

(* Stop: no event stays registered, and every timer function that already runs *)
(* sees its context cancelled.                                               *)
LEMMA StopIInv == IInv /\ Stop => IInv'
<1> SUFFICES ASSUME IInv, Stop PROVE IInv' OBVIOUS
<1> USE DEF IInv, Stop
<1>1. FreeTimer \in TimerRec BY DEF FreeTimer, TimerRec, TimerPc
<1>2. \A t \in Timers :
        \/ timer'[t] = FreeTimer
        \/ /\ timer'[t].pc = timer[t].pc /\ timer[t].pc \in {"started", "select"}
           /\ timer'[t].id = timer[t].id /\ timer'[t].spec = timer[t].spec
           /\ ~timer'[t].live
  BY DEF TypeOK, TimerRec, TimerPc
<1>3. TypeOK'
  <2>1. timer' \in [Timers -> TimerRec]
    BY <1>1 DEF TypeOK, TimerRec
  <2>2. \A t \in Timers : /\ timer'[t].pc # "free" => timer'[t].id # None
                          /\ timer'[t].pc = "select" => timer'[t].spec # None
    BY <1>2 DEF TypeOK, FreeTimer
  <2>3. closed' \in [Ids -> BOOLEAN] /\ mcancel' \in [Ids -> BOOLEAN]
    BY DEF TypeOK
  <2> QED BY <2>1, <2>2, <2>3 DEF TypeOK
<1>4. TimersWellFormed' BY <1>2 DEF TimersWellFormed, FreeTimer
<1>5. RegisteredUnderOwnKey' BY DEF RegisteredUnderOwnKey
<1>6. OneLiveTimer' BY <1>2 DEF OneLiveTimer, FreeTimer
<1>7. NoSilentRegistration' BY DEF NoSilentRegistration
<1> QED BY <1>3, <1>4, <1>5, <1>6, <1>7

(* A restarted process starts from nothing.                                  *)
LEMMA RestartIInv == IInv /\ Restart => IInv'
<1> SUFFICES ASSUME IInv, Restart PROVE IInv' OBVIOUS
<1> USE DEF IInv, Restart
<1>1. FreeTimer \in TimerRec BY DEF FreeTimer, TimerRec, TimerPc
<1>2. \A t \in Timers : timer'[t] = FreeTimer OBVIOUS
<1>3. \A t \in Timers : timer'[t].pc = "free" /\ timer'[t].id = None /\ ~timer'[t].live
  BY <1>2 DEF FreeTimer
<1>4. TypeOK' BY <1>1, <1>3 DEF TypeOK
<1>5. TimersWellFormed' BY <1>3 DEF TimersWellFormed
<1>6. OneLiveTimer' BY <1>3 DEF OneLiveTimer
<1>7. RegisteredUnderOwnKey' /\ NoSilentRegistration'
  BY DEF RegisteredUnderOwnKey, NoSilentRegistration
<1> QED BY <1>4, <1>5, <1>6, <1>7

(* Unregister leaves the removed event without a live timer; the events of   *)
(* other keys are other objects (RegisteredUnderOwnKey) and keep theirs.     *)
LEMMA UnregisterIInv ==
    ASSUME IInv, NEW k \in Keys, Unregister(k)
    PROVE  IInv'
<1> USE DEF IInv, Unregister
<1> DEFINE old == events[k]
<1>1. old \in Ids BY DEF TypeOK
<1>2. /\ timer' \in [Timers -> TimerRec]
      /\ \A t \in Timers : timer[t].id # old => timer'[t] = timer[t]
      /\ \A t \in Timers : timer[t].id = old =>
           \/ timer'[t] = FreeTimer
           \/ /\ timer'[t].id = old /\ timer'[t].pc = timer[t].pc
              /\ timer'[t].pc \in {"started", "select"}
              /\ timer'[t].spec = timer[t].spec /\ ~timer'[t].live
  BY <1>1, StopAndCancelEffect
<1>3. \A t \in Timers : timer'[t].live => timer'[t] = timer[t] /\ timer[t].id # old
  BY <1>2 DEF FreeTimer
<1>4. TypeOK'
  <2>1. \A t \in Timers : /\ timer'[t].pc # "free" => timer'[t].id # None
                          /\ timer'[t].pc = "select" => timer'[t].spec # None
    BY <1>1, <1>2, NoneAssumption DEF TypeOK, FreeTimer
  <2>2. closed' \in [Ids -> BOOLEAN] /\ events' \in [Keys -> Ids \cup {None}]
    BY <1>1 DEF TypeOK
  <2> QED BY <1>2, <2>1, <2>2 DEF TypeOK
<1>5. TimersWellFormed'
  BY <1>1, <1>2, NoneAssumption DEF TimersWellFormed, FreeTimer
<1>6. RegisteredUnderOwnKey' BY DEF RegisteredUnderOwnKey, TypeOK
<1>7. \A l \in Keys : events'[l] # None =>
        l # k /\ events'[l] = events[l] /\ events[l] \in Ids /\ events[l] # old
  BY <1>1 DEF TypeOK, RegisteredUnderOwnKey
<1>8. OneLiveTimer'
  <2>1. \A t, u \in Timers : timer'[t].live /\ timer'[u].live /\ timer'[t].id = timer'[u].id => t = u
    BY <1>3 DEF OneLiveTimer
  <2>2. \A t \in Timers : timer'[t].live => \E l \in Keys : events'[l] = timer'[t].id
    <3> SUFFICES ASSUME NEW t \in Timers, timer'[t].live
                 PROVE \E l \in Keys : events'[l] = timer'[t].id OBVIOUS
    <3>1. PICK l \in Keys : events[l] = timer[t].id BY <1>3 DEF OneLiveTimer
    <3>2. l # k /\ events'[l] = timer'[t].id BY <3>1, <1>3 DEF TypeOK
    <3> QED BY <3>2
  <2> QED BY <2>1, <2>2 DEF OneLiveTimer
<1>9. NoSilentRegistration'
  <2> SUFFICES ASSUME NEW l \in Keys, events'[l] # None
               PROVE /\ ~closed'[events'[l]] /\ ~mcancel'[events'[l]]
                     /\ loop'[events'[l]] # "none"
                     /\ ChainAlive(events[l])'
    BY DEF NoSilentRegistration
  <2> DEFINE m == events[l]
  <2>1. m = events'[l] /\ m \in Ids /\ m # old BY <1>7
  <2>2. /\ ~closed[m] /\ ~mcancel[m] /\ loop[m] # "none" /\ ChainAlive(m)
    BY <2>1, NoneAssumption DEF NoSilentRegistration
  <2>3. closed'[m] = closed[m] BY <2>1 DEF TypeOK
  <2>4. ChainAlive(events[l])' BY <2>1, <2>2, <1>2 DEF ChainAlive
  <2> QED BY <2>1, <2>2, <2>3, <2>4
<1> QED BY <1>4, <1>5, <1>6, <1>8, <1>9

(* The timer's function.  Only its last step can take a live timer away, and *)
(* then the trigger is buffered.                                             *)
LEMMA TimerExpiresIInv ==
    ASSUME IInv, NEW t \in Timers, TimerExpires(t) PROVE IInv'
<1> USE DEF IInv, TimerExpires, evars
<1>1. /\ timer' \in [Timers -> TimerRec]
      /\ \A u \in Timers : u # t => timer'[u] = timer[u]
      /\ timer'[t].pc = "started" /\ timer'[t].id = timer[t].id
      /\ timer'[t].live = timer[t].live /\ timer'[t].spec = timer[t].spec
  BY DEF TypeOK, TimerRec, TimerPc
<1>2. timer[t].pc # "free" OBVIOUS
<1>3. TypeOK' BY <1>1, <1>2 DEF TypeOK
<1>4. TimersWellFormed' BY <1>1, <1>2 DEF TimersWellFormed
<1>5. RegisteredUnderOwnKey' BY DEF RegisteredUnderOwnKey
<1>6. \A u \in Timers : timer'[u].id = timer[u].id /\ timer'[u].live = timer[u].live BY <1>1
<1>7. OneLiveTimer' BY <1>6 DEF OneLiveTimer
<1>8. NoSilentRegistration' BY <1>6 DEF NoSilentRegistration, ChainAlive
<1> QED BY <1>3, <1>4, <1>5, <1>7, <1>8

(* getCachedSpec() of a timer function never returns nil.                    *)
LEMMA TimerReadsSpecIInv ==
    ASSUME IInv, NEW t \in Timers, TimerReadsSpec(t) PROVE IInv'
<1> USE DEF IInv, TimerReadsSpec, evars
<1>0. timer[t] \in TimerRec /\ timer[t].pc # "free" /\ timer[t].id \in Ids
  BY DEF TypeOK, TimerRec, TimersWellFormed
<1>a. cached[timer[t].id] \in Specs
  BY <1>0 DEF TypeOK, TimersWellFormed
<1>1. /\ timer' \in [Timers -> TimerRec]
      /\ \A u \in Timers : u # t => timer'[u] = timer[u]
      /\ timer'[t].pc = "select" /\ timer'[t].id = timer[t].id
      /\ timer'[t].live = timer[t].live /\ timer'[t].spec = cached[timer[t].id]
  BY <1>0, <1>a DEF TypeOK, TimerRec, TimerPc
<1>3. TypeOK' BY <1>0, <1>1, <1>a, NoneAssumption DEF TypeOK
<1>4. TimersWellFormed' BY <1>0, <1>1 DEF TimersWellFormed
<1>5. RegisteredUnderOwnKey' BY DEF RegisteredUnderOwnKey
<1>6. \A u \in Timers : timer'[u].id = timer[u].id /\ timer'[u].live = timer[u].live BY <1>1
<1>7. OneLiveTimer'
  <2>1. events' = events OBVIOUS
  <2> HIDE DEF TimerReadsSpec
  <2> QED BY <1>6, <2>1 DEF OneLiveTimer
<1>8. NoSilentRegistration' BY <1>6 DEF NoSilentRegistration, ChainAlive
<1> QED BY <1>3, <1>4, <1>5, <1>7, <1>8

(* The select of a timer function: a live timer is only given up for a trigger *)
(* in the buffer, its own or an earlier one.                                 *)
LEMMA TimerSelectsIInv ==
    ASSUME IInv, NEW t \in Timers, TimerSelects(t) PROVE IInv'
<1> USE DEF IInv, TimerSelects
<1> DEFINE i == timer[t].id
<1>1. i \in Ids /\ timer[t].spec \in Specs
  BY DEF TypeOK, TimerRec, TimersWellFormed
<1>2. /\ timer' \in [Timers -> TimerRec]
      /\ \A u \in Timers : u # t => timer'[u] = timer[u]
      /\ timer'[t].pc = "free" /\ timer'[t].id = None /\ ~timer'[t].live
  <2>1. FreeTimer \in TimerRec BY DEF FreeTimer, TimerRec, TimerPc
  <2> QED BY <2>1 DEF TypeOK, FreeTimer
<1>3. /\ buf' \in [Ids -> Specs \cup {None}] /\ panicked' \in BOOLEAN
      /\ \A j \in Ids : buf[j] # None => buf'[j] # None
      /\ timer[t].live /\ ~closed[i] => buf'[i] # None
  <2>1. CASE TimerSeesDone(t) BY <2>1 DEF TimerSeesDone, TypeOK
  <2>2. CASE TimerSends(t) BY <2>2, <1>1, NoneAssumption DEF TimerSends, TypeOK
  <2>3. CASE TimerSkips(t) BY <2>3 DEF TimerSkips, TypeOK
  <2> QED BY <2>1, <2>2, <2>3
<1>4. TypeOK'
  <2>1. \A u \in Timers : /\ timer'[u].pc # "free" => timer'[u].id # None
                          /\ timer'[u].pc = "select" => timer'[u].spec # None
    BY <1>2 DEF TypeOK
  <2> QED BY <1>2, <1>3, <2>1 DEF TypeOK
<1>5. TimersWellFormed' BY <1>2 DEF TimersWellFormed
<1>6. RegisteredUnderOwnKey' BY DEF RegisteredUnderOwnKey
<1>7. OneLiveTimer' BY <1>2 DEF OneLiveTimer
<1>8. NoSilentRegistration'
  <2> SUFFICES ASSUME NEW k \in Keys, events[k] # None
               PROVE  ChainAlive(events[k])'
    BY DEF NoSilentRegistration
  <2>1. events[k] \in Ids /\ ~closed[events[k]] /\ ChainAlive(events[k])
    BY DEF TypeOK, NoSilentRegistration
  <2> QED BY <2>1, <1>2, <1>3 DEF ChainAlive
<1> QED BY <1>4, <1>5, <1>6, <1>7, <1>8

(* The loop.  Taking the trigger moves the chain from the buffer into the    *)
(* loop, re-arming moves it from the loop into the timer.                    *)
LEMMA LoopReceivesIInv ==
    ASSUME IInv, NEW i \in Ids, LoopReceives(i) PROVE IInv'
<1> USE DEF IInv, LoopReceives
<1>1. TypeOK'
  <2>1. buf[i] \in Specs BY DEF TypeOK
  <2>2. \A j \in Ids : loop'[j] \in {"collect", "rearm"} => held'[j] # None
    BY <2>1, NoneAssumption DEF TypeOK
  <2> QED BY <2>1, <2>2 DEF TypeOK
<1>2. TimersWellFormed' BY DEF TimersWellFormed
<1>3. RegisteredUnderOwnKey' BY DEF RegisteredUnderOwnKey
<1>4. OneLiveTimer' BY DEF OneLiveTimer
<1>5. NoSilentRegistration' BY DEF NoSilentRegistration, ChainAlive, TypeOK
<1> QED BY <1>1, <1>2, <1>3, <1>4, <1>5

(* monitoringLoop returns: only that of an event that is not registered.     *)
LEMMA LoopExitsIInv ==
    ASSUME IInv, NEW i \in Ids, LoopExits(i) PROVE IInv'
<1> USE DEF IInv, LoopExits
<1>1. TypeOK' BY DEF TypeOK
<1>2. TimersWellFormed' BY DEF TimersWellFormed
<1>3. RegisteredUnderOwnKey' BY DEF RegisteredUnderOwnKey
<1>4. OneLiveTimer' BY DEF OneLiveTimer
<1>5. NoSilentRegistration' BY DEF NoSilentRegistration, ChainAlive, TypeOK
<1> QED BY <1>1, <1>2, <1>3, <1>4, <1>5

(* CollectAndCompute, with its result or its error.                          *)
LEMMA LoopCollectsIInv ==
    ASSUME IInv, NEW i \in Ids, LoopCollects(i) PROVE IInv'
<1> USE DEF IInv, LoopCollects
<1>1. TypeOK' BY DEF TypeOK
<1>2. TimersWellFormed' BY DEF TimersWellFormed
<1>3. RegisteredUnderOwnKey' BY DEF RegisteredUnderOwnKey
<1>4. OneLiveTimer' BY DEF OneLiveTimer
<1>5. NoSilentRegistration' BY DEF NoSilentRegistration, ChainAlive, TypeOK
<1> QED BY <1>1, <1>2, <1>3, <1>4, <1>5

(* UpdateTriggerTime, called by the loop of event i, re-arms the event that its *)
(* key has now.                                                              *)
LEMMA LoopRearmsIInv ==
    ASSUME IInv, NEW i \in Ids, LoopRearms(i) PROVE IInv'
<1> USE DEF IInv, LoopRearms
<1>1. key[i] \in Keys BY DEF TypeOK
<1>2. CASE events[key[i]] = None
  <2>1. timer' = timer BY <1>2 DEF UpdateTriggerTime
  <2>2. \A k \in Keys : events[k] # i BY <1>2, NoneAssumption DEF RegisteredUnderOwnKey
  <2>3. TypeOK' BY <2>1 DEF TypeOK
  <2>4. TimersWellFormed' BY <2>1 DEF TimersWellFormed
  <2>5. RegisteredUnderOwnKey' BY DEF RegisteredUnderOwnKey
  <2>6. OneLiveTimer' BY <2>1 DEF OneLiveTimer
  <2>7. NoSilentRegistration' BY <2>1, <2>2 DEF NoSilentRegistration, ChainAlive, TypeOK
  <2> QED BY <2>3, <2>4, <2>5, <2>6, <2>7
<1>3. CASE events[key[i]] # None
  <2> DEFINE e == events[key[i]]
             tm == StopAndCancel(timer, e)
  <2>1. e \in Ids BY <1>1, <1>3 DEF TypeOK
  <2>2. PICK t \in Timers : tm[t].pc = "free" /\ timer' = [tm EXCEPT ![t] = ArmedTimer(e)]
    BY <1>3 DEF UpdateTriggerTime
  <2>3. /\ tm \in [Timers -> TimerRec]
        /\ \A u \in Timers : timer[u].id # e => tm[u] = timer[u]
        /\ \A u \in Timers : timer[u].id = e =>
             \/ tm[u] = FreeTimer
             \/ /\ tm[u].id = e /\ tm[u].pc = timer[u].pc
                /\ tm[u].pc \in {"started", "select"}
                /\ tm[u].spec = timer[u].spec /\ ~tm[u].live
    BY <2>1, StopAndCancelEffect
  <2> HIDE DEF tm
  <2>4. ArmedTimer(e) \in TimerRec BY <2>1 DEF ArmedTimer, TimerRec, TimerPc
  <2>5. timer' \in [Timers -> TimerRec] BY <2>2, <2>3, <2>4
  <2>6. /\ timer'[t].pc = "armed" /\ timer'[t].id = e /\ timer'[t].live
        /\ \A u \in Timers : u # t => timer'[u] = tm[u]
    BY <2>2, <2>3 DEF ArmedTimer
  <2>7. \A u \in Timers : u # t /\ timer'[u].live => timer'[u] = timer[u] /\ timer[u].id # e
    BY <2>3, <2>6 DEF FreeTimer
  <2>8. e # None /\ cached[e] # None BY <1>1, <1>3 DEF TypeOK
  <2>9. TypeOK'
    <3>1. \A u \in Timers : /\ timer'[u].pc # "free" => timer'[u].id # None
                            /\ timer'[u].pc = "select" => timer'[u].spec # None
      BY <2>3, <2>6, <2>8 DEF TypeOK, FreeTimer
    <3> QED BY <2>5, <3>1 DEF TypeOK
  <2>10. TimersWellFormed'
    BY <2>3, <2>6, <2>8 DEF TimersWellFormed, FreeTimer
  <2>11. RegisteredUnderOwnKey' BY DEF RegisteredUnderOwnKey
  <2>12. OneLiveTimer'
    <3>1. \A u, v \in Timers : timer'[u].live /\ timer'[v].live /\ timer'[u].id = timer'[v].id => u = v
      BY <2>6, <2>7 DEF OneLiveTimer
    <3>2. \A u \in Timers : timer'[u].live => \E l \in Keys : events'[l] = timer'[u].id
      BY <1>1, <2>6, <2>7 DEF OneLiveTimer
    <3> QED BY <3>1, <3>2 DEF OneLiveTimer
  <2>13. NoSilentRegistration'
    <3> SUFFICES ASSUME NEW k \in Keys, events[k] # None
                 PROVE  /\ loop'[events[k]] # "none"
                        /\ ChainAlive(events[k])'
      BY DEF NoSilentRegistration
    <3>1. events[k] \in Ids /\ loop[events[k]] # "none" /\ ChainAlive(events[k])
      BY DEF TypeOK, NoSilentRegistration
    <3>2. CASE k = key[i] BY <3>1, <3>2, <2>6 DEF ChainAlive, TypeOK
    <3>3. CASE k # key[i]
      <4>1. events[k] # e /\ events[k] # i BY <3>3, <1>1, <1>3 DEF RegisteredUnderOwnKey
      <4>2. \A u \in Timers : timer[u].id = events[k] => timer'[u] = timer[u]
        BY <4>1, <3>1, <2>2, <2>3, <2>6, NoneAssumption DEF TimersWellFormed
      <4> QED BY <3>1, <4>1, <4>2 DEF ChainAlive, TypeOK
    <3> QED BY <3>2, <3>3
  <2> QED BY <2>9, <2>10, <2>11, <2>12, <2>13
<1> QED BY <1>2, <1>3

(* Every step of the monitor preserves the inductive invariant.              *)
LEMMA NextIInv == IInv /\ [Next]_vars => IInv'
<1> SUFFICES ASSUME IInv, [Next]_vars PROVE IInv' OBVIOUS
<1>1. CASE Start BY <1>1, StartIInv
<1>2. CASE Stop BY <1>2, StopIInv
<1>3. CASE Restart BY <1>3, RestartIInv
<1>4. CASE \E k \in Keys, s \in Specs :
             RegisterWithCollector(k, s) \/ UpdateCachedSpec(k, s)
  BY <1>4, RegisterIInv, UpdateCachedSpecIInv
<1>5. CASE \E k \in Keys : Unregister(k) BY <1>5, UnregisterIInv
<1>6. CASE \E t \in Timers : TimerStep(t)
  BY <1>6, TimerExpiresIInv, TimerReadsSpecIInv, TimerSelectsIInv DEF TimerStep
<1>7. CASE \E i \in Ids : LoopStep(i)
  BY <1>7, LoopReceivesIInv, LoopExitsIInv, LoopCollectsIInv, LoopRearmsIInv DEF LoopStep
<1>8. CASE UNCHANGED vars
  BY <1>8 DEF vars, IInv, TypeOK, TimersWellFormed, RegisteredUnderOwnKey, OneLiveTimer,
              NoSilentRegistration, ChainAlive
<1> QED BY <1>1, <1>2, <1>3, <1>4, <1>5, <1>6, <1>7, <1>8 DEF Next

(* Every reachable state of the service monitor satisfies the inductive      *)
(* invariant, with any number of autoscalers, events and timers.             *)
THEOREM Invariance == Spec => []IInv
<1>1. Init => IInv BY InitIInv
<1>2. IInv /\ [Next]_vars => IInv' BY NextIInv
<1> QED BY <1>1, <1>2, PTL DEF Spec

(* The types hold, and no trigger ever carries a nil spec.                   *)
THEOREM TypeCorrect == Spec => []TypeOK
<1>1. IInv => TypeOK BY DEF IInv
<1> QED BY <1>1, Invariance, PTL

(* A registered autoscaler always has a running loop and something that will *)
(* trigger it again: RegisterWithCollector, UpdateTriggerTime, Unregister,   *)
(* the timer functions and monitoringLoop never lose it between them.        *)
THEOREM RegistrationsStayAlive == Spec => []NoSilentRegistration
<1>1. IInv => NoSilentRegistration BY DEF IInv
<1> QED BY <1>1, Invariance, PTL

(* At most one timer can trigger an event, and none an event that was        *)
(* removed or replaced (UpdateTriggerTime cancels before it re-arms).        *)
THEOREM TimersNeverDouble == Spec => []OneLiveTimer
<1>1. IInv => OneLiveTimer BY DEF IInv
<1> QED BY <1>1, Invariance, PTL

(* The channel of an event that is not registered any more, and whose loop   *)
(* still runs, is closed.                                                    *)
AbandonedClosed == \A i \in Ids : Abandoned(i) => closed[i]

(* An event is only left by a step that closes its channel: Stop, Unregister *)
(* and the replacement in RegisterWithCollector.                             *)
LEMMA NextAbandonedClosed ==
    IInv /\ AbandonedClosed /\ [Next]_vars => AbandonedClosed'
<1> SUFFICES ASSUME IInv, AbandonedClosed, [Next]_vars, NEW j \in Ids, Abandoned(j)'
             PROVE  closed'[j]
  BY DEF AbandonedClosed
<1> USE DEF AbandonedClosed, Abandoned
<1>0. TypeOK BY DEF IInv
<1>1. CASE UNCHANGED <<events, closed>> /\ (loop'[j] # "none" => loop[j] # "none")
  BY <1>1
<1>2. CASE Start \/ UNCHANGED vars BY <1>1, <1>2 DEF Start, evars, vars
<1>3. CASE Stop BY <1>0, <1>3 DEF Stop, TypeOK
<1>4. CASE Restart BY <1>4 DEF Restart
<1>5. ASSUME NEW k \in Keys, NEW s \in Specs, RegisterWithCollector(k, s)
      PROVE  closed'[j]
  <2>1. PICK i \in Ids :
          /\ closed' = [n \in Ids |-> IF n = i THEN FALSE ELSE closed[n] \/ n = events[k]]
          /\ loop' = [loop EXCEPT ![i] = "recv"]
          /\ events' = [events EXCEPT ![k] = i]
    BY <1>5 DEF RegisterWithCollector
  <2>2. j # i BY <2>1, <1>0 DEF TypeOK
  <2>3. CASE j = events[k] BY <2>1, <2>2, <2>3
  <2>4. CASE j # events[k]
    <3>1. \A l \in Keys : events[l] # j BY <2>1, <2>4, <1>0 DEF TypeOK
    <3>2. loop[j] # "none" BY <2>1, <2>2, <1>0 DEF TypeOK
    <3> QED BY <2>1, <2>2, <3>1, <3>2
  <2> QED BY <2>3, <2>4
<1>6. ASSUME NEW k \in Keys, NEW s \in Specs, UpdateCachedSpec(k, s)
      PROVE  closed'[j]
  BY <1>1, <1>6 DEF UpdateCachedSpec
<1>7. ASSUME NEW k \in Keys, Unregister(k) PROVE closed'[j]
  <2>1. events[k] \in Ids BY <1>0, <1>7 DEF TypeOK, Unregister
  <2>2. CASE j = events[k] BY <2>1, <2>2, <1>0, <1>7 DEF Unregister, TypeOK
  <2>3. CASE j # events[k]
    <3>1. \A l \in Keys : events[l] # j BY <2>3, <1>0, <1>7 DEF Unregister, TypeOK
    <3>2. closed'[j] = closed[j] /\ loop[j] # "none"
      BY <2>1, <2>3, <1>0, <1>7 DEF Unregister, TypeOK
    <3> QED BY <3>1, <3>2
  <2> QED BY <2>2, <2>3
<1>8. ASSUME NEW t \in Timers, TimerStep(t) PROVE closed'[j]
  BY <1>1, <1>8 DEF TimerStep, TimerExpires, TimerReadsSpec, TimerSelects, evars
<1>9. ASSUME NEW i \in Ids, LoopStep(i) PROVE closed'[j]
  <2>1. UNCHANGED <<events, closed>>
    BY <1>9 DEF LoopStep, LoopReceives, LoopExits, LoopCollects, LoopRearms
  <2>2. loop'[j] # "none" => loop[j] # "none"
    BY <1>0, <1>9 DEF LoopStep, LoopReceives, LoopExits, LoopCollects, LoopRearms, TypeOK
  <2> QED BY <1>1, <2>1, <2>2
<1> QED BY <1>2, <1>3, <1>4, <1>5, <1>6, <1>7, <1>8, <1>9 DEF Next

(* No step fills the empty buffer of an abandoned event: its channel is      *)
(* closed, and a send on it ends the process instead.                        *)
LEMMA NextBuffersNothing ==
    ASSUME IInv, AbandonedClosed, [Next]_vars, NEW j \in Ids, Abandoned(j), buf[j] = None
    PROVE  buf'[j] = None
<1>0. TypeOK /\ closed[j] BY DEF IInv, AbandonedClosed
<1>1. CASE UNCHANGED buf BY <1>1
<1>2. CASE Start \/ Stop \/ UNCHANGED vars BY <1>1, <1>2 DEF Start, Stop, evars, vars
<1>3. CASE Restart BY <1>3 DEF Restart
<1>4. ASSUME NEW k \in Keys, NEW s \in Specs,
             RegisterWithCollector(k, s) \/ UpdateCachedSpec(k, s)
      PROVE  buf'[j] = None
  BY <1>0, <1>4 DEF RegisterWithCollector, UpdateCachedSpec, TypeOK
<1>5. ASSUME NEW k \in Keys, Unregister(k) PROVE buf'[j] = None
  BY <1>5 DEF Unregister
<1>6. ASSUME NEW t \in Timers, TimerStep(t) PROVE buf'[j] = None
  <2>1. CASE TimerExpires(t) \/ TimerReadsSpec(t)
    BY <1>1, <2>1 DEF TimerExpires, TimerReadsSpec, evars
  <2>2. CASE TimerSelects(t)
    BY <1>0, <2>2 DEF TimerSelects, TimerSeesDone, TimerSends, TimerSkips, TypeOK
  <2> QED BY <1>6, <2>1, <2>2 DEF TimerStep
<1>7. ASSUME NEW i \in Ids, LoopStep(i) PROVE buf'[j] = None
  BY <1>0, <1>7 DEF LoopStep, LoopReceives, LoopExits, LoopCollects, LoopRearms, TypeOK
<1> QED BY <1>2, <1>3, <1>4, <1>5, <1>6, <1>7 DEF Next

(* Once an event was unregistered or replaced, its loop gets no further      *)
(* trigger, whichever timer functions are still running: Unregister closes   *)
(* the channel in the step that removes the event.                           *)
THEOREM AbandonedStaySilent == Spec => NoTriggerOnceAbandoned
<1>1. Init => AbandonedClosed BY DEF Init, AbandonedClosed, Abandoned
<1>2. IInv /\ AbandonedClosed /\ [Next]_vars => AbandonedClosed' BY NextAbandonedClosed
<1>3. IInv /\ AbandonedClosed /\ [Next]_vars =>
        [\A i \in Ids : Abandoned(i) /\ buf[i] = None => buf'[i] = None]_vars
  BY NextBuffersNothing
<1> QED BY <1>1, <1>2, <1>3, Invariance, PTL DEF Spec, NoTriggerOnceAbandoned

-----------------------------------------------------------------------------
(* The refinement of Sampling.  Timers, contexts and specs are hidden by it; *)
(* what it needs of them is in the invariant.                                *)

(* An event owes two calls at most, and less while its channel is empty.     *)
LEMMA OwedBound ==
    /\ Owed \in [Ids -> 0..2]
    /\ \A i \in Ids : buf[i] = None => Owed[i] < 2
BY DEF Owed

(* A step that leaves registrations, channels and loops alone is a stutter.  *)
LEMMA QuietStutters ==
    ASSUME UNCHANGED <<events, buf, loop>>
    PROVE  UNCHANGED <<events, Owed>>
BY DEF Owed

(* RegisterWithCollector takes an event that owes nothing.                   *)
LEMMA RegisterImplements ==
    ASSUME IInv, NEW k \in Keys, NEW s \in Specs, RegisterWithCollector(k, s)
    PROVE  Contract!Next
<1>0. TypeOK BY DEF IInv
<1>1. PICK i \in Ids :
        /\ Unreachable(i)
        /\ buf' = [buf EXCEPT ![i] = None]
        /\ loop' = [loop EXCEPT ![i] = "recv"]
        /\ events' = [events EXCEPT ![k] = i]
  BY DEF RegisterWithCollector
<1>2. Owed[i] = 0 BY <1>1 DEF Owed, Unreachable
<1>3. Owed' = Owed
  <2>1. \A j \in Ids : j # i => buf'[j] = buf[j] /\ loop'[j] = loop[j]
    BY <1>0, <1>1 DEF TypeOK
  <2>2. buf'[i] = None /\ loop'[i] = "recv" BY <1>0, <1>1 DEF TypeOK
  <2>3. loop[i] = "none" BY <1>1 DEF Unreachable
  <2> QED BY <2>1, <2>2, <2>3 DEF Owed
<1>4. Contract!Register(k, i)
  BY <1>1, <1>2, <1>3 DEF Contract!Register, Contract!Current, Unreachable
<1> QED BY <1>4 DEF Contract!Next

(* The select of a timer function makes an event owe a call only if it is    *)
(* registered: the channel of any other is closed, or nobody reads it.       *)
LEMMA TimerSelectsImplements ==
    ASSUME IInv, AbandonedClosed, NEW t \in Timers, TimerSelects(t)
    PROVE  [Contract!Next]_<<events, Owed>>
<1> DEFINE i == timer[t].id
<1>0. TypeOK /\ TimersWellFormed BY DEF IInv
<1>1. UNCHANGED <<events, loop>> BY DEF TimerSelects
<1>2. CASE UNCHANGED buf BY <1>1, <1>2, QuietStutters
<1>3. CASE ~closed[i] /\ buf[i] = None /\ buf' = [buf EXCEPT ![i] = timer[t].spec]
  <2>1. i \in Ids /\ timer[t].spec # None
    BY <1>0 DEF TimerSelects, TypeOK, TimersWellFormed, TimerRec
  <2>2. buf'[i] # None /\ \A j \in Ids : j # i => buf'[j] = buf[j]
    BY <1>0, <1>3, <2>1 DEF TypeOK
  <2>3. CASE loop[i] = "none"
    <3>1. Owed' = Owed BY <1>1, <2>2, <2>3 DEF Owed
    <3> QED BY <1>1, <3>1
  <2>4. CASE loop[i] # "none"
    <3>1. Contract!Current(i)
      BY <1>3, <2>1, <2>4 DEF AbandonedClosed, Abandoned, Contract!Current
    <3>2. Owed[i] < 2 /\ Owed[i] \in 0..2 BY <1>3, <2>1, OwedBound
    <3>3. Owed' = [Owed EXCEPT ![i] = @ + 1]
      BY <1>1, <1>3, <2>1, <2>2, <2>4 DEF Owed
    <3>4. Contract!Owe(i)
      BY <1>1, <3>1, <3>2, <3>3 DEF Contract!Owe, Contract!MaxOwed
    <3> QED BY <2>1, <3>4 DEF Contract!Next
  <2> QED BY <2>3, <2>4
<1> QED BY <1>2, <1>3 DEF TimerSelects, TimerSeesDone, TimerSends, TimerSkips

(* The loop makes the calls it owes; only that of an event which is not      *)
(* registered any more ends with a trigger left in its channel.              *)
LEMMA LoopImplements ==
    ASSUME IInv, NEW i \in Ids, LoopStep(i)
    PROVE  [Contract!Next]_<<events, Owed>>
<1>0. TypeOK /\ NoSilentRegistration BY DEF IInv
<1>1. CASE LoopReceives(i)
  <2>1. \A j \in Ids : j # i => buf'[j] = buf[j] /\ loop'[j] = loop[j]
    BY <1>0, <1>1 DEF LoopReceives, TypeOK
  <2>2. /\ buf[i] # None /\ loop[i] = "recv"
        /\ buf'[i] = None /\ loop'[i] = "collect"
    BY <1>0, <1>1 DEF LoopReceives, TypeOK
  <2>3. Owed' = Owed BY <2>1, <2>2 DEF Owed
  <2> QED BY <1>1, <2>3 DEF LoopReceives
<1>2. CASE LoopExits(i)
  <2>1. loop'[i] = "none" /\ \A j \in Ids : j # i => loop'[j] = loop[j]
    BY <1>0, <1>2 DEF LoopExits, TypeOK
  <2>2. UNCHANGED <<events, buf>> /\ loop[i] = "recv" BY <1>2 DEF LoopExits
  <2>3. Owed' = [Owed EXCEPT ![i] = 0] BY <2>1, <2>2 DEF Owed
  <2>4. ~Contract!Current(i)
    BY <1>0, <1>2, NoneAssumption DEF LoopExits, NoSilentRegistration, Contract!Current
  <2>5. Contract!GiveUp(i) BY <2>2, <2>3, <2>4 DEF Contract!GiveUp
  <2> QED BY <2>5 DEF Contract!Next
<1>3. CASE LoopCollects(i)
  <2>1. loop'[i] = "rearm" /\ \A j \in Ids : j # i => loop'[j] = loop[j]
    BY <1>0, <1>3 DEF LoopCollects, TypeOK
  <2>2. UNCHANGED <<events, buf>> /\ loop[i] = "collect" BY <1>3 DEF LoopCollects
  <2>3. Owed \in [Ids -> Nat] /\ Owed' \in [Ids -> Nat] BY DEF Owed
  <2>4. Owed[i] = Owed'[i] + 1 BY <2>1, <2>2 DEF Owed
  <2>5. \A j \in Ids : j # i => Owed'[j] = Owed[j] BY <2>1, <2>2 DEF Owed
  <2>6. Owed' = [Owed EXCEPT ![i] = @ - 1] /\ Owed[i] > 0 BY <2>3, <2>4, <2>5
  <2>7. Contract!Call(i) BY <2>2, <2>6 DEF Contract!Call
  <2> QED BY <2>7 DEF Contract!Next
<1>4. CASE LoopRearms(i)
  <2>1. loop'[i] = "recv" /\ \A j \in Ids : j # i => loop'[j] = loop[j]
    BY <1>0, <1>4 DEF LoopRearms, TypeOK
  <2>2. UNCHANGED <<events, buf>> /\ loop[i] = "rearm" BY <1>4 DEF LoopRearms
  <2>3. Owed' = Owed BY <2>1, <2>2 DEF Owed
  <2> QED BY <2>2, <2>3
<1> QED BY <1>1, <1>2, <1>3, <1>4 DEF LoopStep

(* Every step of the monitor is a step of the contract or a stutter.         *)
LEMMA NextImplements ==
    IInv /\ AbandonedClosed /\ [Next]_vars => [Contract!Next]_<<events, Owed>>
<1> SUFFICES ASSUME IInv, AbandonedClosed, [Next]_vars
             PROVE  [Contract!Next]_<<events, Owed>>
  OBVIOUS
<1>0. TypeOK BY DEF IInv
<1>1. CASE Start \/ UNCHANGED vars BY <1>1, QuietStutters DEF Start, evars, vars
<1>2. CASE Stop
  <2>1. Owed' = Owed BY <1>2 DEF Stop, Owed
  <2>2. Contract!Drop(Keys) BY <1>2, <2>1 DEF Stop, Contract!Drop
  <2> QED BY <2>2 DEF Contract!Next
<1>3. CASE Restart
  <2>1. Owed' = [i \in Ids |-> 0] BY <1>3 DEF Restart, Owed
  <2>2. Contract!Crash BY <1>3, <2>1 DEF Restart, Contract!Crash
  <2> QED BY <2>2 DEF Contract!Next
<1>4. ASSUME NEW k \in Keys, NEW s \in Specs, RegisterWithCollector(k, s)
      PROVE  Contract!Next
  BY <1>4, RegisterImplements
<1>5. ASSUME NEW k \in Keys, NEW s \in Specs, UpdateCachedSpec(k, s)
      PROVE  [Contract!Next]_<<events, Owed>>
  BY <1>5, QuietStutters DEF UpdateCachedSpec
<1>6. ASSUME NEW k \in Keys, Unregister(k) PROVE Contract!Next
  <2>1. Owed' = Owed BY <1>6 DEF Unregister, Owed
  <2>2. events' = [l \in Keys |-> IF l \in {k} THEN None ELSE events[l]]
    BY <1>0, <1>6 DEF Unregister, TypeOK
  <2>3. Contract!Drop({k}) BY <2>1, <2>2 DEF Contract!Drop
  <2> QED BY <2>3 DEF Contract!Next
<1>7. ASSUME NEW t \in Timers, TimerStep(t)
      PROVE  [Contract!Next]_<<events, Owed>>
  <2>1. CASE TimerExpires(t) \/ TimerReadsSpec(t)
    BY <2>1, QuietStutters DEF TimerExpires, TimerReadsSpec, evars
  <2>2. CASE TimerSelects(t) BY <2>2, TimerSelectsImplements
  <2> QED BY <1>7, <2>1, <2>2 DEF TimerStep
<1>8. ASSUME NEW i \in Ids, LoopStep(i)
      PROVE  [Contract!Next]_<<events, Owed>>
  BY <1>8, LoopImplements
<1> QED BY <1>1, <1>2, <1>3, <1>4, <1>5, <1>6, <1>7, <1>8 DEF Next

(* The monitor implements the contract that the rest of the controller       *)
(* relies on: a registration which was dropped or replaced makes no call     *)
(* that it does not owe at that moment, and never owes more than two.        *)
THEOREM MonitorImplementsSampling == Spec => ImplementsSampling
<1>1. Init => Contract!Init BY DEF Init, Owed, Contract!Init
<1>2. Init => AbandonedClosed BY DEF Init, AbandonedClosed, Abandoned
<1>3. IInv /\ AbandonedClosed /\ [Next]_vars => AbandonedClosed' BY NextAbandonedClosed
<1>4. IInv /\ AbandonedClosed /\ [Next]_vars => [Contract!Next]_<<events, Owed>>
  BY NextImplements
<1> QED BY <1>1, <1>2, <1>3, <1>4, Invariance, PTL
        DEF Spec, ImplementsSampling, Contract!Spec
=============================================================================
