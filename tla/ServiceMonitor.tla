--------------------------- MODULE ServiceMonitor ---------------------------
(***************************************************************************)
(* The in-memory scheduler of internal/monitor/service_monitor.go: one     *)
(* MonitoringEvent per registered autoscaler, a time.AfterFunc timer that  *)
(* puts a TriggerEvent into the event's channel of capacity 1, and one     *)
(* monitoringLoop goroutine per event that takes the trigger, collects     *)
(* metrics, spawns the scaling callback and re-arms the timer.             *)
(*                                                                         *)
(* Everything done under sm.mu is one action.  The timer functions do not  *)
(* take sm.mu, so a timer that has expired is a goroutine of its own with  *)
(* three steps: it starts, it evaluates getCachedSpec(), it executes the   *)
(* select.  A select with several ready cases picks any of them; a send on *)
(* a closed channel panics and ends the process.                           *)
(*                                                                         *)
(* Left out: log lines, the contents of the metrics, lastTriggerTime (only *)
(* its own loop reads and writes it) and the nil checks on fields that     *)
(* RegisterWithCollector always sets.  The cached spec is never nil: the   *)
(* only caller passes &autoscaler.Spec.                                    *)
(***************************************************************************)
EXTENDS Naturals, FiniteSets

CONSTANTS
    Keys,    \* namespace/name keys of sm.events
    Ids,     \* identities of MonitoringEvent objects, reused once unreachable
    Timers,  \* identities of timers and of the goroutines they start: at most
             \* this many exist at a time
    Specs,   \* autoscaler specs
    None     \* no event, no spec

ASSUME NoneAssumption == None \notin Ids /\ None \notin Specs

VARIABLES
    started,   \* sm.ctx # nil
    events,    \* sm.events, None where the map has no entry
    key,       \* event.Namespace/AutoscalerName
    cached,    \* event.cachedSpec
    buf,       \* event.triggerChan: the buffered trigger's CachedSpec, or None
    closed,    \* close(event.triggerChan) was called
    mcancel,   \* the context of the monitoring loop is cancelled
    loop,      \* where the event's monitoringLoop is
    held,      \* the spec of the trigger the loop is working on
    timer,     \* the timers and the goroutines they started
    panicked   \* the process died of a panic

evars == <<key, cached, buf, closed, mcancel, loop, held>>
vars == <<started, events, key, cached, buf, closed, mcancel, loop, held,
          timer, panicked>>

-----------------------------------------------------------------------------
(* A timer is free, armed (AfterFunc was called), started (it expired and    *)
(* its function runs), or selecting (getCachedSpec() was evaluated).  live   *)
(* says that the eventCtx its function captured is not cancelled.            *)

TimerPc == {"free", "armed", "started", "select"}
TimerRec == [pc : TimerPc, id : Ids \cup {None}, spec : Specs \cup {None},
             live : BOOLEAN]
FreeTimer == [pc |-> "free", id |-> None, spec |-> None, live |-> FALSE]
ArmedTimer(i) == [pc |-> "armed", id |-> i, spec |-> None, live |-> TRUE]

(* timer.Stop() followed by cancelFunc(): an armed timer of event i is gone, *)
(* one whose function already runs only sees its context cancelled.          *)
StopAndCancel(tm, i) ==
    [t \in Timers |->
        IF tm[t].id # i THEN tm[t]
        ELSE IF tm[t].pc = "armed" THEN FreeTimer
        ELSE [tm[t] EXCEPT !.live = FALSE]]

(* An event object that nothing refers to any more: RegisterWithCollector    *)
(* allocates such an identity.                                               *)
Unreachable(i) ==
    /\ loop[i] = "none"
    /\ \A k \in Keys : events[k] # i
    /\ \A t \in Timers : timer[t].id # i

-----------------------------------------------------------------------------
Init ==
    /\ started = FALSE
    /\ events = [k \in Keys |-> None]
    /\ key \in [Ids -> Keys]
    /\ cached = [i \in Ids |-> None]
    /\ buf = [i \in Ids |-> None]
    /\ closed = [i \in Ids |-> FALSE]
    /\ mcancel = [i \in Ids |-> FALSE]
    /\ loop = [i \in Ids |-> "none"]
    /\ held = [i \in Ids |-> None]
    /\ timer = [t \in Timers |-> FreeTimer]
    /\ panicked = FALSE

(* Start: fails (and changes nothing) when already started.                  *)
Start ==
    /\ ~panicked /\ ~started
    /\ started' = TRUE
    /\ UNCHANGED <<events, evars, timer, panicked>>

(* Stop cancels sm.ctx, the parent of every context the monitor created,     *)
(* stops every timer, closes every channel and empties the map.              *)
Stop ==
    /\ ~panicked /\ started
    /\ started' = FALSE
    /\ mcancel' = [i \in Ids |-> mcancel[i] \/ loop[i] # "none"]
    /\ closed' = [i \in Ids |-> closed[i] \/ \E k \in Keys : events[k] = i]
    /\ timer' = [t \in Timers |->
                    IF timer[t].pc \in {"free", "armed"} THEN FreeTimer
                    ELSE [timer[t] EXCEPT !.live = FALSE]]
    /\ events' = [k \in Keys |-> None]
    /\ UNCHANGED <<key, cached, buf, loop, held, panicked>>

(* RegisterWithCollector.  An existing event of the key is shut down first:  *)
(* its timer, its loop's context and its channel.  Called before Start it    *)
(* would build a context from nil; the reconciler starts the monitor first.  *)
RegisterWithCollector(k, s) ==
    /\ ~panicked /\ started
    /\ \E i \in {j \in Ids : Unreachable(j)} :
       \E t \in Timers :
        LET old == events[k]
            stopped == StopAndCancel(timer, old)
        IN  /\ (IF old = None THEN timer ELSE stopped)[t].pc = "free"
            /\ timer' = [(IF old = None THEN timer ELSE stopped)
                            EXCEPT ![t] = ArmedTimer(i)]
            /\ closed' = [j \in Ids |-> IF j = i THEN FALSE
                                        ELSE closed[j] \/ j = old]
            /\ mcancel' = [j \in Ids |-> IF j = i THEN FALSE
                                         ELSE mcancel[j] \/ j = old]
            /\ key' = [key EXCEPT ![i] = k]
            /\ cached' = [cached EXCEPT ![i] = s]
            /\ buf' = [buf EXCEPT ![i] = None]
            /\ loop' = [loop EXCEPT ![i] = "recv"]
            /\ held' = [held EXCEPT ![i] = None]
            /\ events' = [events EXCEPT ![k] = i]
    /\ UNCHANGED <<started, panicked>>

(* UpdateCachedSpec: an error, and no change, when the key is unknown.       *)
UpdateCachedSpec(k, s) ==
    /\ ~panicked /\ events[k] # None
    /\ cached' = [cached EXCEPT ![events[k]] = s]
    /\ UNCHANGED <<started, events, key, buf, closed, mcancel, loop, held,
                   timer, panicked>>

(* A slip: Unregister forgets to close the channel.                          *)
UnregisterWithoutClose(k) ==
    /\ ~panicked /\ events[k] # None
    /\ timer' = StopAndCancel(timer, events[k])
    /\ events' = [events EXCEPT ![k] = None]
    /\ UNCHANGED <<started, key, cached, buf, closed, mcancel, loop, held,
                   panicked>>

(* Unregister stops the timer, closes the channel and deletes the entry.     *)
(* It does not call monitorCancel: the loop ends by seeing the channel       *)
(* closed, after it has taken what is still buffered.                        *)
Unregister(k) ==
    /\ ~panicked /\ events[k] # None
    /\ timer' = StopAndCancel(timer, events[k])
    /\ closed' = [closed EXCEPT ![events[k]] = TRUE]
    /\ events' = [events EXCEPT ![k] = None]
    /\ UNCHANGED <<started, key, cached, buf, mcancel, loop, held,
                   panicked>>

-----------------------------------------------------------------------------
(* The timer.                                                                *)

(* The period elapsed: the runtime starts the timer's function.              *)
TimerExpires(t) ==
    /\ ~panicked /\ timer[t].pc = "armed"
    /\ timer' = [timer EXCEPT ![t].pc = "started"]
    /\ UNCHANGED <<started, events, evars, panicked>>

(* The select statement evaluates event.getCachedSpec() before it chooses.   *)
TimerReadsSpec(t) ==
    /\ ~panicked /\ timer[t].pc = "started"
    /\ timer' = [timer EXCEPT ![t].pc = "select",
                              ![t].spec = cached[timer[t].id]]
    /\ UNCHANGED <<started, events, evars, panicked>>

(* case <-eventCtx.Done()                                                    *)
TimerSeesDone(t) ==
    /\ ~timer[t].live
    /\ UNCHANGED <<buf, panicked>>

(* case triggerChan <- TriggerEvent{...}: ready when there is room, and also *)
(* ready, with a panic, when the channel is closed.                          *)
TimerSends(t) ==
    LET i == timer[t].id IN
    \/ /\ ~closed[i] /\ buf[i] = None
       /\ buf' = [buf EXCEPT ![i] = timer[t].spec]
       /\ UNCHANGED panicked
    \/ /\ closed[i]
       /\ panicked' = TRUE
       /\ UNCHANGED buf

(* default: the channel is full and nothing else is ready.                   *)
TimerSkips(t) ==
    /\ timer[t].live /\ ~closed[timer[t].id] /\ buf[timer[t].id] # None
    /\ UNCHANGED <<buf, panicked>>

TimerSelects(t) ==
    /\ ~panicked /\ timer[t].pc = "select"
    /\ TimerSeesDone(t) \/ TimerSends(t) \/ TimerSkips(t)
    /\ timer' = [timer EXCEPT ![t] = FreeTimer]
    /\ UNCHANGED <<started, events, key, cached, closed, mcancel, loop, held>>

-----------------------------------------------------------------------------
(* The monitoring loop of event i.                                           *)

(* A slip: the second result of the receive, FALSE for a closed and drained  *)
(* channel, is not looked at.                                                *)
LoopReceivesUnchecked(i) ==
    /\ ~panicked /\ loop[i] = "recv" /\ (buf[i] # None \/ closed[i])
    /\ held' = [held EXCEPT ![i] = buf[i]]
    /\ buf' = [buf EXCEPT ![i] = None]
    /\ loop' = [loop EXCEPT ![i] = "collect"]
    /\ UNCHANGED <<started, events, key, cached, closed, mcancel, timer,
                   panicked>>

(* A buffered trigger is received, also from a closed channel, and also when *)
(* the context is cancelled as well.                                         *)
LoopReceives(i) ==
    /\ ~panicked /\ loop[i] = "recv" /\ buf[i] # None
    /\ held' = [held EXCEPT ![i] = buf[i]]
    /\ buf' = [buf EXCEPT ![i] = None]
    /\ loop' = [loop EXCEPT ![i] = "collect"]
    /\ UNCHANGED <<started, events, key, cached, closed, mcancel, timer,
                   panicked>>

(* The channel is closed and drained, or the context is cancelled.           *)
LoopExits(i) ==
    /\ ~panicked /\ loop[i] = "recv"
    /\ (closed[i] /\ buf[i] = None) \/ mcancel[i]
    /\ loop' = [loop EXCEPT ![i] = "none"]
    /\ UNCHANGED <<started, events, key, cached, buf, closed, mcancel, held,
                   timer, panicked>>

(* A slip: after an error of the collector the loop goes on to wait.         *)
LoopGivesUpOnError(i) ==
    /\ ~panicked /\ loop[i] = "collect"
    /\ \/ loop' = [loop EXCEPT ![i] = "rearm"] /\ UNCHANGED held
       \/ loop' = [loop EXCEPT ![i] = "recv"] /\ held' = [held EXCEPT ![i] = None]
    /\ UNCHANGED <<started, events, key, cached, buf, closed, mcancel, timer,
                   panicked>>

(* CollectAndCompute returned, with metrics or with an error that is         *)
(* replaced by empty metrics; lastTriggerTime is set and the goroutine of    *)
(* notifyScalingAction is started, which this module does not follow.        *)
LoopCollects(i) ==
    /\ ~panicked /\ loop[i] = "collect"
    /\ loop' = [loop EXCEPT ![i] = "rearm"]
    /\ UNCHANGED <<started, events, key, cached, buf, closed, mcancel, held,
                   timer, panicked>>

(* Slips: the old timer is not cancelled; or it is cancelled by key after    *)
(* the new one was armed.                                                    *)
RearmWithoutCancel(k) ==
    \/ events[k] = None /\ UNCHANGED timer
    \/ /\ events[k] # None
       /\ \E t \in Timers : timer[t].pc = "free"
                /\ timer' = [timer EXCEPT ![t] = ArmedTimer(events[k])]
CancelAfterRearm(k) ==
    \/ events[k] = None /\ UNCHANGED timer
    \/ events[k] # None /\ timer' = StopAndCancel(timer, events[k])

(* UpdateTriggerTime looks the event up by key, so it acts on whatever event *)
(* the key has now: none after Unregister (an error that is only logged), or *)
(* a newer one after a re-registration.                                      *)
UpdateTriggerTime(k) ==
    \/ /\ events[k] = None
       /\ UNCHANGED timer
    \/ /\ events[k] # None
       /\ \E t \in Timers :
            /\ StopAndCancel(timer, events[k])[t].pc = "free"
            /\ timer' = [StopAndCancel(timer, events[k])
                            EXCEPT ![t] = ArmedTimer(events[k])]

LoopRearms(i) ==
    /\ ~panicked /\ loop[i] = "rearm"
    /\ UpdateTriggerTime(key[i])
    /\ loop' = [loop EXCEPT ![i] = "recv"]
    /\ held' = [held EXCEPT ![i] = None]
    /\ UNCHANGED <<started, events, key, cached, buf, closed, mcancel,
                   panicked>>

(* The pod is restarted after a panic: all of this state is in memory.       *)
Restart ==
    /\ panicked
    /\ started' = FALSE
    /\ events' = [k \in Keys |-> None]
    /\ cached' = [i \in Ids |-> None]
    /\ buf' = [i \in Ids |-> None]
    /\ closed' = [i \in Ids |-> FALSE]
    /\ mcancel' = [i \in Ids |-> FALSE]
    /\ loop' = [i \in Ids |-> "none"]
    /\ held' = [i \in Ids |-> None]
    /\ timer' = [t \in Timers |-> FreeTimer]
    /\ panicked' = FALSE
    /\ UNCHANGED key

-----------------------------------------------------------------------------
TimerStep(t) == TimerExpires(t) \/ TimerReadsSpec(t) \/ TimerSelects(t)
LoopStep(i) == LoopReceives(i) \/ LoopExits(i) \/ LoopCollects(i) \/ LoopRearms(i)

Next ==
    \/ Start \/ Stop \/ Restart
    \/ \E k \in Keys, s \in Specs :
          RegisterWithCollector(k, s) \/ UpdateCachedSpec(k, s)
    \/ \E k \in Keys : Unregister(k)
    \/ \E t \in Timers : TimerStep(t)
    \/ \E i \in Ids : LoopStep(i)

Spec == Init /\ [][Next]_vars

(* The Go runtime runs every goroutine that can run, fires every armed timer *)
(* and hands a contended mutex over to one that waits for it: re-arming is   *)
(* strongly fair, as it also waits for one of the bounded Timers to be free. *)
(* A collection returns (its queries have a context).  Nothing forces the    *)
(* reconciler to register or unregister.                                     *)
Fairness ==
    /\ \A t \in Timers : WF_vars(TimerStep(t))
    /\ \A i \in Ids : WF_vars(LoopStep(i)) /\ SF_vars(LoopRearms(i))

FairSpec == Spec /\ Fairness

-----------------------------------------------------------------------------
(* Types; a registered event has a cached spec, a loop that works on a       *)
(* trigger holds one, and so does a goroutine that evaluated getCachedSpec():*)
(* the nil check of monitoringLoop, which would end the sampling of the      *)
(* event, never applies.                                                     *)
TypeOK ==
    /\ started \in BOOLEAN
    /\ events \in [Keys -> Ids \cup {None}]
    /\ key \in [Ids -> Keys]
    /\ cached \in [Ids -> Specs \cup {None}]
    /\ buf \in [Ids -> Specs \cup {None}]
    /\ closed \in [Ids -> BOOLEAN]
    /\ mcancel \in [Ids -> BOOLEAN]
    /\ loop \in [Ids -> {"none", "recv", "collect", "rearm"}]
    /\ held \in [Ids -> Specs \cup {None}]
    /\ timer \in [Timers -> TimerRec]
    /\ panicked \in BOOLEAN
    /\ \A k \in Keys : events[k] # None => cached[events[k]] # None
    /\ \A i \in Ids : loop[i] \in {"collect", "rearm"} => held[i] # None
    /\ \A t \in Timers : timer[t].pc # "free" => timer[t].id # None
    /\ \A t \in Timers : timer[t].pc = "select" => timer[t].spec # None

(* What keeps a registered event being sampled: a timer whose context is not *)
(* cancelled, a buffered trigger, or a loop about to re-arm the timer.       *)
ChainAlive(i) ==
    \/ \E t \in Timers : timer[t].id = i /\ timer[t].live
    \/ buf[i] # None
    \/ loop[i] \in {"collect", "rearm"}

(* A registered event never falls silent: its loop runs with an open channel *)
(* and a live context, and something will trigger it again.  Neither a timer *)
(* that finds the channel full, nor the loop of an earlier registration that *)
(* re-arms this event, nor a timer cancelled at the last moment breaks the   *)
(* chain (RegisterWithCollector, UpdateTriggerTime, the timer functions and  *)
(* monitoringLoop together).                                                 *)
NoSilentRegistration ==
    \A k \in Keys : events[k] # None =>
        /\ ~closed[events[k]] /\ ~mcancel[events[k]]
        /\ loop[events[k]] # "none"
        /\ ChainAlive(events[k])

(* At most one timer of an event can still trigger it, and none of an event  *)
(* that was unregistered or replaced: the sampling period is never halved by *)
(* two timers running side by side (UpdateTriggerTime, Unregister).          *)
OneLiveTimer ==
    /\ \A t, u \in Timers :
        timer[t].live /\ timer[u].live /\ timer[t].id = timer[u].id => t = u
    /\ \A t \in Timers : timer[t].live =>
        \E k \in Keys : events[k] = timer[t].id

(* One event object is registered under at most one key, under its own key,  *)
(* so that UpdateTriggerTime(event.key) by its loop finds it.                *)
RegisteredUnderOwnKey ==
    \A k \in Keys : events[k] # None => key[events[k]] = k

(* The loop of an event that is not registered any more (Unregister, Stop,   *)
(* re-registration) comes to its end: no goroutine leaks.                    *)
LoopsEnd ==
    \A i \in Ids :
        (loop[i] # "none" /\ \A k \in Keys : events[k] # i)
            ~> (loop[i] = "none" \/ panicked)

(* A registered autoscaler is sampled again and again until it is removed or *)
(* replaced: timer, channel, loop and re-arming never get stuck.             *)
SampledForever ==
    \A k \in Keys, i \in Ids :
        events[k] = i ~> (loop[i] = "collect" \/ events[k] # i \/ panicked)

(* An event that was unregistered or replaced gets no further trigger: what  *)
(* its loop works on and what is buffered at that moment are the last two    *)
(* calls it makes (Unregister, Stop and RegisterWithCollector close the      *)
(* channel; a timer function that is already running cannot fill it).        *)
Abandoned(i) == loop[i] # "none" /\ \A k \in Keys : events[k] # i
NoTriggerOnceAbandoned ==
    [][\A i \in Ids : Abandoned(i) /\ buf[i] = None => buf'[i] = None]_vars

(* The monitor implements the contract of Sampling: what a registration owes *)
(* is the trigger in its channel and the one its loop collects metrics for.  *)
(* No interleaving of timer functions, loops, re-registrations and           *)
(* unregistrations makes a call that a registration which was current did    *)
(* not come to owe.                                                          *)
Owed == [i \in Ids |->
            IF loop[i] = "none" THEN 0
            ELSE (IF buf[i] # None THEN 1 ELSE 0) + (IF loop[i] = "collect" THEN 1 ELSE 0)]
Contract == INSTANCE Sampling WITH current <- events, owed <- Owed
ImplementsSampling == Contract!Spec

(* No timer function panics while the monitor runs: cancelFunc has cancelled *)
(* the timer before the channel is closed.                                   *)
NeverPanics == ~(panicked /\ started)
=============================================================================
