------------------------------ MODULE Sampling ------------------------------
(***************************************************************************)
(* What the service monitor promises to the rest of the controller, with   *)
(* neither timers nor channels nor contexts: a registered autoscaler is    *)
(* sampled and its scaling callback called again and again; once it is     *)
(* unregistered, or registered anew, the old registration makes no more    *)
(* calls than it owes at that moment, two at the most.  ScalingLifecycle   *)
(* takes the calls that reach the scaler from here, and ServiceMonitor is  *)
(* shown to implement it.                                                  *)
(***************************************************************************)
EXTENDS Naturals

CONSTANTS
    Keys,  \* namespace/name keys of the autoscalers
    Ids,   \* identities of registrations
    None

MaxOwed == 2

VARIABLES
    current,  \* the registration of a key, or None
    owed      \* calls that a registration will still make

Current(i) == \E k \in Keys : current[k] = i

Init ==
    /\ current = [k \in Keys |-> None]
    /\ owed = [i \in Ids |-> 0]

Register(k, i) ==
    /\ ~Current(i) /\ owed[i] = 0
    /\ current' = [current EXCEPT ![k] = i]
    /\ UNCHANGED owed

Drop(gone) ==
    /\ current' = [k \in Keys |-> IF k \in gone THEN None ELSE current[k]]
    /\ UNCHANGED owed

(* Time has come for a sample of a registered autoscaler.                    *)
Owe(i) ==
    /\ Current(i) /\ owed[i] < MaxOwed
    /\ owed' = [owed EXCEPT ![i] = @ + 1]
    /\ UNCHANGED current

(* The callback is called.                                                   *)
Call(i) ==
    /\ owed[i] > 0
    /\ owed' = [owed EXCEPT ![i] = @ - 1]
    /\ UNCHANGED current

(* A registration that is not current may leave its calls undone.            *)
GiveUp(i) ==
    /\ ~Current(i)
    /\ owed' = [owed EXCEPT ![i] = 0]
    /\ UNCHANGED current

(* The process ends, and all registrations with it.                          *)
Crash ==
    /\ current' = [k \in Keys |-> None]
    /\ owed' = [i \in Ids |-> 0]

Next ==
    \/ \E k \in Keys, i \in Ids : Register(k, i)
    \/ \E gone \in SUBSET Keys : Drop(gone)
    \/ \E i \in Ids : Owe(i) \/ Call(i) \/ GiveUp(i)
    \/ Crash

Spec == Init /\ [][Next]_<<current, owed>>
=============================================================================
