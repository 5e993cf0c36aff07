---------------------------- MODULE MCDiscovery ----------------------------
(* An instance of Discovery for TLC: a deployment with two pods, a stateful  *)
(* set that a custom resource owns and that names a template of another      *)
(* class first, and a replica set on its own, each with a pod.               *)
EXTENDS Discovery

Kinds == [p1 |-> "Pod", p2 |-> "Pod", rs |-> "ReplicaSet", dep |-> "Deployment",
          p3 |-> "Pod", sts |-> "StatefulSet", lws |-> "LeaderWorkerSet",
          p4 |-> "Pod", alone |-> "ReplicaSet"]
Owners == [p1 |-> "rs", p2 |-> "rs", rs |-> "dep", dep |-> None,
           p3 |-> "sts", sts |-> "lws", lws |-> None,
           p4 |-> "alone", alone |-> None]
Objs == DOMAIN Kinds
Classes == [gpu |-> {"gpu", "mps"}, net |-> {"nic"}]
Tmpls == DOMAIN Classes
Claims == [o \in Objs |-> CASE o \in {"dep", "rs", "p1", "p2"} -> <<None, "gpu">>
                            [] o \in {"sts", "p3"} -> <<"net", "gpu">>
                            [] OTHER -> <<>>]
Moving == {"p1", "p2", "p3", "rs", "dep", "gpu", "svc"}
SomePods == {{}, {"p1", "p2"}, {"p3"}, {"p4"}}
=============================================================================
