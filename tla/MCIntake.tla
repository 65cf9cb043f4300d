------------------------------- MODULE MCIntake -------------------------------
(* Instances of Intake small enough for TLC: a Deployment with two pods,   *)
(* one of which fails, and a StatefulSet whose pod only has an alert.      *)
EXTENDS Intake, TLC

CONSTANTS r1, r2, p1, p2, p3, p4, deployment, replicaSet, statefulSet

MCPodKey == (p1 :> p1) @@ (p2 :> p2) @@ (p3 :> p1) @@ (p4 :> p4)
MCWorkload == [p \in {p1, p2, p3} |-> deployment] @@ (p4 :> statefulSet)
MCOwner == [p \in {p1, p2, p3} |-> replicaSet] @@ (p4 :> statefulSet)
MCNamespace == [p \in {p1, p2, p4} |-> "default"] @@ (p3 :> "kube-system")
=============================================================================
