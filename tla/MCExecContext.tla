---------------------------- MODULE MCExecContext ----------------------------
(***************************************************************************)
(* Instances of ExecContext: two branches, one of which sends two commands *)
(* at once, and requests that lead to a host over SSH or to a pod.         *)
(***************************************************************************)
EXTENDS ExecContext

MCPlan == [b \in Branch |-> IF b = "endpoint" THEN <<2>> ELSE <<1, 1>>]

Q(t, u) == [target |-> t, user |-> u]
HostOrPod == {Q("address", TRUE), Q("k8s://ns/pod", TRUE)}
=============================================================================
