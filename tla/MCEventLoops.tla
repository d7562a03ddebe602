------------------------------ MODULE MCEventLoops ------------------------------
(***************************************************************************)
(* The two components whose end is in question, for TLC: the capsule's     *)
(* evaluator, with its timer and callbacks, and the probes, with their     *)
(* event streams.  They share nothing: a behaviour is a behaviour of one,  *)
(* and the other stays where it began.                                     *)
(***************************************************************************)
EXTENDS CapsuleEvaluator, ApprovalProbe

VARIABLE scenario

vars == <<scenario, capsuleVars, probeVars>>

Init ==
  /\ scenario \in {"capsule", "probe"}
  /\ CapsuleInit /\ ProbeInit
  /\ scenario = "capsule" => probe.kind = "deny"

Next ==
  /\ UNCHANGED scenario
  /\ \/ scenario = "capsule" /\ CapsuleNext /\ UNCHANGED probeVars
     \/ scenario = "probe" /\ ProbeNext /\ UNCHANGED capsuleVars

\* Each is scheduled as its own specification says, where it runs.
Fairness ==
  /\ scenario = "capsule" => CapsuleFairness
  /\ scenario = "probe" => ProbeFairness

Spec == Init /\ [][Next]_vars /\ Fairness
================================================================================
