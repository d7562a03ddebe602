------------------------------- MODULE MCApprove -------------------------------
(* Approve for TLC: the instances are in the Approve*.cfg files. *)
EXTENDS Approve, TLC

CONSTANTS p1, p2, r1, r2, src, doc, log

\* Both patches edit src, the second also adds doc.
MCTouches == [r \in Runs |-> IF r = r1 THEN {src} ELSE {src, doc}]

Symmetry == Permutations(Procs)
================================================================================
