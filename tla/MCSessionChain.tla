---------------------------- MODULE MCSessionChain ----------------------------
(* SessionChain for TLC: the instances are in the Session*.cfg files. *)
EXTENDS SessionChain, TLC

\* The processes are interchangeable, and so are the runs of the session's project.
Symmetry == Permutations(Procs) \cup Permutations(Runs \ OtherProject)
===============================================================================
