----------------------------- MODULE FinalizeGate -----------------------------
(***************************************************************************)
(* What a broker session promises, without sessions, batches or results:   *)
(* a tree that is rewritten at will, checks that are proven on a tree, and *)
(* one release, open only while every required check is proven on exactly  *)
(* the tree that is released.                                              *)
(***************************************************************************)
CONSTANTS
  Checks, Required,  \* Required \subseteq Checks
  Trees, Baseline,   \* Baseline \in Trees
  NoTree             \* stands for the absence of a tree: not in Trees

VARIABLES
  tree,      \* the working tree
  proven,    \* for each check, the tree its latest run passed on, or NoTree
  released,  \* the tree released, or NoTree
  closed     \* the release has been tried, successfully or not

gateVars == <<tree, proven, released, closed>>

Init ==
  /\ tree = Baseline
  /\ proven = [c \in Checks |-> NoTree]
  /\ released = NoTree
  /\ closed = FALSE

Rewrite ==
  /\ tree' \in Trees
  /\ UNCHANGED <<proven, released, closed>>

\* The latest run of c passes, or not.
Check(c) ==
  /\ proven' \in {[proven EXCEPT ![c] = t] : t \in {tree, NoTree}}
  /\ UNCHANGED <<tree, released, closed>>

Release ==
  /\ ~closed
  /\ \A c \in Required : proven[c] = tree
  /\ closed' = TRUE
  /\ released' \in {tree, NoTree}
  /\ UNCHANGED <<tree, proven>>

Next == Rewrite \/ (\E c \in Checks : Check(c)) \/ Release

Spec == Init /\ [][Next]_gateVars
=============================================================================
