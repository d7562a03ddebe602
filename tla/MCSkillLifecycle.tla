---------------------------- MODULE MCSkillLifecycle ----------------------------
(* SkillLifecycle for TLC: one skill name; an import with the user at work, or
   commands on candidates that were imported before. *)
EXTENDS SkillLifecycle

CONSTANTS c1, c2, p1, p2, n1

Symmetry == Permutations(Procs)

MCNameOf == [c \in Cand |-> n1]

MCBudgets ==
  { [edits |-> 2, imports |-> 1, commands |-> 0, ready |-> {}],
    [edits |-> 1, imports |-> 1, commands |-> 3, ready |-> {}],
    [edits |-> 0, imports |-> 2, commands |-> 1, ready |-> {}],
    [edits |-> 1, imports |-> 0, commands |-> 4, ready |-> {c1}],
    [edits |-> 0, imports |-> 0, commands |-> 5, ready |-> {c1, c2}] }

\* Two candidates imported before, and commands enough to validate and promote each, roll
\* back and promote again.
MCBudgetsRollback == { [edits |-> 0, imports |-> 0, commands |-> 6, ready |-> {c1, c2}] }
================================================================================
