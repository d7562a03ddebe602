\* One command after the other, on two candidates of one skill.
SPECIFICATION Spec
CONSTANTS
  c1 = c1
  c2 = c2
  p1 = p1
  p2 = p2
  n1 = n1
  Cand = {c1, c2}
  Procs = {p1}
  Names = {n1}
  NameOf <- MCNameOf
  Malformed = {3}
  MaxFileSize = 2
  MaxTotalSize = 2
  MaxFileCount = 2
  Budgets <- MCBudgetsRollback
  None = none
CHECK_DEADLOCK FALSE
INVARIANT VersionNamesOneCandidate
