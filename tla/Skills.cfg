\* One import under two edits; one import, an edit and three commands; two imports and a
\* command; four commands and an edit on one candidate; five commands on two; two
\* processes, overlaps and deaths.
SPECIFICATION Spec
CONSTANTS
  c1 = c1
  c2 = c2
  p1 = p1
  p2 = p2
  n1 = n1
  Cand = {c1, c2}
  Procs = {p1, p2}
  Names = {n1}
  NameOf <- MCNameOf
  Malformed = {3}
  MaxFileSize = 2
  MaxTotalSize = 2
  MaxFileCount = 2
  Budgets <- MCBudgets
  None = none
SYMMETRY Symmetry
CHECK_DEADLOCK FALSE
INVARIANTS
  WholeFilesWithinLimits
  AuditTellsRegistry
  VersionsDistinct
  RenderedWasValidated
