\* Two approves, two runs, one of whose patches also adds a file, an ignored file,
\* and two user actions in between: an edit and a commit, or any others.
SPECIFICATION Spec
CONSTANTS
  r1 = r1
  r2 = r2
  src = src
  doc = doc
  log = log
  p1 = p1
  p2 = p2
  Procs = {p1, p2}
  Runs = {r1, r2}
  Files = {src, doc, log}
  Ignored = {log}
  New = {doc}
  Touches <- MCTouches
  Main = main
  Detached = detached
  Initial = initial
  User = user
  None = none
  MaxActs = 2
SYMMETRY Symmetry
CHECK_DEADLOCK FALSE
INVARIANTS
  TypeOK
  RunHeldByOne
PROPERTIES
  OnlyOwnBranch
  CleanCommitIsThePatch
  CleanCommitIsTheVerifiedTree
  FailureLeavesNoCommit
