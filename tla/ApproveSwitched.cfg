\* As Approve.cfg: the user switches branches while an approve works.
SPECIFICATION Spec
CONSTANTS
  r1 = r1
  r2 = r2
  src = src
  doc = doc
  log = log
  p1 = p1
  p2 = p2
  Procs = {p1, p2}
  Runs = {r1, r2}
  Files = {src, doc, log}
  Ignored = {log}
  New = {doc}
  Touches <- MCTouches
  Main = main
  Detached = detached
  Initial = initial
  User = user
  None = none
  MaxActs = 2
CHECK_DEADLOCK FALSE
PROPERTY
  CommitsToItsBranch
