\* As Session.cfg: a session closed between a run's two loads.
SPECIFICATION Spec
CONSTANTS
  Procs = {p1, p2}
  Runs = {r1, r2}
  OtherProject = {}
  RepoHome = TRUE
  NoRun = none
CHECK_DEADLOCK FALSE
INVARIANT
  ClosedSessionIsNotRun
