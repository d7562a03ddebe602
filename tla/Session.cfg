\* Two processes of the powerplant command and two runs.
SPECIFICATION Spec
CONSTANTS
  Procs = {p1, p2}
  Runs = {r1, r2}
  OtherProject = {}
  RepoHome = TRUE
  NoRun = none
SYMMETRY Symmetry
CHECK_DEADLOCK FALSE
INVARIANTS
  TypeOK
  LinksAreApproved
  SessionRunsBuildOnApproved
  ChainIsReproducible
  SavesKeepWhatWasSaved
