\* One required and one advisory check; only accepted writes change the tree.
\* Sessions really end, so deadlock is not an error.
SPECIFICATION FairSpec
CONSTANTS
  Checks = {test, lint}
  Required = {test}
  WritingChecks = {}
  Files = {src, conf}
  Writable = {src}
  Excluded = {}
  Contents = {base, edited}
  Base = base
  Rejected = {}
  Torn = {}
  MaxToolCalls = 4
  MaxBatch = 2
CHECK_DEADLOCK FALSE
INVARIANTS
  IInv
  EligibleMeansVerified
  SummaryComesLast
  EveryWaitingCallHasResult
  BudgetOvershootBounded
PROPERTIES
  PatchIsVerified
  ReleasedOnce
  ImplementsGate
  SessionEnds
