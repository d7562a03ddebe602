\* An eligible run whose source was found modified.
SPECIFICATION Spec
CONSTANTS
  Checks = {test, lint}
  Required = {test}
  WritingChecks = {}
  Files = {src, conf}
  Writable = {src}
  Excluded = {}
  Contents = {base, edited}
  Base = base
  Rejected = {}
  Torn = {}
  MaxToolCalls = 4
  MaxBatch = 2
CHECK_DEADLOCK FALSE
INVARIANTS
  EligibleMeansSourceUnmodified
