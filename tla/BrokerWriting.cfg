\* Two required checks, of which fmt rewrites files, and writes that fail half-way.
SPECIFICATION Spec
CONSTANTS
  Checks = {test, fmt}
  Required = {test, fmt}
  WritingChecks = {fmt}
  Files = {src, conf}
  Writable = {src}
  Excluded = {}
  Contents = {base, edited}
  Base = base
  Rejected = {}
  Torn = {edited}
  MaxToolCalls = 5
  MaxBatch = 1
CHECK_DEADLOCK FALSE
INVARIANTS
  EligibleMeansVerified
PROPERTIES
  PatchIsVerified
