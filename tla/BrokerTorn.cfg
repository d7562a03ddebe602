\* A write that fails half-way leaves the gate open, and a finalize releases the torn tree.
SPECIFICATION Spec
CONSTANTS
  Checks = {test, lint}
  Required = {test}
  WritingChecks = {}
  Files = {src, conf}
  Writable = {src}
  Excluded = {}
  Contents = {base, edited, half}
  Base = base
  Rejected = {}
  Torn = {half}
  MaxToolCalls = 4
  MaxBatch = 2
CHECK_DEADLOCK FALSE
PROPERTIES
  ReleaseIsTested
