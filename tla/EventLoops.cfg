\* One evaluation or one probe.
SPECIFICATION Spec
CONSTANTS
  MaxOutputChunks = 1
  MaxChunks = 2
  MaxUses = 2
  MaxClosedReconnects = 1
\* An evaluation ends, and so does a probe.
CHECK_DEADLOCK FALSE
INVARIANTS
  VerdictIsOfAWholeRun
  
  AllowedAsAsked
PROPERTIES
  CapsuleSettles
  AlwaysAllowReturns
