SPECIFICATION Spec
CONSTANTS
  Hashes = {1, 2}
  Expected = 1
  MaxClock = 1
  MaxOutputChunks = 1
  MaxChunks = 1
  MaxActions = 2
  MaxCommands = 3
  MaxDeletes = 2
  Skills = {"a", "b"}
  Paths = {"code", "other", "hidden", "key"}
  Included = {"code", "hidden", "key"}
  Excluded = {"hidden"}
  DenyIfPresent = {"key"}
  MaxChanges = 2
\* Every scenario ends.
CHECK_DEADLOCK FALSE
INVARIANTS
  EligibleIsAudited
  CandidatePassIsEarned
  MutationIsBlocked
  ReceiptTellsTheWorkspace
  NoAgentIsLost
  FilesAgree
  RepairLeavesLiveOrReused
  ExposedIsAudited
  UnmodifiedMeansCopied
