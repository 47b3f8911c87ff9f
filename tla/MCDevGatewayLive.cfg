\* Two jobs, the first to be approved, one administrator, one fault.
SPECIFICATION FairSpec
CONSTANTS
  Job <- TwoJobs
  NeedsApproval <- FirstNeedsApproval
  Admin = {a1}
  NoJob = NoJob
  MaxAttempts = 2
  MaxCancels = 0
  MaxFaults = 1
PROPERTIES
  AgentFreed
  QueuedMoves
CHECK_DEADLOCK FALSE
