\* Two jobs, the first to be approved, one administrator, one cancel, one fault.
SPECIFICATION GatewaySpec
CONSTANTS
  Job <- TwoJobs
  NeedsApproval <- FirstNeedsApproval
  Admin = {a1}
  NoJob = NoJob
  MaxAttempts = 2
  MaxCancels = 1
  MaxFaults = 1
INVARIANTS
  RunsAtMostOnce
  FinishedStaysHome
CHECK_DEADLOCK FALSE
