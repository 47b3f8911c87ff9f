\* A canary device and then another, or both at once, failing, going offline or
\* entering their windows at any point; an operator may cancel; one restart or
\* failed statement.
SPECIFICATION FairSpec
CONSTANTS
  Devices = {1, 2}
  Requests <- FourRequests
  JobIds <- Jobs
  Observations <- Seen
  NoDevice = NoDevice
  NoJob = NoJob
  Cancellable = TRUE
  MaxFaults = 1
INVARIANTS
  WaveGate
  PendingRebootTaken
PROPERTIES
  FailureStopsDispatch
  RunSettles
CHECK_DEADLOCK FALSE
