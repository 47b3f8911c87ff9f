\* One schedule, three jobs, one edit and one restart at any point.
SPECIFICATION FairSpec
CONSTANTS
  JobIds <- ThreeJobs
  Devices = {d1}
  Device = d1
  NoDevice = NoDevice
  NoJob = NoJob
  ManualJobs = {3}
  MaxFailures = 2
  MaxEdits = 1
  MaxRestarts = 1
INVARIANTS
  SlotFiredOnce
  AutoPauseHolds
PROPERTIES
  DueSlotHandled
  OutcomeLearnt
CHECK_DEADLOCK FALSE
