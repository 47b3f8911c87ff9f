\* Two clients, two workers, two devices; any two database faults and one
\* restart, at any point.  The run ends when the job ids are used up.
SPECIFICATION DispatcherSpec
CONSTANTS
  JobIds = {j1, j2, j3}
  Devices = {d1, d2}
  Clients = {c1, c2}
  Workers = {w1, w2}
  NoDevice = NoDevice
  Free = Free
  NoJob = NoJob
  MaxFaults = 2
  MaxRestarts = 1
SYMMETRY Symmetric
INVARIANTS
  DeviceSerialized
  NoJobLost
PROPERTIES
  Promise
CHECK_DEADLOCK FALSE
