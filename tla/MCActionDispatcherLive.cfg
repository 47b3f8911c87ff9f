\* No database fault, one restart: every admitted job settles.
SPECIFICATION FairSpec
CONSTANTS
  JobIds = {j1, j2, j3}
  Devices = {d1}
  Clients = {c1}
  Workers = {w1, w2}
  NoDevice = NoDevice
  Free = Free
  NoJob = NoJob
  MaxFaults = 0
  MaxRestarts = 1
PROPERTY JobSettles
CHECK_DEADLOCK FALSE
