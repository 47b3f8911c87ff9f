\* One device that answers every poll, and its probe.
SPECIFICATION CollectionSpec
CONSTANTS
  Period = 1
  Environments = {e1}
  Outcomes = {"answered"}
  MaxWorld = 1
  MaxScans = 1
PROPERTY FailureHeard
CHECK_DEADLOCK FALSE
