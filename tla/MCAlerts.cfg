\* Three alerts of two devices, with a fault, a restart, two edits or a mark.
SPECIFICATION FairSpec
CONSTANTS
  d1 = d1
  d2 = d2
  Roster <- MCRoster
  Marked = {d1}
  Hint <- MCHint
  Budgets <- OneKind
INVARIANTS
  OneIncident
  NothingUnsaid
PROPERTIES
  OneOpenAlert
  ShownAgain
CHECK_DEADLOCK FALSE
