CONSTANTS
  Admins = {a1, a2}
  Clis = {c1}
  Versions = {v1, v2}
  Depth = 1
  MaxFiles = 2
  MaxFaults = 1
SPECIFICATION FairSpec
INVARIANTS RowsHaveFiles Reversible
PROPERTIES DaemonCatchesUp
CHECK_DEADLOCK FALSE
