CONSTANTS
  u1 = u1
  u2 = u2
  r1 = r1
  r2 = r2
  None = None
  Users <- MCUsers
  Requests <- MCRequests
  Enrolled <- MCUsers
  BackupCodes = {b1}
  MaxDevices = 2
  MaxCodes = 2
  MaxTokens = 2
  MaxArrivals = 4
SPECIFICATION Spec
SYMMETRY Symmetry
INVARIANTS TypeOK ApprovedOnly OneEach NoLockout
CHECK_DEADLOCK FALSE
