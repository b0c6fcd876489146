SPECIFICATION Spec
CONSTANTS
  Slices = {shop}
  Home <- MCHome
  Name <- MCName
  Begins = {}
  Ops = {"promote"}
  MaxOps = 1
  MaxPushes = 2
  MaxFaults = 1
INVARIANTS NeverRetiredWhileRouted
CHECK_DEADLOCK FALSE
