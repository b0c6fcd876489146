SPECIFICATION Spec
CONSTANTS
  Slices = {shop, crm}
  Home <- MCHome
  Name <- MCName
  Begins = {}
  Ops = {"promote", "swap", "deploy", "remove", "posture"}
  MaxOps = 2
  MaxPushes = 2
  MaxFaults = 1
SYMMETRY Alike
INVARIANTS TypeOK SlotsSound NeverDangling
PROPERTIES DoneMeansApplied SiblingsUntouched
CHECK_DEADLOCK FALSE
