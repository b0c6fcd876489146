CONSTANTS
  Ws = {w1, w2}
  Daily = 1
  Monthly = 2
  MonthDays = 1
  MaxRuns = 1
  MaxDays = 1
  MaxRecovers = 2
  MaxFaults = 1
SPECIFICATION Spec
SYMMETRY Alike
INVARIANTS SelectedStays SameRun TornOnlyByFault
PROPERTIES OwnTreeKept
CHECK_DEADLOCK FALSE
