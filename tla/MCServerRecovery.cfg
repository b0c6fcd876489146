CONSTANTS
  Ws = {w1, w2, w3}
  MaxAttempts = 5
  MaxBackups = 3
SPECIFICATION RecoverySpec
SYMMETRY Alike
PROPERTIES NothingSpentInVain DoneMeansWhole
CHECK_DEADLOCK FALSE
