CONSTANTS
  pr = pr
  prtwo = prtwo
  Ws = {pr, prtwo}
  Prefixed <- PairPrTwo
  Suffixed <- NoPair
  Actors = {a1, a2}
  MaxOps = 2
  MaxFaults = 1
SPECIFICATION Spec
SYMMETRY Symmetry
INVARIANTS TypeOK RemoveLeavesNothing
PROPERTIES SiblingsKept
CHECK_DEADLOCK FALSE
