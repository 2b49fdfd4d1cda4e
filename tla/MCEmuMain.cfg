\* Two devices, one restart, every MAC written as the controller writes it.
CONSTANTS
  d1 = d1
  d2 = d2
  Main = Main
  None = None
  Refused = Refused
  Addresses = {d1, d2}
  Callers = {Main}
  Lists <- MCLists
  Order <- MCOrder
  Dashed = {}
  MaxBoots = 1
SPECIFICATION Spec
INVARIANTS AllConnected OneAtATime DiagnosisTruthful
  ExitIsClean MarkerMeansLaunched NeverSilentlyPending
PROPERTIES BudgetEnds LandedAdoptSettles
CHECK_DEADLOCK FALSE
