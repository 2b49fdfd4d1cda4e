\* A fleet one of whose MACs was written with dashes.
CONSTANTS
  d1 = d1
  d2 = d2
  Main = Main
  None = None
  Refused = Refused
  Addresses = {d1, d2}
  Callers = {Main}
  Lists <- MCLists
  Order <- MCOrder
  Dashed = {d1}
  MaxBoots = 0
SPECIFICATION Spec
INVARIANTS NeverListedMeansAbsent
CHECK_DEADLOCK FALSE
