\* A harness whose Check fails while an adoption is being waited for.
CONSTANTS
  d1 = d1
  d2 = d2
  Main = Main
  None = None
  Refused = Refused
  Addresses = {d1, d2}
  Callers = {Main}
  Lists <- MCLists
  Order <- MCOrder
  Dashed = {}
  MaxBoots = 0
SPECIFICATION Spec
PROPERTIES CheckEveryPoll
CHECK_DEADLOCK FALSE
