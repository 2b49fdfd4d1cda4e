\* Requests of up to three devices out of eight, two draws per generated address.
CONSTANTS
  None = None
  Broken = Broken
  upper3 = upper3
  wrong = wrong
  bad = bad
  serial = serial
  Models = {"USW", "UGW", "UXG", "NEW"}
  Profiles = {"USW", "UGW", "UXG"}
  Type <- MCType
  Addresses <- MCAddresses
  Spellings <- MCSpellings
  Canonical <- MCCanonical
  Wanted <- MCWanted
  MaxDevices = 3
  Local = {2, 3, 4}
  Malformed = {bad}
  Normalized <- MCNormalized
  RuntimeFiles <- MCRuntimeFiles
  MacRetries = 2
  Lists <- MCLists
  Single <- MCSingle
  MacSpace = 8
  MacBase = 6
  IpBase = 100
  LastIp = 102
SPECIFICATION Spec
INVARIANTS PlanTypeOK IdentitiesApart SuppliedKept PlannedOnce
  OneSourceDecides AddressesApart IdentityHandedOver RefusedForLittle
PROPERTIES PlanningEnds
CHECK_DEADLOCK FALSE
