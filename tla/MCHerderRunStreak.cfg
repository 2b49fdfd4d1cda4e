CONSTANTS
  Units = 2
  DockerFailureLimit = 3
  MaxBoots = 1
  Restartable = {}
  None = None
SPECIFICATION Spec
INVARIANT UnavailableMeansConsecutive
CHECK_DEADLOCK FALSE
