CONSTANTS
  Units = 2
  DockerFailureLimit = 2
  MaxBoots = 1
  Restartable = {}
  None = None
SPECIFICATION FairSpec
PROPERTY AnyEarnedFailureKept
CHECK_DEADLOCK FALSE
