CONSTANTS
  Units = 1
  DockerFailureLimit = 2
  MaxBoots = 1
  Restartable = {}
  None = None
SPECIFICATION OpenRequestSpec
PROPERTY StartupEnds
CHECK_DEADLOCK FALSE
