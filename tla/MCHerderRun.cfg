\* Two units; the one that is polled last may be restarted.
CONSTANTS
  Units = 2
  DockerFailureLimit = 2
  MaxBoots = 2
  Restartable = {2}
  None = None
SPECIFICATION FairSpec
INVARIANTS
  TypeOK
  TerminalEventAlways
  EveryHandleTerminated
  StoppedMeansAsked
  EarnedFailureKept
PROPERTIES
  KeepsProtocol
  SignalEndsRun
  StartupEnds
  FaultEndsRun
CHECK_DEADLOCK FALSE
