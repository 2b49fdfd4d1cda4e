\* A controller that may answer anything, two real keys and a malformed one.
CONSTANTS
  DefaultKey = DefaultKey
  Keys = {k1, k2}
  MalformedKeys = {bad}
  URLs = {u0}
  BootURL = u0
  CfgVersions = {"0", "v1"}
  Tables = {radio}
  Versions = {fw0}
  BootVersion = fw0
  Intervals = {i0}
  BootInterval = i0
  MaxUptime = 0
  None = None
SPECIFICATION FairSpec
INVARIANTS TypeOK LayersAgree ResetForgets
PROPERTIES RealKeyIsKept RekeyLeavesConnected MalformedKeyIsTerminal KeepsPromise StopsAfterCancel
CHECK_DEADLOCK FALSE
