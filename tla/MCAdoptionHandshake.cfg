\* A controller build that delivers keys by set-adopt or by mgmt_cfg.
CONSTANTS
  k1 = k1
  k2 = k2
  DefaultKey = DefaultKey
  Keys <- BothKeys
  MalformedKeys = {}
  URLs = {u0}
  BootURL = u0
  CfgVersions = {"0", "v1"}
  Tables = {}
  Versions = {fw0}
  BootVersion = fw0
  Intervals = {i0}
  BootInterval = i0
  MaxUptime = 0
  None = None
  Channels = {"set-adopt", "mgmt_cfg"}
  KeyOrder <- TwoKeys
  Configured = "v1"
SPECIFICATION HandshakeSpec
INVARIANT ControllerCanRead
PROPERTIES AdoptionCompletes AdoptionLasts
