SPECIFICATION Spec
CONSTANTS
  Adjustments = {"hdr", "hdr10", "sdr"}
  Instances = 3
  Faults = {"rpc", "outage", "replace"}
INVARIANTS
  TypeOK
  RightDaemon
  SuccessReachesAll
