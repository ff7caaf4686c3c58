SPECIFICATION Spec
CONSTANTS
  Addresses = {"", "host"}
  Names = {"name"}
  MayOmit = {"address", "autostart", "included_apps", "adjustments"}
  CrashPoints = {"idle", "save", "write", "unlink", "symlink", "reply"}
  Faults = {"save", "link"}
INVARIANTS
  TypeOK
  
PROPERTIES
  AcknowledgedLink
