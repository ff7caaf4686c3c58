SPECIFICATION Spec
CONSTANTS
  Apps = {app1, app2}
  Sources = {"start", "stop", "settings", "power", "video", "sensor"}
  StartMayFail = FALSE
INVARIANTS
  TypeOK
  PausesRemembered
  PauseMeansStopped
  PowerOffStops
PROPERTIES
  PowerOnResumes
SYMMETRY AppSymmetry
