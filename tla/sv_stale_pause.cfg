SPECIFICATION Spec
CONSTANTS
  Apps = {app1, app2}
  Sources = {"start", "stop", "settings", "power", "video", "sensor"}
  StartMayFail = FALSE
INVARIANTS
  PowerOffPauses
SYMMETRY AppSymmetry
