SPECIFICATION Spec
CONSTANTS
  Present = {"ui", "video"}
  Vsync = FALSE
  Faults = {"start"}
INVARIANTS
  FailedStartReinitialised
