SPECIFICATION VtSpec
CONSTANTS
  Present = {"video"}
  Vsync = TRUE
  Faults = {"wait99"}
  Buffers = {b1, b2}
  MaxAttempts = 3
  Quirk = TRUE
  DriverErrors = {}
PROPERTIES
  WaitsForChange
