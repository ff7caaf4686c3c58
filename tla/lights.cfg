SPECIFICATION LightsSpec
CONSTANTS
  WriteFaults = {}
  Overtake = FALSE
  LiveReload = FALSE
  Present = {"video"}
  Vsync = TRUE
  Faults = {"wait99"}
INVARIANTS
  StreamAligned
  RegisterFirst
PROPERTIES
  ClientSpec
  SessionContract
  LightsFollow
