SPECIFICATION FairSpec
CONSTANTS
  Present = {"ui", "video"}
  Vsync = TRUE
  Faults = {"wait99", "acquire99", "start"}
INVARIANTS
  TypeOK
  StopIsFinal
PROPERTIES
  StopCompletes
