SPECIFICATION Spec
CONSTANTS
  MaxOptions = 3
  Faults = {"register", "start"}
INVARIANTS
  TypeOK
  ArgumentsOverwrite
PROPERTIES
  SignalEnds
CHECK_DEADLOCK FALSE
