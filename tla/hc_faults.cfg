SPECIFICATION FairSpec
CONSTANTS
  WriteFaults = {"fail", "partial"}
  Overtake = TRUE
  LiveReload = TRUE
INVARIANTS
  TypeOK
  RegisteredIsConfirmed
  SocketAccounted
  FreedAddressForgotten
PROPERTIES
  StopCompletes
  Reconnects
