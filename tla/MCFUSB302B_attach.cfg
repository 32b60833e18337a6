SPECIFICATION FairSpec
CONSTANTS
  Faults = {}
  ConfigVoltage = 20
  Voltages = {9}
  QueueLength = 5
  SourceCaps <- MCCapsBoth
  CcLines = {1}
  Unsolicited = {}
  MaxPlugs = 1
  MaxReboots = 1
  MaxExtras = 0
  MaxRequests = 0
INVARIANTS
  AmpModeMatchesContract
PROPERTIES
  AttachSettles
  DetachNoticed
