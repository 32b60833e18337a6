SPECIFICATION Spec
CONSTANTS
  Faults = {"i2c", "spawn", "early_plug", "glitch"}
  ConfigVoltage = 20
  Voltages = {9}
  QueueLength = 1
  SourceCaps <- MCCapsPd
  CcLines = {1, 2}
  Unsolicited = {}
  MaxPlugs = 0
  MaxReboots = 0
  MaxExtras = 0
  MaxRequests = 1
INVARIANTS
  TypeOK
  OneSoftResetPerAttach
CHECK_DEADLOCK FALSE
