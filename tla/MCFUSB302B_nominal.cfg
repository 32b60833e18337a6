SPECIFICATION Spec
CONSTANTS
  Faults = {"dup", "reject"}
  ConfigVoltage = 20
  Voltages = {9}
  QueueLength = 5
  SourceCaps <- MCCapsBoth
  CcLines = {1}
  Unsolicited = {"SOFT_RESET", "GET_SINK_CAP", "SOURCE_CAP", "VENDOR_DEFINED", "GET_STATUS"}
  MaxPlugs = 0
  MaxReboots = 0
  MaxExtras = 1
  MaxRequests = 0
INVARIANTS
  FreshMessageIds
  RequestOnlyWhenAsked
  NoLostWakeup
  NoStrandedMessage
PROPERTIES
  TimeoutOnlyWithoutPd
