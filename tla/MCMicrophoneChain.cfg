SPECIFICATION FairChainSpec
CONSTANTS
  Resampling = {TRUE, FALSE}
  MAX_LISTENERS = 2
  RingSize = 2
  Faults = {"create", "memory", "resample"}
  MaxListens = 4
  MaxFaults = 2
INVARIANT RawFollows
PROPERTY ImplementsMicrophone
PROPERTY ListenersAreHeard
PROPERTY ChainStops
CHECK_DEADLOCK FALSE
