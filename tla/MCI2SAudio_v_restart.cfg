SPECIFICATION FairSpec
CONSTANTS
  Speakers = {"tas2780"}
  Faults = {}
  MaxFaults = 0
  DMA_BUFFERS_COUNT = 1
  RingSize = 1
  Requests = {}
  MaxPlays = 1
  MaxRequests = 0
  MAX_LISTENERS = 2
  MaxListens = 2
PROPERTY MicCanRestart
CHECK_DEADLOCK FALSE
