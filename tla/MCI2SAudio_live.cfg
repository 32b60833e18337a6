SPECIFICATION FairSpec
CONSTANTS
  Speakers = {"tas2780", "pcm5122"}
  Faults = {}
  MaxFaults = 0
  DMA_BUFFERS_COUNT = 2
  RingSize = 1
  Requests = {"stop", "finish", "switch"}
  MaxPlays = 2
  MaxRequests = 1
  MAX_LISTENERS = 2
  MaxListens = 1
 
PROPERTY StopsInTheEnd
CHECK_DEADLOCK FALSE
