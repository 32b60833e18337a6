SPECIFICATION Spec
CONSTANTS
  Speakers = {"tas2780", "pcm5122"}
  Faults = {"new_channel", "init", "enable", "task", "buffer"}
  MaxFaults = 1
  DMA_BUFFERS_COUNT = 2
  RingSize = 1
  Requests = {"stop", "finish", "switch", "stream", "pause", "has_buffered_data"}
  MaxPlays = 2
  MaxRequests = 2
  MAX_LISTENERS = 2
  MaxListens = 1
PROPERTY ImplementsMicrophone
INVARIANT ChannelHasOneOwner
INVARIANT MicReadsRunningChannel
PROPERTY FinishedMeansPlayed
PROPERTY OnlyAskedStops
CHECK_DEADLOCK FALSE
