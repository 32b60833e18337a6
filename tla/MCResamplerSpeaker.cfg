SPECIFICATION FairSpeakerSpec
CONSTANTS
  Resampling = {TRUE, FALSE}
  Faults = {"create", "memory", "resample", "output", "slow"}
  Requests = {"start", "stop", "finish", "pause"}
  RingSize = 2
  MaxPlays = 3
  MaxRequests = 2
  MaxFaults = 2
INVARIANT StateMatchesTask
PROPERTY EverythingAccepted
PROPERTY StopsInTheEnd
CHECK_DEADLOCK FALSE
