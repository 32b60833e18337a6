SPECIFICATION FairSpec
CONSTANTS
  MaxInputs = 4
  MaxStarts = 1
INVARIANT RingStops
 
INVARIANT LedShowsState
PROPERTY StopWordEnds
PROPERTY DuckingEnds
PROPERTY SpeakerComesBack
CHECK_DEADLOCK FALSE
