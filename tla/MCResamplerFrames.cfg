SPECIFICATION FramesSpec
CONSTANTS
  Rates = {2, 5, 7}
  TargetRate = 5
  Uint32Range = 32
  MaxFrames = 4
  MaxPlayed = 60
INVARIANT FramesAccountedFor
