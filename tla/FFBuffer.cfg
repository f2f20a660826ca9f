\* A source with audio and video, with a jump of its time stamps, sought or opened again once.
CONSTANTS
  MinTime = 1
  MaxTime = 1
  Chosen = FALSE
  CachingTime = 1
  Gap = 2
  Present = {"audio", "video"}
  Positions = {1}
  MaxDts = 4
  MaxSent = 2
  MaxClears = 1
SPECIFICATION LiveSpec
INVARIANTS TypeOK StaleOnlyHeld
PROPERTIES InOrder EndLosesOnlyHeld FullBufferPlays Drains
