\* All interleavings of one play task that is paused, sought, replayed and stopped,
\* with and without a start threshold.
CONSTANTS
  Kinds = {"vod", "live"}
  Toggles = {"pause", "seek", "replay", "cache"}
  MaxCloses = 2
SPECIFICATION Spec
INVARIANTS TypeOK LoadingAfterPlaying OneStopPerPlay StoppedIsEmpty
