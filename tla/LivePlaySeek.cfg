\* Two seeks close together.
CONSTANTS
  Kinds = {"vod"}
  Toggles = {"seek"}
  MaxCloses = 0
SPECIFICATION SourceSpec
PROPERTY SeekTakesEffect
