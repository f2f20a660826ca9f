\* Pausing a recording for longer than five seconds.
CONSTANTS
  Kinds = {"vod"}
  Toggles = {"pause"}
  MaxCloses = 0
SPECIFICATION Spec
INVARIANT EofIsReal
