\* Liveness of a recording that is sought, replayed and stopped at any point.
CONSTANTS
  Kinds = {"vod"}
  Toggles = {"seek", "replay"}
  MaxCloses = 0
SPECIFICATION LiveSpec
PROPERTIES StopReturns EndIsClosed NeverSilentlyClosed
