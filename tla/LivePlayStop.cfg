\* The statuses of a task that is played to its end and stopped.
CONSTANTS
  Kinds = {"vod"}
  Toggles = {}
  MaxCloses = 0
SPECIFICATION Spec
INVARIANT StoppedIsLast
