\* Is the picture that is rendered that of the frame that is due?
CONSTANTS
  MaxAudio = 4
  MaxPts = 3
  MaxSeeks = 0
  Modes = {"vod"}
  Toggles = {}
SPECIFICATION Spec
PROPERTIES OwnPicture
