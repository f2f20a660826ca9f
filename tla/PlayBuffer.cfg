\* Interleavings of the engine thread, the device thread and the application.  A pause of the
\* video acts on RenderTake as the background does; one of both streams only keeps the device
\* from taking audio, which nothing obliges it to do.
CONSTANTS
  MaxAudio = 4
  MaxPts = 2
  MaxSeeks = 1
  Modes = {"vod"}
  Toggles = {"background"}
SPECIFICATION LiveSpec
INVARIANTS TypeOK Bounded VideoSorted 
PROPERTIES AheadOnlyIfTorn RoomForVideo
