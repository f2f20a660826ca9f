\* All interleavings of one pusher with every setting the application changes.
CONSTANTS
  UrlKinds = {"rtmp", "other"}
  Toggles = {"mic", "custom", "pause"}
SPECIFICATION Spec
INVARIANTS TypeOK UsersHavePusher StoppedIsClean AttachedWhenWanted AtMostOneEarlyPacket
PROPERTY StatusPromise
