\* A pusher with the microphone, under the fairness of its threads.
CONSTANTS
  UrlKinds = {"rtmp"}
  Toggles = {"mic"}
SPECIFICATION LiveSpec
PROPERTIES FailureIsRetried EngineReturns KeyFrameComes
