CONSTANTS
  Windows = {1, 2}
  MaxAttempts = 2
  StoredBaselines = {1}
  Reports = {0, 2}
  MaxRequests = 3
  MaxStreams = 2
  MaxFrames = 3
  FrameKinds = {"text", "blob"}
  MaxDisputes = 1
  Modes = {"mpp-session", "mpp-session-ws"}
  Scopes = {"stream", "account"}
  Providers = {"any", "orderbook"}
  Talkative = {1}
SPECIFICATION ProvidersSpec
INVARIANTS NoCumulativeTwice ExposureBounded HttpOverrunBounded TextFramesInOrder SocketsReleased ReturnedIsApplied
PROPERTIES StreamsEnd
CHECK_DEADLOCK FALSE
