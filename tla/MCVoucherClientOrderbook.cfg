CONSTANTS
  Windows = {1}
  MaxAttempts = 1
  StoredBaselines = {1}
  Reports = {0}
  MaxRequests = 2
  MaxStreams = 2
  MaxFrames = 2
  FrameKinds = {"text"}
  MaxDisputes = 0
  Modes = {"mpp-session-ws"}
  Scopes = {"stream"}
  Providers = {"orderbook"}
  Talkative = {}
SPECIFICATION FairOrderbookSpec
PROPERTIES PaidStreamYields
CHECK_DEADLOCK FALSE
