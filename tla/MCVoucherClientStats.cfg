CONSTANTS
  Windows = {1, 2}
  MaxAttempts = 2
  StoredBaselines = {1}
  Reports = {0, 2}
  MaxRequests = 3
  MaxStreams = 0
  MaxFrames = 0
  FrameKinds = {}
  MaxDisputes = 0
  Modes = {"mpp-session"}
  Scopes = {"stream"}
  Providers = {"any"}
  Talkative = {}
SPECIFICATION ProvidersSpec
INVARIANT StatsReflectConsumed
CHECK_DEADLOCK FALSE
