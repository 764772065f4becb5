SPECIFICATION ProgramsSpec
CONSTANTS
  p1 = p1
  other = other
  h1 = h1
  h2 = h2
  k1 = k1
  s1 = s1
  ch1 = ch1
  alice = alice
  bob = bob
  Tools = {"pay", "sessions", "agent", "hooks", "feeds", "vault"}
  Callers <- MCCallers
  Anchor <- MCAnchor
  Options <- MCOptions
  Manifests <- MCManifests
  NoAnchor = NoAnchor
  NoBudget = NoBudget
  Absent = Absent
  Lifetimes = {0, 1}
  FetchTime = 1
  MaxVersions = 2
  MaxTime = 3
  MaxInvalidations = 1
  Payers = {p1}
  MaxAmount <- MCMaxAmount
  Handles = {h1, h2}
  Channels = {ch1}
  NoHandle = NoHandle
  Closers = {k1}
  Streamers = {s1}
  Deposits = {Absent, 1}
  Listings <- MCListings
  MaxMessages = 2
  MaxFailures = 1
  Programs = {"agent", "stress"}
  Opens = {o1, o2}
  CloseCalls = {c1, c2}
  PayCalls = {y1, y2}
  Nothing = Nothing
  Views = {"tx-feed", "sessions", "chart", "landing", "tx-log"}
  MaxEntries = 2
  MaxRows = 4
  MaxReads = 2
  MaxDrops = 2
  VaultPayments = {v1, v2, v3}
  VaultPayees = {alice, bob}
  VaultAllowed = {alice}
  NoPayee = NoPayee
  VaultPrices = {2}
  VaultCap = 2
  LedgersPerDay = 1
  ExpiryLedger = NoExpiry
  NoExpiry = NoExpiry
  MaxLedger = 1
INVARIANTS StalenessBounded InvalidatedIsNotReturned ExitZeroMeansSettled CompletedMeansSettled OpenIsClosedOnUnmount FeedHasNoGap ProvenWithinPolicy
PROPERTIES NeverAnOlderManifest ShutdownExits NeverGoesBack
CHECK_DEADLOCK FALSE
