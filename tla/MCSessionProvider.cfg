CONSTANTS
  MaxVouchers = 2
  Deletes = {d1}
  Bodies <- MCBodies
  IdleTimeout = TRUE
  StoreFailures = {"write"}
  MaxEvictions = 1
SPECIFICATION FairSpec
INVARIANTS ReportsAreVerified
PROPERTIES OpenSessionIsFlagged ImplementsChannel
CHECK_DEADLOCK FALSE
