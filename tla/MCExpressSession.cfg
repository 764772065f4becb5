SPECIFICATION FairSpec
CONSTANTS
  MaxVouchers = 2
  Deletes = {d1, d2}
  Bodies <- MCBodies
  IdleTimeout = TRUE
  Vault = TRUE
  MaxRestarts = 1
INVARIANTS SettlementCoversServed ReportsMatchChain
PROPERTIES OpenSessionIsFlagged
CHECK_DEADLOCK FALSE
