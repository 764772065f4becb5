CONSTANTS
  MaxVouchers = 2
  Deletes = {}
  Bodies <- MCBodies
  IdleTimeout = FALSE
  StoreFailures = {"write"}
  MaxEvictions = 1
  Reconcilers = {"cron", "tool"}
  maxReconcileAttempts = 2
  MaxFaults = 1
SPECIFICATION FairRecoverySpec

PROPERTIES OrphansAreResolved
CHECK_DEADLOCK FALSE
