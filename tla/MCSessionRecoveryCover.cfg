CONSTANTS
  MaxVouchers = 2
  Deletes = {d1}
  Bodies <- MCBodies
  IdleTimeout = FALSE
  StoreFailures = {}
  MaxEvictions = 0
  Reconcilers = {"cron"}
  maxReconcileAttempts = 2
  MaxFaults = 0
SPECIFICATION RecoverySpec
INVARIANT RecoveryCoversServed
CHECK_DEADLOCK FALSE
