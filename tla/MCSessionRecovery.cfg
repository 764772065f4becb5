CONSTANTS
  MaxVouchers = 2
  Deletes = {d1}
  Bodies <- MCBodies
  IdleTimeout = FALSE
  StoreFailures = {}
  MaxEvictions = 0
  Reconcilers = {"cron", "tool"}
  maxReconcileAttempts = 2
  MaxFaults = 0
SPECIFICATION RecoverySpec
INVARIANTS RecordedSettlementsAreReal
CHECK_DEADLOCK FALSE
