CONSTANTS
  p1 = p1
  p2 = p2
  Admins = {a1, a2}
  Keys = {k1, k2}
  Payees = {p1, p2}
  Hashes = {h1, h2}
  Caps = {0, 1, 2}
  Amounts <- MCAmounts
  NoAdmin = NoAdmin
  Genesis = Genesis
  Expiries = {3, 4}
  MaxI128 = 2
  MaxU32 = 6
  MaxSpendLedger = 4
  DAY = 2
  UPGRADE_TIMELOCK_LEDGERS = 2
  INSTANCE_TTL_THRESHOLD = 3
  INSTANCE_TTL_EXTEND_TO = 3
  RestoreTTL = 1
  MaxBatch = 2
  MaxPaid = 3
SYMMETRY PayeeSymmetry
CONSTRAINT Focus
SPECIFICATION Spec
INVARIANTS TypeOK CountersAreExact NoticeOutlivesArchival
PROPERTIES PaymentsWithinCaps UpgradeOnlyAfterNotice
