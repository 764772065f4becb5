SPECIFICATION Spec
CONSTANTS
  c1 = c1
  c2 = c2
  r1 = r1
  r2 = r2
  stray = stray
  Calls = {c1, c2}
  Routes = {r1, r2}
  Paths = {r1, r2}
  NoCap = NoCap
  Nowhere = Nowhere
  Price <- MCPrice
  EndpointCap <- MCEndpointCap
  Payments <- MCPayments
  Requests <- MCRequests
  DailyCap = 2
  Stores = {"update"}
  MaxDays = 0
  SeenStores = {"memory", "supabase"}
  MaxEntries = 1
  MAX_SETTLEMENT_REPLAYS = 1
  MaxFaults = 1
  MaxAttempts = 2
  Strays = {stray}
SYMMETRY MCSymmetry
INVARIANTS ServedAtMost OnePaymentPerCall MovedIsCounted
CHECK_DEADLOCK FALSE
