SPECIFICATION LedgerSpec
CONSTANTS
  c1 = c1
  c2 = c2
  c3 = c3
  r1 = r1
  r2 = r2
  Calls = {c1, c2, c3}
  Routes = {r1, r2}
  NoCap = NoCap
  Price <- MCPrice
  EndpointCap <- MCEndpointCap
  DailyCap = 3
  Stores = {"update", "read-write"}
  MaxDays = 2
SYMMETRY MCSymmetry
INVARIANTS LedgerWithinCaps LedgerIsExact
CHECK_DEADLOCK FALSE
