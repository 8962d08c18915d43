\* Two replicas start on an empty table; two writes overlap; two orders are sent.
SPECIFICATION Spec
CONSTANTS
  ServiceIds = {s1, s2}
  Providers = {p, q}
  Unknown = Unknown
  Prices = {x, y}
  NoRow = NoRow
  Replicas = {r1, r2}
  MaxRequests = 2
  MaxRestarts = 1
SYMMETRY Symmetry
INVARIANTS TypeOK AsItsProviderSaid SeededTwiceOnlyTogether SecondOrderOnlyAfterError
PROPERTY RemovedStays
CHECK_DEADLOCK FALSE
