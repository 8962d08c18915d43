\* An order from its creation to its payment, both services failing at times.
SPECIFICATION MarketSpec
CONSTANTS
  OrderIds = {o1}
  Users = {u1, u2}
  Dates = {d1}
  Requests = {r1, r2, r3}
  NoDate = NoDate
  NoRow = NoRow
  Replicas = {k1}
  Refs = {p1, p2}
  MaxLog = 4
  MaxFailures = 1
  Nobody = Nobody
  NoOrder = NoOrder
  NoRef = NoRef
  NoPayment = NoPayment
INVARIANT ChargeHasConsent
PROPERTY ConfirmedIsChargedOrLost
\* Every request is handled once: when all are over the model stops.
CHECK_DEADLOCK FALSE
