\* Requests on one order never overlap.
SPECIFICATION SerialSpec
CONSTANTS
  OrderIds = {o1}
  Users = {u1, u2}
  Dates = {d1, d2}
  Requests = {r1, r2, r3, r4, r5}
  NoDate = NoDate
  NoRow = NoRow
SYMMETRY Interchangeable
INVARIANT ConfirmedOnce
PROPERTY ImplementsLifecycle
\* Every request is handled once: when all are over the model stops.
CHECK_DEADLOCK FALSE
