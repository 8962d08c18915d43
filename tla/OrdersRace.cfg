\* Requests on one order interleave freely.
SPECIFICATION Spec
CONSTANTS
  OrderIds = {o1}
  Users = {u1, u2}
  Dates = {d1, d2}
  Requests = {r1, r2, r3, r4}
  NoDate = NoDate
  NoRow = NoRow
SYMMETRY Interchangeable
INVARIANTS TypeOK Consent DateWasAgreed EventsTellTheTruth
PROPERTY SettledIsFinal
\* Every request is handled once: when all are over the model stops.
CHECK_DEADLOCK FALSE
