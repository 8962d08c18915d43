\* Callbacks about one order come one after the other.
SPECIFICATION SerialSpec
CONSTANTS
  OrderIds = {o1, o2}
  Replicas = {k1, k2}
  Refs = {p1, p2}
  Callbacks = {c1, c2, c3}
  MaxLog = 2
  MaxFailures = 1
  Nobody = Nobody
  NoOrder = NoOrder
  NoRef = NoRef
  NoPayment = NoPayment
SYMMETRY Interchangeable
INVARIANT AppliedOnce
PROPERTY ImplementsLedger
\* Every callback is handled once and the log is bounded: the model stops.
CHECK_DEADLOCK FALSE
