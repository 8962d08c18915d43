\* Two replicas and overlapping callbacks.
SPECIFICATION Spec
CONSTANTS
  OrderIds = {o1}
  Replicas = {k1, k2}
  Refs = {p1, p2}
  Callbacks = {c1, c2, c3}
  MaxLog = 2
  MaxFailures = 2
  Nobody = Nobody
  NoOrder = NoOrder
  NoRef = NoRef
  NoPayment = NoPayment
SYMMETRY Interchangeable
INVARIANTS TypeOK OnePaymentPerOrder CommittedIsCharged SettledAsReported
PROPERTY SettledIsFinal
\* Every callback is handled once and the log is bounded: the model stops.
CHECK_DEADLOCK FALSE
