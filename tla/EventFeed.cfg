\* A rebalance or a crash between two replicas; the screen comes and goes.
SPECIFICATION Spec
CONSTANTS
  Partitions = {p1}
  Replicas = {r1, r2}
  MaxHistory = 2
  MaxPublished = 2
  MaxDisturbances = 1
  Nobody = Nobody
INVARIANTS TypeOK FeedComplete TwiceOnlyIfRead
PROPERTY EventsConsumed
\* The screen may be left alone for ever: the model stops.
CHECK_DEADLOCK FALSE
