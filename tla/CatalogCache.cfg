\* Reads and writes over a Redis that comes and goes.
SPECIFICATION Spec
CONSTANTS
  Readers = {r1, r2, r3}
  Writers = {w1, w2}
  MaxOutages = 2
SYMMETRY Interchangeable
INVARIANTS TypeOK FreshUnlessDegraded
\* Every request is handled once: when all are over the model stops.
CHECK_DEADLOCK FALSE
