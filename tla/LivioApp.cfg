\* Calls that meet an expired token at once, over an unreliable connection,
\* while the person signs out and in.
SPECIFICATION Spec
CONSTANTS
  Calls = {c1, c2, n1, r}
  MaxExpiries = 1
  MaxDisturbances = 1
  SignIns = {n1}
  Restoring = r
INVARIANTS TypeOK SessionSurvives SignedOutStaysOut
PROPERTY WaitingEnds
\* A person who signed out for good, with all sign-ins made, stops the model.
CHECK_DEADLOCK FALSE
