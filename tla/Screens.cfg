\* Two screens, two status changes.
SPECIFICATION Spec
CONSTANTS
  OrderIds = {o1}
  Users = {client, provider}
  Client = client
  Provider = provider
  Dates = {d1, d2}
  AskedDate = d1
  NoDate = NoDate
  NoOrder = NoOrder
  MaxClicks = 2
  Fetches = {f1}
  NotAsked = NotAsked
INVARIANTS TypeOK RefusedOnlyIfStale ConfirmsTheDateSeen OneRequestPerOrder
PROPERTY ScreensSettle
CHECK_DEADLOCK FALSE
