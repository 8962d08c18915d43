\* One order, confirmed, with a client who looks on.
SPECIFICATION Spec
CONSTANTS
  OrderIds = {o1}
  Users = {client, provider}
  Client = client
  Provider = provider
  Dates = {d1}
  AskedDate = d1
  NoDate = NoDate
  NoOrder = NoOrder
  MaxClicks = 1
  Fetches = {f1}
  NotAsked = NotAsked
PROPERTY PaymentShown
CHECK_DEADLOCK FALSE
