CONSTANTS
  phone = phone
  mac = mac
  other = other
  Macs <- OneMac
  Requests <- TurnAndAnswer
  Approvals <- TwoAsked
  Tokens = {1, 2}
  Limit = 2
  MaxPending = 1
  MaxOpen = 1
  Ttl = 1
  Retention = 0
  MaxPosition = 2
  Perils = {"ack", "open", "close", "choice"}
  MaxAsks = 2
  MaxAccidents = 1
SPECIFICATION Spec
INVARIANTS DeliveredIsTrue
PROPERTIES RequestsSettle MarkedIsTakenBack
