CONSTANTS
  phone = phone
  mac = mac
  other = other
  Macs <- OneMac
  Requests <- TurnAndAnswer
  Approvals <- Asked
  Tokens = {1, 2, 3}
  Limit = 2
  MaxPending = 2
  MaxOpen = 1
  Ttl = 1
  Retention = 1
  MaxPosition = 3
  Perils = {"open", "restart"}
  MaxAsks = 2
  MaxAccidents = 1
SPECIFICATION Spec
PROPERTIES TakenBack
