CONSTANTS
  phone = phone
  mac = mac
  other = other
  Macs <- TwoMacs
  Requests <- TurnAndCapture
  Approvals = {}
  Tokens = {1, 2, 3}
  Limit = 2
  MaxPending = 1
  MaxOpen = 1
  Ttl = 1
  Retention = 1
  MaxPosition = 3
  Perils = {"create", "poll", "cancel", "pull", "claim", "ack", "apply", "restart"}
  MaxAsks = 1
  MaxAccidents = 2
SPECIFICATION Spec
INVARIANTS TypeOK CancelledStaysAway
PROPERTIES LoggedRunsNoMore
