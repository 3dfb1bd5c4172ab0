CONSTANTS
  phone = phone
  mac = mac
  other = other
  Devices <- MCDevices
  Requests <- MCRequests
  Approvals <- MCApprovals
  Tokens = {1, 2}
  Limit = 2
  MaxPending = 2
  MaxOpen = 1
  Ttl = 1
  Retention = 1
  MaxPosition = 2
  MaxRevoked = 0
  MaxLate = 0
SPECIFICATION Spec
INVARIANTS RecordedIsTrue
