\* No accidents: two requests of one install, under two sign-ins, that the object runs in the other
\* order.
CONSTANTS
  Installs = {mac, air}
  Kinds = {"plain", "content"}
  Builds = {1}
  PushMax = 1
  PullLimit = 2
  MaxRounds = 1
  CredentialWriteFails = FALSE
  MaxEvents = 2
  MaxDevices = 3
  MaxAccidents = 0
  MaxVerified = 2
SPECIFICATION Spec
SYMMETRY Symmetry
CHECK_DEADLOCK FALSE
INVARIANTS
  GivenUpNeverStarted
