\* One kind of event, and a new credential that may not be kept.
CONSTANTS
  Installs = {mac, air}
  Kinds = {"plain"}
  Builds = {1}
  PushMax = 2
  PullLimit = 1
  MaxRounds = 2
  CredentialWriteFails = TRUE
  MaxEvents = 2
  MaxDevices = 3
  MaxAccidents = 1
  MaxVerified = 1
SPECIFICATION Spec
SYMMETRY Symmetry
CHECK_DEADLOCK FALSE
INVARIANTS
  PositionsIssuedOnce
