\* Pages of one row, and a new credential that may not be kept. No symmetry: the properties are temporal.
CONSTANTS
  Installs = {mac, air}
  Kinds = {"plain"}
  Builds = {1}
  PushMax = 1
  PullLimit = 1
  MaxRounds = 2
  CredentialWriteFails = TRUE
  MaxEvents = 2
  MaxDevices = 2
  MaxAccidents = 1
  MaxVerified = 1
SPECIFICATION FairSpec
CHECK_DEADLOCK FALSE
PROPERTIES
  Converges
  RevocationEnds
