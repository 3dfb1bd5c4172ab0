\* Two copies of the app: sign-ins, sign-outs, restarts, lost answers, events the older build
\* cannot read, content of turns, and events the contract refuses.
CONSTANTS
  Installs = {mac, air}
  Kinds = {"plain", "newer", "content", "oversize"}
  Builds = {1, 2}
  PushMax = 2
  PullLimit = 2
  MaxRounds = 2
  CredentialWriteFails = FALSE
  MaxEvents = 2
  MaxDevices = 2
  MaxAccidents = 1
  MaxVerified = 1
SPECIFICATION Spec
SYMMETRY Symmetry
CHECK_DEADLOCK FALSE
INVARIANTS
  TypeOK
  CursorHonest
  EndOfLogIsHeld
  LandsInOrder
  NothingTwice
  DroppedIsExact
  LogIsIssued
  NeverAtOdds
  PositionsIssuedOnce
