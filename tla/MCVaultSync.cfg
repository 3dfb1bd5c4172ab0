CONSTANTS
  Lines = {top, end}
  Absent = Absent
  MaxRows = 2
  Scenes <- MCScenes
SPECIFICATION Spec
SYMMETRY Symmetry
CHECK_DEADLOCK FALSE
INVARIANTS
  TypeOK
  NothingLost
  NoSelfCopy
  TurnsOwnWrites
PROPERTIES
  SyncIsFresh
