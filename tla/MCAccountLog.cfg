\* Two devices, three positions, two bodies: every batch of up to six entries.
CONSTANTS
  Devices = {d1, d2}
  Positions = {1, 2, 3}
  Bodies = {a, b}
  PushMax = 2
  MaxVerified = 1
SPECIFICATION Spec
SYMMETRY Symmetry
CHECK_DEADLOCK FALSE
INVARIANTS
  TypeOK
  SeqsAreDistinct
  DeviceOrder
  PurgedStaysEmpty
  RefusedPushStoresNothing
PROPERTIES
  ImplementsJournal
