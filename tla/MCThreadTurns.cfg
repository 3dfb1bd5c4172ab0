CONSTANTS
  Typed = {m1}
  Dispatched = {d1}
  Foreign = {f1}
  Asks = {k1}
  NoMessage = NoMessage
  NoAsk = NoAsk
  MaxTurns = 2
  MaxCrashes = 2
SPECIFICATION FairSpec
CHECK_DEADLOCK FALSE
INVARIANTS TypeOK OneTurn NoClaimLeft ArchivedStops LineFollows CardsAreHeard
PROPERTIES KeepsLine TurnsEnd
