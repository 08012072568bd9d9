\* Two rows, two relays, two attempts: stalls, lost confirmations, crashes.
CONSTANTS
  Row = {r1, r2}
  Relay = {p1, p2}
  BatchSize = 2
  MaxAttempts = 2
  NoRow = NoRow
  NoRelay = NoRelay
SPECIFICATION FairSpec
INVARIANTS
  TypeOK
  OwnersRowsAreUnsettled
PROPERTIES
  ImplementsDelivery
  EveryRowIsSettled
CHECK_DEADLOCK FALSE
