\* Two commands, two keys and lost locks on one booking: the release of its seats.
CONSTANTS
  Seat = {s1}
  Booking = {b1}
  Hold = {h1}
  Key = {k1, k2}
  Worker = {w1, w2}
  Call = {c1}
  LockLoss = TRUE
  Free = Free
  Blocked = Blocked
  NoHold = NoHold
  NoKey = NoKey
  NoBooking = NoBooking
  NoWorker = NoWorker
SPECIFICATION Spec
SYMMETRY Symmetry
INVARIANTS
  TypeOK
  OnlyCancelledIsReleased
  AcknowledgedIsReleased
CHECK_DEADLOCK FALSE
