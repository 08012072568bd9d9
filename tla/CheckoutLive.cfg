\* Two commands with two keys on one booking, under the fairness of timers and timeouts.
CONSTANTS
  Seat = {s1}
  Booking = {b1}
  Hold = {h1}
  Key = {k1, k2}
  Worker = {w1, w2}
  Call = {c1}
  LockLoss = FALSE
  Free = Free
  Blocked = Blocked
  NoHold = NoHold
  NoKey = NoKey
  NoBooking = NoBooking
  NoWorker = NoWorker
SPECIFICATION FairSpec
INVARIANTS
  PaymentsAreNotOvertaken
  ReleasesAreAccepted
PROPERTIES
  PendingIsResolved
  CancelledIsReleased
CHECK_DEADLOCK FALSE
