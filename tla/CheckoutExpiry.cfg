\* One booking, one command at a time: can expiry overtake a confirmation in flight?
CONSTANTS
  Seat = {s1}
  Booking = {b1}
  Hold = {h1}
  Key = {k1}
  Worker = {w1}
  Call = {c1}
  LockLoss = FALSE
  Free = Free
  Blocked = Blocked
  NoHold = NoHold
  NoKey = NoKey
  NoBooking = NoBooking
  NoWorker = NoWorker
SPECIFICATION Spec
INVARIANT
  ExpiryNeverOvertakesConfirmation
CHECK_DEADLOCK FALSE
