\* One booking, two confirmations in flight: does a released seat stay free?
CONSTANTS
  Seat = {s1}
  Booking = {b1}
  Hold = {h1}
  Key = {k1}
  Worker = {w1}
  Call = {c1, c2}
  LockLoss = FALSE
  Free = Free
  Blocked = Blocked
  NoHold = NoHold
  NoKey = NoKey
  NoBooking = NoBooking
  NoWorker = NoWorker
SPECIFICATION Spec
INVARIANT
  AcknowledgedSeatsStayFree
CHECK_DEADLOCK FALSE
