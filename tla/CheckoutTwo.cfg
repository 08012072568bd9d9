\* Two bookings made from one hold: payment, confirmation and expiry.
CONSTANTS
  Seat = {s1}
  Booking = {b1, b2}
  Hold = {h1}
  Key = {k1}
  Worker = {w1}
  Call = {c1, c2}
  LockLoss = FALSE
  Free = Free
  Blocked = Blocked
  NoHold = NoHold
  NoKey = NoKey
  NoBooking = NoBooking
  NoWorker = NoWorker
SPECIFICATION Spec
SYMMETRY Symmetry
INVARIANTS
  PaidSeatsAreBooked
  SoldSeatsAreCharged
PROPERTY
  ImplementsLifecycle
CHECK_DEADLOCK FALSE
