\* Two bookings, on one hold or on two, and two ConfirmSeats calls in flight.
CONSTANTS
  Seat = {s1, s2}
  Owner = {o1}
  Token = {t1, t2}
  HoldKey = {k1, k2}
  ReleaseKey = {}
  Booking = {b1, b2}
  Call = {c1, c2}
  SweepBatch = 1
  Free = Free
  Blocked = Blocked
  NoToken = NoToken
  NoHold = NoHold
  NoBooking = NoBooking
SPECIFICATION Spec
SYMMETRY Symmetry
INVARIANTS
  ConfirmedSeatsAreBooked
  BookedAllOrNothing
PROPERTIES
  ImplementsLedger
