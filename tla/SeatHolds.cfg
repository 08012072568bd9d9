\* Two owners, two keys each and two holds compete; one call can confirm.
CONSTANTS
  Seat = {s1, s2}
  Owner = {o1, o2}
  Token = {t1, t2}
  HoldKey = {k1, k2}
  ReleaseKey = {r1}
  Booking = {b1}
  Call = {c1}
  SweepBatch = 1
  Free = Free
  Blocked = Blocked
  NoToken = NoToken
  NoHold = NoHold
  NoBooking = NoBooking
SPECIFICATION Spec
SYMMETRY Symmetry
INVARIANTS
  TypeOK
  LiveHoldsOwnTheirSeats
  OneLiveHoldPerKey
