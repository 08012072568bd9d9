\* Two holds on two seats, under the fairness of Redis and of the sweeper.
CONSTANTS
  Seat = {s1, s2}
  Owner = {o1}
  Token = {t1, t2}
  HoldKey = {k1, k2}
  ReleaseKey = {}
  Booking = {b1}
  Call = {c1}
  SweepBatch = 1
  Free = Free
  Blocked = Blocked
  NoToken = NoToken
  NoHold = NoHold
  NoBooking = NoBooking
SPECIFICATION FairSpec
PROPERTY
  EveryHoldIsSwept
