\* Components that share no state, each on a small instance of its own.
CONSTANTS
  Search = {s1, s2}
  Admin = {a1}
  MaxVersion = 1
  MaxGeneration = 1
  NoEntry = NoEntry
  Caller = {c1, c2}
  MaxSession = 3
  NoCaller = NoCaller
  NoSession = NoSession
  Creator = {r1, r2}
  Profile = {p1, p2, p3}
  Label = {l1, l2, l3}
  ProfileLimit = 2
  NoLabel = NoLabel
  PaidEvent = {paid1}
  PaymentEvent = {attempt1}
  SearchEvent = {search1}
  InvalidEvent = {invalid1}
  Consumer = {m1, m2}
  MaxLog = 3
  NoConsumer = NoConsumer
  Ticket = {t1, t2}
  Desk = {d1, d2}
  CheckInKey = {k1, k2}
  NoTicket = NoTicket
  NoKey = NoKey
  NoDesk = NoDesk
  MaxPending = 1
  Fetch = {f1, f2}
  QueueLimit = 1
SPECIFICATION Spec
INVARIANTS
  TypeOK
  AcknowledgedChangesAreSeen
  OneLivePerFamily
  ReuseRevokesFamily
  LocksDoNotDeadlock
  ProfilesWithinLimit
  RevenueCountedOnce
  CommittedIsProjected
  CheckInAnswersAreTrue
  SettledMapIsTrue
PROPERTIES
  ImplementsFamilies
  ImplementsBoarding
  StaleEntriesVanish
  RefreshesEnd
  LagVanishes
CHECK_DEADLOCK FALSE
