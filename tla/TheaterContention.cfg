\* A request for two seats meets one for a seat of its own, one without a schedule, or
\* one for a seat outside the hall.  Handlers die, lose the database, fail to
\* acknowledge.
CONSTANTS
  r1 = r1  r2 = r2  r3 = r3  r4 = r4
  s1 = s1  s2 = s2  s3 = s3
  ghost = ghost
  Unlocked = Unlocked
  Ref = {r1, r2, r3, r4}
  Seat = {s1, s2, s3}
  Want <- Overlapping
  KnownSchedule = {r1, r2, r4}
  KnownUser = {r1, r2, r3, r4}
  MaxReceive = 2
  Faults = {"db", "crash", "delete"}
SPECIFICATION FairSpec
CHECK_DEADLOCK FALSE
CONSTRAINT Bounds
INVARIANTS
  RemainCountsBookings
  ClosedWhenExhausted
PROPERTIES
  ImplementsSeatSale
  EveryHandlerEnds
