\* One message under every fault, up to the dead-letter queue; its deliveries can
\* wait for each other's seats.
CONSTANTS
  r1 = r1  r2 = r2  r3 = r3  r4 = r4  r5 = r5
  s1 = s1  s2 = s2
  ghost = ghost
  Ref = {r1}
  Seat = {s1, s2}
  Want <- SameSeats
  KnownShow = {r1}
  KnownUser = {r1}
  MaxReceive = 2
  Faults = {"redis", "db", "delete", "crash", "slow", "ttl"}
SPECIFICATION FairSpec
CHECK_DEADLOCK FALSE
INVARIANTS AnsweredBeforeDeleted
PROPERTIES
  EveryMessageSettles
  EveryHandlerEnds
