\* Two GETs of one pod next to the bookings of a show; deletions get lost, Redis
\* fails, holds and reserved set expire, the cache is rebuilt.
CONSTANTS
  onePod = onePod  t1 = t1  t2 = t2
  s1 = s1  s2 = s2
  Reader = {t1, t2}
  PodOf <- SamePod
  Show = {w1}
  Seat = {s1, s2}
  All = All  Missing = Missing  Free = Free
  Faults = {"redis", "ttl", "flush"}
SPECIFICATION FairSpec
CHECK_DEADLOCK FALSE
CONSTRAINT Bounds
INVARIANTS BookedShownUnlessTorn
PROPERTIES
  FilledOnce
  EveryGetEnds
