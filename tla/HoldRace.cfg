\* Three requests that meet pairwise, under every fault.
CONSTANTS
  p1 = p1  p2 = p2  p3 = p3
  s1 = s1  s2 = s2  s3 = s3
  Request = {p1, p2, p3}
  Seat = {s1, s2, s3}
  Want <- Crossing
  Nobody = Nobody
  Faults = {"redis", "sqs", "ttl", "flush"}
SPECIFICATION Spec
CHECK_DEADLOCK FALSE
INVARIANTS
  AcceptedSeatsDisjoint
  ReservedShowsAccepted
  ReservedOnlyAccepted
PROPERTIES ReleaseTouchesOnlyOwn
