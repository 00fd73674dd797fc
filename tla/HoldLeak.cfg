\* No fault: the second request finds one of its seats taken.
CONSTANTS
  p1 = p1  p2 = p2  p3 = p3
  s1 = s1  s2 = s2  s3 = s3
  Request = {p1, p2}
  Seat = {s1, s2, s3}
  Want <- Crossing
  Nobody = Nobody
  Faults = {}
SPECIFICATION Spec
CHECK_DEADLOCK FALSE
INVARIANTS RefusedHoldsNothing
