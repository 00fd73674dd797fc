\* Two bookings of one client on two seats, four read requests, three datasets.
CONSTANTS
  o1 = o1  o2 = o2  s1 = s1  s2 = s2
  q1 = q1  q2 = q2  q3 = q3  q4 = q4
  Seat = {s1, s2}
  Order = {o1, o2}
  Request = {q1, q2, q3, q4}
  MaxGen = 3
  Kinds = {"concert", "theater"}
  Faults = {"read"}
SPECIFICATION Spec
CHECK_DEADLOCK FALSE
SYMMETRY Symmetry
CONSTRAINT Bounds
INVARIANTS OwnSeatsAreShown OfferedHasFreeSeat CountMatchesMap
