\* delete_message may fail and nothing else: the duplicate check must absorb it.  Any
\* two requests of five meet; r3's show, r5's user and a seat of r4 are unknown.
CONSTANTS
  r1 = r1  r2 = r2  r3 = r3  r4 = r4  r5 = r5
  s1 = s1  s2 = s2
  ghost = ghost
  Ref = {r1, r2, r3, r4, r5}
  Seat = {s1, s2}
  Want <- SameSeats
  KnownShow = {r1, r2, r4, r5}
  KnownUser = {r1, r2, r3, r4}
  MaxReceive = 3
  Faults = {"delete"}
SPECIFICATION Spec
CHECK_DEADLOCK FALSE
SYMMETRY SameSeatsSymmetry
CONSTRAINT TwoRequests
INVARIANTS FailureMeansNotBooked
PROPERTIES ResultIsFinal
