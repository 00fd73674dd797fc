\* Two customers after the same two seats; handlers overlap, die, and lose the
\* database; three deliveries in all.
CONSTANTS
  r1 = r1  r2 = r2  r3 = r3  r4 = r4  r5 = r5
  s1 = s1  s2 = s2
  ghost = ghost
  Ref = {r1, r2}
  Seat = {s1, s2}
  Want <- SameSeats
  KnownShow = {r1, r2}
  KnownUser = {r1, r2}
  MaxReceive = 2
  Faults = {"db", "crash", "slow"}
SPECIFICATION Spec
CHECK_DEADLOCK FALSE
SYMMETRY SameSeatsSymmetry
CONSTRAINT FewDeliveries
INVARIANTS
  NoDoubleSale
  AllOrNothing
  OneLiveBookingPerRef
  OkIsBacked
PROPERTIES ImplementsSeatSale
