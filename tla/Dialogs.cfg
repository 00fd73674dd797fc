\* Two dialogs, two orders, one of three seats taken before; both kinds of dialog.
CONSTANTS
  d1 = d1  d2 = d2  o1 = o1  o2 = o2  s1 = s1  s2 = s2  s3 = s3
  Dialog = {d1, d2}
  Order = {o1, o2}
  Seat = {s1, s2, s3}
  Reserved = {s3}
  Remain = 1
  Kinds = {"concert", "theater"}
  MaxLogins = 1
  Nobody = Nobody
  Faults = {"network", "mark", "css", "worker"}
SPECIFICATION Spec
CHECK_DEADLOCK FALSE
SYMMETRY FreeSeatsSymmetry
CONSTRAINT ThreeParties
INVARIANTS NeverFrozen ToldTheTruth TryAgainIsSafe OneOrderAtATime ReportsWhatWasBooked OrdersAreValid
