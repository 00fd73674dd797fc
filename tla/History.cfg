\* Two pages of one booking each and a customer with one page, four loads, two visits.
CONSTANTS
  alice = alice
  bob = bob
  b1 = b1
  b2 = b2
  b3 = b3
  None = None
  User <- TwoUsers
  Bookings <- TwoHistories
  PageSize = 1
  MaxLoads = 4
  MaxRefunds = 1
  MaxVisits = 2
SPECIFICATION Spec
CHECK_DEADLOCK FALSE
INVARIANTS ListIsThePage RefundIsShown PaidBackOnceToOwner
