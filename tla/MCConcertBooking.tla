--------------------------- MODULE MCConcertBooking ---------------------------
(* Instances of ConcertBooking for TLC.                                    *)
EXTENDS ConcertBooking, TLC

CONSTANTS r1, r2, r3, r4, r5, s1, s2, ghost

\* Everyone wants the same two seats, except one request for a seat outside the hall.
SameSeats == [r \in Ref |-> IF r = r4 THEN {s1, ghost} ELSE {s1, s2}]

\* Requests for a single seat.
OneSeat == [r \in Ref |-> {s1}]

\* Bound: three deliveries in all, so that one message is redelivered while the
\* other is in progress.
FewDeliveries == receives[r1] + receives[r2] <= 3

\* Bound: any two of the requests meet.
TwoRequests == Cardinality({r \in Ref : api[r] # "new"}) <= 2

SeatSymmetry == Permutations({s1, s2})
SameSeatsSymmetry == Permutations({r1, r2}) \union SeatSymmetry

=============================================================================
