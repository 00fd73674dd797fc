---------------------------- MODULE MCBookingHistory ----------------------------
(* Instances of BookingHistory for TLC.                                    *)
EXTENDS BookingHistory

CONSTANTS alice, bob, b1, b2, b3

TwoUsers == {alice, bob}

\* Two pages of one user, one of the other.
TwoHistories == [u \in TwoUsers |-> IF u = alice THEN <<b1, b2>> ELSE <<b3>>]

=============================================================================
