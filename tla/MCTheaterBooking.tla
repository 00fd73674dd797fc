--------------------------- MODULE MCTheaterBooking ---------------------------
(* Instances of TheaterBooking for TLC.                                    *)
EXTENDS TheaterBooking, TLC

CONSTANTS r1, r2, r3, r4, s1, s2, s3, ghost

\* Two seats for r1 in a hall of three, one of them for r2, none in the hall for r4.
Overlapping ==
  [r \in Ref |-> CASE r = r1 -> {s1, s2} [] r = r4 -> {ghost} [] OTHER -> {s2}]

\* One seat for everyone.
OneSeat == [r \in Ref |-> {s1}]

\* Bounds: r1 and one other request, in three deliveries.
WithFirst == \A q, r \in Ref : api[q] # "new" /\ api[r] # "new" => q = r \/ r1 \in {q, r}
FewDeliveries == \A q, r \in Ref : q # r => receives[q] + receives[r] <= 3
Bounds == WithFirst /\ FewDeliveries

=============================================================================
