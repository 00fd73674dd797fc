------------------------------ MODULE MCSeatHold ------------------------------
(* Instances of SeatHold for TLC.                                          *)
EXTENDS SeatHold, TLC

CONSTANTS p1, p2, p3, s1, s2, s3

\* Requests that meet pairwise, listing their seats in different orders.
Crossing ==
  [p \in Request |-> CASE p = p1 -> <<s1, s2>> [] p = p2 -> <<s3, s1>> [] p = p3 -> <<s2, s3>>]

\* The second request meets the first on one of its seats only.
Partial == (p1 :> <<s2>>) @@ (p2 :> <<s1, s2>>) @@ (p3 :> <<s1>>)

=============================================================================
