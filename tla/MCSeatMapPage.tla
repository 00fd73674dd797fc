---------------------------- MODULE MCSeatMapPage ----------------------------
(* Instances of SeatMapPage for TLC.                                       *)
EXTENDS SeatMapPage, TLC

CONSTANTS o1, o2, s1, s2, q1, q2, q3, q4

Symmetry == Permutations({o1, o2}) \union Permutations({s1, s2})

\* Requests are interchangeable: they are used in one sequence.  The histories are never
\* reset: where both claim an exception, no property says anything of what follows.
Bounds ==
  /\ request[q2] # Unused => request[q1] # Unused
  /\ request[q3] # Unused => request[q2] # Unused
  /\ request[q4] # Unused => request[q3] # Unused
  /\ Trusted \/ ~outdated

=============================================================================
