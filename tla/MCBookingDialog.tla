---------------------------- MODULE MCBookingDialog ----------------------------
(* Instances of BookingDialog for TLC.                                     *)
EXTENDS BookingDialog, TLC

CONSTANTS d1, d2, o1, o2, s1, s2, s3

\* Bound: dialogs, orders and login overlays together.  Dialogs and orders are
\* interchangeable and used in one sequence; one fault of the servers, at the first order, and
\* an order answered falsely is the only one.
ThreeParties ==
  /\ Cardinality({d \in Dialog : ui[d] # "unused"}) + Cardinality({o \in Order : order[o] # NoOrder})
     + login.loading + login.shown <= 3
  /\ ui[d2] # "unused" => ui[d1] # "unused"
  /\ order[o2] # NoOrder => order[o1] # NoOrder
  /\ o2 \notin denied /\ marked[o2] # "failed"
  /\ denied # {} => marked[o1] # "failed" /\ order[o2] = NoOrder

\* The two free seats are interchangeable.
FreeSeatsSymmetry == Permutations({s1, s2})

=============================================================================
