----------------------------- MODULE MCUserSession -----------------------------
(* Instances of UserSession for TLC.                                       *)
EXTENDS UserSession

OneAccount  == <<"p1">>

=============================================================================
