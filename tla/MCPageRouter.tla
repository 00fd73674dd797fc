------------------------------ MODULE MCPageRouter ------------------------------
(* Instances of PageRouter for TLC.                                        *)
EXTENDS PageRouter

FragileAssets == {Script("concert"), Style("concerts"), Style("account")}

=============================================================================
