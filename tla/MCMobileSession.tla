--------------------------- MODULE MCMobileSession ---------------------------
(* Instances of MobileSession for TLC. *)
EXTENDS MobileSession, TLC

=============================================================================
