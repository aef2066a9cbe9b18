---------------------------- MODULE MCCequensSms ----------------------------
(* Small instances of CequensSms for TLC.  No symmetry: liveness is checked. *)
EXTENDS CequensSms, TLC

=============================================================================
