--------------------------- MODULE MCOtpLifecycle ---------------------------
(* Small instances of OtpLifecycle for TLC. *)
EXTENDS OtpLifecycle, TLC

\* Phones and codes are interchangeable; no liveness is checked.
Symmetry == Permutations(Phones) \cup Permutations(Codes)

=============================================================================
