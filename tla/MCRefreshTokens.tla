-------------------------- MODULE MCRefreshTokens --------------------------
(* Small instances of RefreshTokens for TLC. *)
EXTENDS RefreshTokens, TLC

\* Users, ids and request slots are interchangeable; no liveness is checked.
Symmetry == Permutations(Users) \cup Permutations(TokenIds)
              \cup Permutations(Families) \cup Permutations(Requests)

=============================================================================
