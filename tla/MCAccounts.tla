----------------------------- MODULE MCAccounts -----------------------------
(* Small instances of Accounts for TLC. *)
EXTENDS Accounts, TLC

\* Phones, ids and request slots are interchangeable; no liveness is checked.
Symmetry == Permutations(Phones) \cup Permutations(NationalIds)
              \cup Permutations(Jtis) \cup Permutations(Requests)

=============================================================================
