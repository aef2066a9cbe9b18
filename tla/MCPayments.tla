----------------------------- MODULE MCPayments -----------------------------
(* Small instances of Payments for TLC. *)
EXTENDS Payments, TLC

\* Customers, jobs, ids and request slots are interchangeable; no liveness is
\* checked.
Symmetry == Permutations(Customers) \cup Permutations(Jobs) \cup Permutations(Keys)
              \cup Permutations(GtxIds) \cup Permutations(EventIds)
              \cup Permutations(Requests)

=============================================================================
