------------------------------ MODULE MCStore ------------------------------
(* Model-checking instance of Store: audits and clients are interchangeable. *)
EXTENDS Store, TLC

Symmetry == Permutations(Ids) \cup Permutations(Clients)

=============================================================================
