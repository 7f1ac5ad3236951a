------------------------------ MODULE MCVault ------------------------------
(* Model-checking instance of Vault: the audits and the passphrases are    *)
(* interchangeable.                                                        *)
EXTENDS Vault, TLC

Symmetry == Permutations(Ids) \cup Permutations(Passes)

=============================================================================
