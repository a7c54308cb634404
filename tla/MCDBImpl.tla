------------------------------ MODULE MCDBImpl ------------------------------
(* Instances of DBImpl for TLC.                                            *)
EXTENDS DBImpl

Symmetry == Permutations(Calls)

=============================================================================
