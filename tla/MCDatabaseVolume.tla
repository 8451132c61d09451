-------------------------- MODULE MCDatabaseVolume --------------------------
(* Three runs of the scripts: an up, a down and a later migration, or a     *)
(* retry in place of one of them, with two checksums.                       *)
EXTENDS DatabaseVolume, TLC

Symmetry == Permutations(Runs) \cup Permutations(Checksums)
=============================================================================
