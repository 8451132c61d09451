------------------------ MODULE MCGeneratedArtifact ------------------------
(* Three runs: two that race and one that sees what they leave.  Two levels *)
(* of directories let a race for each end differently.                      *)
EXTENDS GeneratedArtifact, TLC

Symmetry == Permutations(Runs)
=============================================================================
