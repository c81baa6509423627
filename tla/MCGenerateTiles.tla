-------------------------- MODULE MCGenerateTiles ---------------------------
(* Model-checking instance of GenerateTiles.                               *)
EXTENDS GenerateTiles, TLC

\* The generators are interchangeable; the CCDs are not (sorted submission).
Symmetry == Permutations(Generators)
=============================================================================
