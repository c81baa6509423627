------------------------ MODULE MCQuicklookLifecycle ------------------------
(* Model-checking instance of QuicklookLifecycle.                          *)
EXTENDS QuicklookLifecycle, TLC

Symmetry == Permutations(Jobs) \union Permutations(Generators)
=============================================================================
