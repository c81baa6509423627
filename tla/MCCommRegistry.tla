--------------------------- MODULE MCCommRegistry ---------------------------
(* Model-checking instance of CommRegistry: its parameters are given in the *)
(* configuration.  No symmetry, because it checks liveness.                 *)
EXTENDS CommRegistry
=============================================================================
