-------------------------- MODULE MCCcdDispatcher --------------------------
(* Model-checking instance of CcdDispatcher: its parameters are given in    *)
(* the configuration.  No symmetry, because NoStarvation is a liveness      *)
(* property.                                                                *)
EXTENDS CcdDispatcher
=============================================================================
