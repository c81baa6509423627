--------------------------- MODULE MCStatusRelay ---------------------------
(* StatusRelay with a job of the visit, an update of another visit between, *)
(* and a fault.                                                            *)
EXTENDS StatusRelay
============================================================================
