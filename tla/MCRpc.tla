------------------------------- MODULE MCRpc -------------------------------
(* Model-checking instance of Rpc: one pool with one process, two calls.   *)
EXTENDS Rpc

\* A stream of two values shows their order; of the items one is enough.
YieldsOf == [c \in Calls |-> IF c \in Consumers THEN 1 ELSE 2]
=============================================================================
