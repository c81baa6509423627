---------------------------- MODULE MCTileStore ----------------------------
(* A packed tile of three positions: with one CCD, with two and with none. *)
EXTENDS TileStore, TLC

CONSTANTS c1, c2, p1, p2, p3, q1

MCCcdsAt == (p1 :> {c1}) @@ (p2 :> {c1, c2}) @@ (p3 :> {})
MCPackOf == (p1 :> q1) @@ (p2 :> q1) @@ (p3 :> q1)
Symmetry == Permutations(Generators)
=============================================================================
