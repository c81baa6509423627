--------------------------- MODULE TileGeneration ---------------------------
(***************************************************************************)
(* What generate_single_fits_tiles_coordinator promises to the pipeline,   *)
(* without workers, sessions, resubmission or failures: every CCD gets one *)
(* owner, the job is complete only when all of them have one, and nothing  *)
(* is decided any more once the job is over.                               *)
(***************************************************************************)
EXTENDS Naturals

CONSTANTS NumCcds, Generators, NoGenerator

VARIABLES
    owner,   \* the generator whose tiles are used for each CCD
    outcome  \* of the job

vars == <<owner, outcome>>

Init ==
    /\ owner = [c \in 1..NumCcds |-> NoGenerator]
    /\ outcome = "idle"

\* The job starts, or fails because there is no generator.
Start ==
    /\ outcome = "idle"
    /\ outcome' \in {"running", "failed"}
    /\ UNCHANGED owner

Adopt(c, g) ==
    /\ outcome = "running"
    /\ owner[c] = NoGenerator
    /\ owner' = [owner EXCEPT ![c] = g]
    /\ UNCHANGED outcome

Complete ==
    /\ outcome = "running"
    /\ \A c \in 1..NumCcds : owner[c] # NoGenerator
    /\ outcome' = "completed"
    /\ UNCHANGED owner

Fail ==
    /\ outcome = "running"
    /\ outcome' = "failed"
    /\ UNCHANGED owner

Next ==
    \/ Start \/ Complete \/ Fail
    \/ \E c \in 1..NumCcds, g \in Generators : Adopt(c, g)

Spec == Init /\ [][Next]_vars
=============================================================================
