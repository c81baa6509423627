---------------------------- MODULE CcdProgress ----------------------------
(***************************************************************************)
(* The progress of the CCDs of a job, as its status shows it: each session *)
(* that was given a copy of a CCD reports 1/4 to 4/4 of it, and the        *)
(* coordinator merges what arrives from all of them.  A copy is resubmitted *)
(* while the first one is slow, and given again when a session breaks off. *)
(*                                                                         *)
(* The reports of a session about one CCD arrive in their order: download() *)
(* puts the first two before _process_ccd can put the others.              *)
(***************************************************************************)
EXTENDS Naturals

CONSTANTS
    ProgressCcds,
    ProgressSessions,
    Steps             \* of a CCD: the total of each report

ASSUME ProgressAssumption == Steps \in Nat \ {0}

VARIABLES
    openSessions,
    copiesGiven,      \* <<session, CCD>>
    reached,          \* the step of each copy
    arrived,          \* the step of the last report of it that arrived
    shownProgress     \* JobStatus.generate_single_fits_tiles

progressVars == <<openSessions, copiesGiven, reached, arrived, shownProgress>>

Pairs == ProgressSessions \X ProgressCcds
Progress(total, count) == [total |-> total, count |-> count]
NotShown == Progress(0, 0)

ProgressInit ==
    /\ openSessions = ProgressSessions /\ copiesGiven = {}
    /\ reached = [p \in Pairs |-> 0] /\ arrived = [p \in Pairs |-> 0]
    /\ shownProgress = [c \in ProgressCcds |-> NotShown]

-----------------------------------------------------------------------------
\* The ratios are compared; a total of 0 counts as 1 (`total or 1`).
TotalOf(p) == IF p.total = 0 THEN 1 ELSE p.total
Exceeds(p, q) == p.count * TotalOf(q) > q.count * TotalOf(p)

\* Mutant: what arrives last is shown.
LastOne(existing, incoming) == incoming

\* _merge_generate_progress
Merge(existing, incoming) ==
    IF existing = NotShown \/ Exceeds(incoming, existing) THEN incoming
    ELSE IF Exceeds(existing, incoming) THEN existing
    ELSE IF incoming.count >= existing.count THEN incoming ELSE existing

\* _record_assigned_ccd, before the ref is sent: setdefault.
AssignCopy(s, c) ==
    /\ s \in openSessions /\ <<s, c>> \notin copiesGiven
    /\ copiesGiven' = copiesGiven \union {<<s, c>>}
    /\ shownProgress' = IF shownProgress[c] # NotShown THEN shownProgress
                        ELSE [shownProgress EXCEPT ![c] = Progress(Steps, 0)]
    /\ UNCHANGED <<openSessions, reached, arrived>>

\* The pipeline of the session goes on with its copy, and puts a report.
Report(s, c) ==
    /\ s \in openSessions /\ <<s, c>> \in copiesGiven /\ reached[<<s, c>>] < Steps
    /\ reached' = [reached EXCEPT ![<<s, c>>] = @ + 1]
    /\ UNCHANGED <<openSessions, copiesGiven, arrived, shownProgress>>

\* _handle_generator_message: the next report of the copy.
ReceiveProgress(s, c) ==
    /\ s \in openSessions /\ arrived[<<s, c>>] < reached[<<s, c>>]
    /\ arrived' = [arrived EXCEPT ![<<s, c>>] = @ + 1]
    /\ shownProgress' = [shownProgress EXCEPT
                            ![c] = Merge(@, Progress(Steps, arrived[<<s, c>>] + 1))]
    /\ UNCHANGED <<openSessions, copiesGiven, reached>>

\* The connection breaks, with what is on its way.
SessionBreaks(s) ==
    /\ s \in openSessions
    /\ openSessions' = openSessions \ {s}
    /\ UNCHANGED <<copiesGiven, reached, arrived, shownProgress>>

ProgressNext ==
    \E s \in ProgressSessions :
        \/ SessionBreaks(s)
        \/ \E c \in ProgressCcds : AssignCopy(s, c) \/ Report(s, c) \/ ReceiveProgress(s, c)

ProgressSpec == ProgressInit /\ [][ProgressNext]_progressVars

-----------------------------------------------------------------------------
(* Properties. *)

\* The state has its types; nothing arrives that was not reported.
ProgressTypeOK ==
    /\ openSessions \subseteq ProgressSessions /\ copiesGiven \subseteq Pairs
    /\ reached \in [Pairs -> 0 .. Steps] /\ arrived \in [Pairs -> 0 .. Steps]
    /\ \A p \in Pairs : arrived[p] <= reached[p] /\ (p \notin copiesGiven => reached[p] = 0)
    /\ shownProgress \in
          [ProgressCcds -> {NotShown} \union [total : {Steps}, count : 0 .. Steps]]

\* "Keep per-CCD progress monotonic when the same CCD is resubmitted": what is shown
\* of a CCD is the furthest that any of its copies has reported, and some copy has
\* reported it, however the reports of the copies interleave and whichever session
\* breaks off (_merge_generate_progress).
FurthestIsShown ==
    \A c \in ProgressCcds :
        /\ \A s \in ProgressSessions : arrived[<<s, c>>] <= shownProgress[c].count
        /\ shownProgress[c].count > 0 =>
              \E s \in ProgressSessions : arrived[<<s, c>>] = shownProgress[c].count

\* What the run checks of the progress: the types, and the property.
ProgressInv == ProgressTypeOK /\ FurthestIsShown
=============================================================================
