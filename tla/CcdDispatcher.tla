--------------------------- MODULE CcdDispatcher ---------------------------
(***************************************************************************)
(* The coordinator's CcdDispatcher: which CCD is handed to which generator *)
(* while the single-FITS tiles of one job are generated.                   *)
(*                                                                         *)
(* Every method that changes the dispatcher runs under its asyncio.Lock,   *)
(* so one method is one action.  The spec lets the callers (the workers of *)
(* GenerateTiles) call in any order, for any CCD that was handed out.      *)
(* The condition variable is left out: its waiters poll every second, so a *)
(* notification only makes them look sooner.  Timing profiles are left out *)
(* too.                                                                    *)
(***************************************************************************)
EXTENDS Integers, Sequences, FiniteSets

CONSTANTS
    NumCcds,      \* the number of CCDs of the visit
    Generators,   \* the ids of the generators
    NoGenerator,  \* "not completed yet" in owner
    MaxAttempts   \* resubmit_max_attempts_per_ccd; <= 0 disables resubmission

ASSUME NumCcdsAssumption == NumCcds \in Nat
ASSUME NoGeneratorAssumption == NoGenerator \notin Generators
ASSUME MaxAttemptsAssumption == MaxAttempts \in Int

VARIABLES
    remainingIndex,   \* phase 1: how many CCDs have been submitted
    submitted,        \* submissions in order: the generator, and whether too young
    owner,            \* first generator to complete each CCD
    phase2Index,      \* phase 2: where the round robin goes on (0-based)
    attempts,         \* how often each CCD was handed out
    activeGenerators, \* generators with a session
    allCompleted      \* the event the coordinator waits for

dispatcherVars == <<remainingIndex, submitted, owner, phase2Index, attempts,
                    activeGenerators, allCompleted>>

\* The CCDs in the sorted order of their names.
Ccds == 1..NumCcds

\* A CCD's metadata and its owner are recorded by one step, so `owner` stands
\* for both _ccd_metadata_dict and _ccd_generator_map.
Completed == {c \in Ccds : owner[c] # NoGenerator}

\* young: younger than resubmit_min_age_seconds.  Submission i is CCD i.
Submission == [generator : Generators, young : BOOLEAN]

DispatcherInit ==
    /\ remainingIndex = 0
    /\ submitted = <<>>
    /\ owner = [c \in Ccds |-> NoGenerator]
    /\ phase2Index = 0
    /\ attempts = [c \in Ccds |-> 0]
    /\ activeGenerators = {}
    /\ allCompleted = FALSE

-----------------------------------------------------------------------------
RecordGeneratorStart(g) ==
    /\ activeGenerators' = activeGenerators \union {g}
    /\ UNCHANGED <<remainingIndex, submitted, owner, phase2Index, attempts,
                   allCompleted>>

\* The submissions of g that are not completed look old from now on.  Only the
\* first submission of a CCD is recorded, so a CCD that g got by resubmission
\* keeps the age of that first one.
OnGeneratorLost(g) ==
    /\ activeGenerators' = activeGenerators \ {g}
    /\ submitted' = [i \in DOMAIN submitted |->
           IF submitted[i].generator = g /\ i \notin Completed
           THEN [submitted[i] EXCEPT !.young = FALSE]
           ELSE submitted[i]]
    /\ UNCHANGED <<remainingIndex, owner, phase2Index, attempts, allCompleted>>

-----------------------------------------------------------------------------
(* get_next_ccd: phase 1, phase 2, or no CCD.                              *)

Phase1 == Completed # Ccds /\ remainingIndex < NumCcds

Phase1Assign(g, c) ==
    /\ Phase1
    /\ c = remainingIndex + 1
    /\ remainingIndex' = remainingIndex + 1
    /\ submitted' = Append(submitted, [generator |-> g, young |-> TRUE])
    /\ attempts' = [attempts EXCEPT ![c] = @ + 1]
    /\ UNCHANGED <<owner, phase2Index, activeGenerators, allCompleted>>

\* Mutant: the attempt limit is off by one.
ResubmittableOneMore(c) ==
    /\ MaxAttempts > 0
    /\ c \in DOMAIN submitted
    /\ c \notin Completed
    /\ ~submitted[c].young
    /\ attempts[c] <= MaxAttempts + 1

Resubmittable(c) ==
    /\ MaxAttempts > 0
    /\ c \in DOMAIN submitted
    /\ c \notin Completed
    /\ ~submitted[c].young
    /\ attempts[c] <= MaxAttempts

\* How far the round robin walks from phase2Index to submission c.
Offset(c) == (c - 1 - phase2Index) % Len(submitted)

\* Mutant: the round robin does not move on.
Phase2ResubmitSticky(c) ==
    /\ remainingIndex >= NumCcds
    /\ Resubmittable(c)
    /\ \A d \in Ccds : Resubmittable(d) => Offset(c) <= Offset(d)
    /\ attempts' = [attempts EXCEPT ![c] = @ + 1]
    /\ UNCHANGED <<remainingIndex, submitted, owner, phase2Index,
                   activeGenerators, allCompleted>>

Phase2Resubmit(c) ==
    /\ remainingIndex >= NumCcds
    /\ Resubmittable(c)
    /\ \A d \in Ccds : Resubmittable(d) => Offset(c) <= Offset(d)
    /\ attempts' = [attempts EXCEPT ![c] = @ + 1]
    /\ phase2Index' = c % Len(submitted)
    /\ UNCHANGED <<remainingIndex, submitted, owner, activeGenerators, allCompleted>>

\* get_next_ccd(g) returns c.
GetNextCcd(g, c) == Phase1Assign(g, c) \/ Phase2Resubmit(c)

\* get_next_ccd returns None.
NoNextCcd == ~Phase1 /\ \A c \in Ccds : ~Resubmittable(c)

-----------------------------------------------------------------------------
\* Mutant: a later completion takes the CCD over.
OnCcdCompletedLastWins(c, g) ==
    /\ owner' = [owner EXCEPT ![c] = g]
    /\ allCompleted' = (allCompleted \/ Completed \union {c} = Ccds)
    /\ UNCHANGED <<remainingIndex, submitted, phase2Index, attempts, activeGenerators>>

\* Mutant: the completions are counted before the new one is stored.
OnCcdCompletedCountsEarly(c, g) ==
    /\ IF c \notin Completed
       THEN /\ owner' = [owner EXCEPT ![c] = g]
            /\ allCompleted' = (allCompleted \/ Completed = Ccds)
       ELSE UNCHANGED <<owner, allCompleted>>
    /\ UNCHANGED <<remainingIndex, submitted, phase2Index, attempts, activeGenerators>>

\* The first completion is adopted, a later one is discarded.
OnCcdCompleted(c, g) ==
    /\ IF c \notin Completed
       THEN /\ owner' = [owner EXCEPT ![c] = g]
            /\ allCompleted' = (allCompleted \/ Completed \union {c} = Ccds)
       ELSE UNCHANGED <<owner, allCompleted>>
    /\ UNCHANGED <<remainingIndex, submitted, phase2Index, attempts, activeGenerators>>

\* Mutant: the counter is decremented without a look at it.
ReturnUnassignedCcdUnchecked(c) ==
    /\ attempts' = IF c \notin Completed THEN [attempts EXCEPT ![c] = @ - 1] ELSE attempts
    /\ UNCHANGED <<remainingIndex, submitted, owner, phase2Index,
                   activeGenerators, allCompleted>>

ReturnUnassignedCcd(c) ==
    /\ attempts' = IF c \notin Completed /\ attempts[c] > 0
                   THEN [attempts EXCEPT ![c] = @ - 1]
                   ELSE attempts
    /\ UNCHANGED <<remainingIndex, submitted, owner, phase2Index,
                   activeGenerators, allCompleted>>

\* resubmit_min_age_seconds pass after submission i.
GrowOld(i) ==
    /\ i \in DOMAIN submitted
    /\ submitted[i].young
    /\ submitted' = [submitted EXCEPT ![i].young = FALSE]
    /\ UNCHANGED <<remainingIndex, owner, phase2Index, attempts,
                   activeGenerators, allCompleted>>

DispatcherNext ==
    \/ \E g \in Generators : RecordGeneratorStart(g) \/ OnGeneratorLost(g)
    \/ \E g \in Generators, c \in Ccds : GetNextCcd(g, c)
    \/ \E g \in Generators, c \in DOMAIN submitted : OnCcdCompleted(c, g)
    \/ \E c \in DOMAIN submitted : ReturnUnassignedCcd(c)
    \/ \E i \in Ccds : GrowOld(i)

\* A worker that waits for a CCD calls get_next_ccd again at least every second
\* (_wait_for_next_ccd), and time passes.
DispatcherFairness ==
    /\ WF_dispatcherVars(\E g \in Generators, c \in Ccds : GetNextCcd(g, c))
    /\ \A i \in Ccds : WF_dispatcherVars(GrowOld(i))

DispatcherSpec == DispatcherInit /\ [][DispatcherNext]_dispatcherVars
FairDispatcherSpec == DispatcherSpec /\ DispatcherFairness

-----------------------------------------------------------------------------
(* What the dispatcher promises.                                           *)

DispatcherTypeOK ==
    /\ remainingIndex \in 0..NumCcds
    /\ submitted \in Seq(Submission)
    /\ Len(submitted) = remainingIndex
    /\ owner \in [Ccds -> Generators \union {NoGenerator}]
    /\ phase2Index \in 0..NumCcds
    /\ attempts \in [Ccds -> Nat]
    /\ activeGenerators \subseteq Generators
    /\ allCompleted \in BOOLEAN

\* The coordinator is woken exactly when the last CCD is completed: not by a
\* duplicate completion, not one too early, and never not at all
\* (on_ccd_completed sets all_completed).  A visit without CCDs never wakes it.
CompletionIsExact == allCompleted <=> NumCcds > 0 /\ Completed = Ccds

\* The first time, and the resubmissions that resubmit_max_attempts_per_ccd allows.
AttemptCap == 1 + (IF MaxAttempts > 0 THEN MaxAttempts ELSE 0)

\* The runaway guard of get_next_ccd: whatever is resubmitted, returned or lost,
\* there are never more handings-out of a CCD that were not given back than once
\* plus resubmit_max_attempts_per_ccd.  How often it is handed out has no bound: each
\* return allows one more.
AttemptsBounded == \A c \in Ccds : attempts[c] <= AttemptCap

\* Phase 2 starts when phase 1 is over: while a CCD was never handed out, no
\* CCD is out twice, and a CCD never handed out has no attempts and no owner.
NoResubmitBeforeAllSubmitted ==
    \A c \in Ccds :
        /\ attempts[c] > 1 => remainingIndex = NumCcds
        /\ c > remainingIndex => attempts[c] = 0 /\ c \notin Completed

\* First completion wins: the generator that first completed a CCD stays its
\* owner, whatever a slower generator reports later (on_ccd_completed).
FirstCompletionWins ==
    [][\A c \in Completed : owner'[c] = owner[c]]_dispatcherVars

\* The round robin starves nobody: a CCD that stays resubmittable is handed out
\* again and again, even if the callers keep returning the others.
NoStarvation ==
    \A c \in Ccds :
        <>[](Resubmittable(c)) =>
            []<><<attempts'[c] = attempts[c] + 1>>_dispatcherVars
=============================================================================
