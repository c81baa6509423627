--------------------------- MODULE DownloadTimeout -------------------------
(***************************************************************************)
(* The downloads of a session (ccd_download.py): threads that each run one *)
(* download process and poll it, two attempts per CCD, and one timeout for *)
(* all of them, which is fixed at twice the median of the first downloads  *)
(* that succeed, and applies to those that already run.                    *)
(* Time is counted in ticks; a poll follows within the tick, so a download *)
(* is at most one tick late to be noticed.                                 *)
(***************************************************************************)
EXTENDS Integers, Sequences, FiniteSets, SequencesExt, FiniteSetsExt

CONSTANTS
    RefCcds,      \* numbered in the order of their refs
    Downloaders,  \* threads
    SlotsPerJob,  \* generator_max_concurrent_ccds_per_job
    Bootstrap,    \* ticks of _BOOTSTRAP_DOWNLOAD_TIMEOUT_SECONDS
    Attempts,     \* _MAX_DOWNLOAD_ATTEMPTS
    MaxErrors     \* bound: downloads that raise

ASSUME DownloadsAssumption ==
    /\ RefCcds \subseteq Nat /\ Downloaders \in Nat /\ SlotsPerJob \in Nat
    /\ Bootstrap \in Nat /\ Attempts \in Nat \ {0}

VARIABLES
    state,        \* of each CCD: "waiting", "running", "done", "failed" or "timedout"
    attemptOf,    \* of each CCD
    age,          \* ticks of the running attempt
    ticks,        \* of all attempts
    durations,    \* of the successes, in order: _durations
    limit         \* _timeout_seconds, or NoLimit

downloadsVars == <<state, attemptOf, age, ticks, durations, limit>>

NoLimit == -1
\* Half of the CCDs that the coordinator may have on a generator at a time.
SampleTarget == Max({(SlotsPerJob + 1) \div 2, 1})

CcdsIn(s) == {c \in RefCcds : state[c] = s}

\* The threads take the CCDs in the order of their refs.
FirstOf(cs) == IF cs = {} THEN {} ELSE {Min(cs)}

DownloadsInit ==
    /\ state = [c \in RefCcds |-> "waiting"] /\ attemptOf = [c \in RefCcds |-> 0]
    /\ age = [c \in RefCcds |-> 0] /\ ticks = [c \in RefCcds |-> 0]
    /\ durations = <<>> /\ limit = NoLimit

\* active_timeout_seconds: `a or b`, so a limit of 0 counts as none.
ActiveTimeout == IF limit \in {NoLimit, 0} THEN Bootstrap ELSE limit

\* What is at place k of the sorted durations.
NthOf(ds, k) ==
    CHOOSE x \in Range(ds) : /\ Cardinality({i \in DOMAIN ds : ds[i] < x}) < k
                              /\ Cardinality({i \in DOMAIN ds : ds[i] <= x}) >= k

\* 2 * statistics.median, which halves the sum of the two in the middle.
TwiceMedian(ds) ==
    LET m == Len(ds) \div 2
    IN  IF Len(ds) % 2 = 1 THEN 2 * NthOf(ds, m + 1) ELSE NthOf(ds, m) + NthOf(ds, m + 1)

StartDownload(c) ==
    /\ c \in FirstOf(CcdsIn("waiting")) /\ Cardinality(CcdsIn("running")) < Downloaders
    /\ state' = [state EXCEPT ![c] = "running"]
    /\ attemptOf' = [attemptOf EXCEPT ![c] = 1] /\ age' = [age EXCEPT ![c] = 0]
    /\ UNCHANGED <<ticks, durations, limit>>

\* record_success, under the lock.
RecordSuccess(d) ==
    /\ durations' = Append(durations, d)
    /\ limit' = IF limit # NoLimit \/ Len(durations') < SampleTarget THEN limit
                ELSE TwiceMedian(durations')

\* The process has ended well: only the last attempt is recorded.
DownloadEnds(c) ==
    /\ state[c] = "running"
    /\ state' = [state EXCEPT ![c] = "done"]
    /\ RecordSuccess(age[c])
    /\ UNCHANGED <<attemptOf, age, ticks>>

\* result() raises, or terminate() does: there is no second attempt.
DownloadRaises(c) ==
    /\ state[c] = "running" /\ Cardinality(CcdsIn("failed")) < MaxErrors
    /\ state' = [state EXCEPT ![c] = "failed"]
    /\ UNCHANGED <<attemptOf, age, ticks, durations, limit>>

\* Mutant: the clock of the first attempt runs on.
TimesOutKeepsClock(c) ==
    /\ state[c] = "running" /\ age[c] >= ActiveTimeout
    /\ IF attemptOf[c] >= Attempts
       THEN state' = [state EXCEPT ![c] = "timedout"] /\ UNCHANGED <<attemptOf, age>>
       ELSE /\ attemptOf' = [attemptOf EXCEPT ![c] = @ + 1]
            /\ UNCHANGED <<state, age>>
    /\ UNCHANGED <<ticks, durations, limit>>

\* A poll finds the time over: the process is terminated and the file removed,
\* and the download starts again, or fails.
DownloadTimesOut(c) ==
    /\ state[c] = "running" /\ age[c] >= ActiveTimeout
    /\ IF attemptOf[c] >= Attempts
       THEN state' = [state EXCEPT ![c] = "timedout"] /\ UNCHANGED <<attemptOf, age>>
       ELSE /\ attemptOf' = [attemptOf EXCEPT ![c] = @ + 1]
            /\ age' = [age EXCEPT ![c] = 0] /\ UNCHANGED state
    /\ UNCHANGED <<ticks, durations, limit>>

\* Time passes; no poll is overdue.
Tick ==
    /\ CcdsIn("running") # {} /\ \A c \in CcdsIn("running") : age[c] < ActiveTimeout
    /\ age' = [c \in RefCcds |-> IF state[c] = "running" THEN age[c] + 1 ELSE age[c]]
    /\ ticks' = [c \in RefCcds |-> IF state[c] = "running" THEN ticks[c] + 1 ELSE ticks[c]]
    /\ UNCHANGED <<state, attemptOf, durations, limit>>

DownloadsNext ==
    \/ Tick
    \/ \E c \in RefCcds :
          StartDownload(c) \/ DownloadEnds(c) \/ DownloadRaises(c) \/ DownloadTimesOut(c)
DownloadsSpec == DownloadsInit /\ [][DownloadsNext]_downloadsVars

-----------------------------------------------------------------------------
(* Properties. *)

\* The state has its types: no more downloads than threads, no attempt after the last.
DownloadsTypeOK ==
    /\ state \in [RefCcds -> {"waiting", "running", "done", "failed", "timedout"}]
    /\ Cardinality(CcdsIn("running")) <= Downloaders
    /\ attemptOf \in [RefCcds -> 0 .. Attempts]
    /\ age \in [RefCcds -> 0 .. 2 * Bootstrap] /\ ticks \in [RefCcds -> Nat]
    /\ durations \in Seq(Nat) /\ limit \in Nat \union {NoLimit}

\* The limit is fixed by the first SampleTarget downloads to succeed and is twice
\* their median: half of them took at most half of it and half of them at least;
\* what succeeds later does not move it (AdaptiveDownloadTimeout.record_success).
LimitFitsSample ==
    /\ (limit # NoLimit) <=> (Len(durations) >= SampleTarget)
    /\ limit # NoLimit =>
          LET sample == 1 .. SampleTarget IN
          /\ 2 * Cardinality({i \in sample : 2 * durations[i] <= limit}) >= SampleTarget
          /\ 2 * Cardinality({i \in sample : 2 * durations[i] >= limit}) >= SampleTarget

\* Of the timeout before the limit l and the one after it.
Shortest(l) == IF l > 0 THEN Min({l, Bootstrap}) ELSE Bootstrap
Longest(l) == IF l > 0 THEN Max({l, Bootstrap}) ELSE Bootstrap

\* A CCD is given up for time only after two whole attempts, each as long as the
\* timeout that was in force, whenever the limit was fixed; and none keeps a thread
\* for longer than two of the longest timeouts (download_ccd_to_path).
TwoWholeAttempts ==
    \A c \in RefCcds :
        /\ state[c] = "timedout" => ticks[c] >= Attempts * Shortest(limit)
        /\ ticks[c] <= Attempts * Longest(limit)

\* What the module promises: its types, LimitFitsSample and TwoWholeAttempts.
DownloadsInv == DownloadsTypeOK /\ LimitFitsSample /\ TwoWholeAttempts
=============================================================================
