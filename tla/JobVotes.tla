------------------------------ MODULE JobVotes ------------------------------
(***************************************************************************)
(* How the users of a quicklook job are counted.  A viewer of the frontend *)
(* (useQuicklookVoting, useQuicklookMetadata) sends create, vote and       *)
(* unvote calls, which arrive in any order; the coordinator counts them in *)
(* JobPriority.user_count, and the pipeline drops a job without users when *)
(* it enters a stage.  The pipeline itself is in PipelineQueue: here a job *)
(* is the number of stages it has entered.                                 *)
(***************************************************************************)
EXTENDS Integers

CONSTANTS
    Viewers, ShownVisits,
    CheckedStages,   \* stages that begin with _ensure_users_exist_for_job
    MaxMoves         \* bound: visits that one viewer opens or leaves

ASSUME VotesAssumption ==
    CheckedStages \in Nat /\ MaxMoves \in Nat /\ 0 \notin ShownVisits

VARIABLES
    job,        \* of each visit: "none", "running", "dropped" or "ready"
    entered,    \* stages the job has entered
    users,      \* its user_count
    showing,    \* visit of each viewer, or NoVisit
    moves,      \* of each viewer
    calls,      \* on their way
    left        \* visits a viewer has left

votesVars == <<job, entered, users, showing, moves, calls, left>>

NoShownVisit == 0

\* The state has its types; no count of users falls below zero.
VotesTypeOK ==
    /\ job \in [ShownVisits -> {"none", "running", "dropped", "ready"}]
    /\ entered \in [ShownVisits -> 0 .. CheckedStages]
    /\ users \in [ShownVisits -> Nat]
    /\ showing \in [Viewers -> ShownVisits \union {NoShownVisit}]
    /\ moves \in [Viewers -> 0 .. MaxMoves]
    /\ left \subseteq ShownVisits
    /\ calls \subseteq [viewer : Viewers, move : 0 .. MaxMoves,
                        kind : {"create", "vote", "unvote"}, visit : ShownVisits]

VotesInit ==
    /\ job = [v \in ShownVisits |-> "none"] /\ entered = [v \in ShownVisits |-> 0]
    /\ users = [v \in ShownVisits |-> 0]
    /\ showing = [w \in Viewers |-> NoShownVisit] /\ moves = [w \in Viewers |-> 0]
    /\ calls = {} /\ left = {}

-----------------------------------------------------------------------------
(* Viewers. *)

ViewerCall(w, kind, v) == [viewer |-> w, move |-> moves[w], kind |-> kind, visit |-> v]

ViewerMove(w, to, sent) ==
    /\ moves[w] < MaxMoves
    /\ moves' = [moves EXCEPT ![w] = @ + 1]
    /\ showing' = [showing EXCEPT ![w] = to]
    /\ left' = left \union ({showing[w]} \ {NoShownVisit})
    /\ calls' = calls \union sent
    /\ UNCHANGED <<job, entered, users>>

\* A page is opened with a visit: useWatch ignores the first render.
Open(w, v) == showing[w] = NoShownVisit /\ ViewerMove(w, v, {ViewerCall(w, "create", v)})

\* The viewer selects another visit.
Switch(w, v) ==
    /\ showing[w] \notin {NoShownVisit, v}
    /\ ViewerMove(w, v, {ViewerCall(w, "unvote", showing[w]), ViewerCall(w, "vote", v),
                         ViewerCall(w, "create", v)})

\* The page is closed (beforeunload).
Leave(w) ==
    /\ showing[w] # NoShownVisit
    /\ ViewerMove(w, NoShownVisit, {ViewerCall(w, "unvote", showing[w])})

-----------------------------------------------------------------------------
(* The coordinator. *)

InDictionary(v) == job[v] \in {"running", "dropped"}

Arrive(c) ==
    /\ c \in calls /\ calls' = calls \ {c}
    /\ UNCHANGED <<showing, moves, left>>

\* POST /quicklooks: a job, unless there is one or the visit is ready.
CreateJob(c) ==
    /\ c.kind = "create" /\ Arrive(c)
    /\ IF job[c.visit] # "none" THEN UNCHANGED <<job, entered, users>>
       ELSE /\ job' = [job EXCEPT ![c.visit] = "running"]
            /\ entered' = [entered EXCEPT ![c.visit] = 0]
            /\ users' = [users EXCEPT ![c.visit] = 1]

\* A vote or an unvote for a visit without a job is lost.
Count(v, n) ==
    /\ users' = IF InDictionary(v) THEN [users EXCEPT ![v] = n] ELSE users
    /\ UNCHANGED <<job, entered>>

CountVote(c) == c.kind = "vote" /\ Arrive(c) /\ Count(c.visit, users[c.visit] + 1)

CountUnvote(c) ==
    /\ c.kind = "unvote" /\ Arrive(c)
    /\ Count(c.visit, IF users[c.visit] > 0 THEN users[c.visit] - 1 ELSE users[c.visit])

\* A job enters its next stage.
EnterStage(v) ==
    /\ job[v] = "running" /\ entered[v] < CheckedStages /\ users[v] > 0
    /\ entered' = [entered EXCEPT ![v] = @ + 1]
    /\ UNCHANGED <<job, users, showing, moves, calls, left>>

\* Mutant: one user is taken for none.
DropUnlessMany(v) ==
    /\ job[v] = "running" /\ entered[v] < CheckedStages /\ users[v] <= 1
    /\ job' = [job EXCEPT ![v] = "dropped"]
    /\ UNCHANGED <<entered, users, showing, moves, calls, left>>

\* "No users for job": it ends in error, and its data is deleted.
Drop(v) ==
    /\ job[v] = "running" /\ entered[v] < CheckedStages /\ users[v] <= 0
    /\ job' = [job EXCEPT ![v] = "dropped"]
    /\ UNCHANGED <<entered, users, showing, moves, calls, left>>

FinishJob(v) ==
    /\ job[v] = "running" /\ entered[v] = CheckedStages
    /\ job' = [job EXCEPT ![v] = "ready"]
    /\ UNCHANGED <<entered, users, showing, moves, calls, left>>

\* 5 s after the error the dictionary forgets the job.
Forget(v) ==
    /\ job[v] = "dropped"
    /\ job' = [job EXCEPT ![v] = "none"]
    /\ UNCHANGED <<entered, users, showing, moves, calls, left>>

VotesNext ==
    \/ \E w \in Viewers :
          \/ \E v \in ShownVisits : Open(w, v) \/ Switch(w, v)
          \/ Leave(w)
    \/ \E c \in calls : CreateJob(c) \/ CountVote(c) \/ CountUnvote(c)
    \/ \E v \in ShownVisits : EnterStage(v) \/ Drop(v) \/ FinishJob(v) \/ Forget(v)

VotesSpec == VotesInit /\ [][VotesNext]_votesVars

-----------------------------------------------------------------------------
(* Properties. *)

\* A job is dropped for lack of users only after some viewer has left its visit:
\* the count starts with the viewer who asked for the job, and calls that are
\* lost or reordered do not use it up (route_unvote_quicklook, JobPriority).
DroppedWasLeft == \A v \in ShownVisits : job[v] = "dropped" => v \in left

\* What the run checks of the votes: the types, and the property.
VotesInv == VotesTypeOK /\ DroppedWasLeft

\* job/README.ja.md:11-15: waiting_users is how many people wait for the visit,
\* and a job is skipped at a stage when it has none: a running job has a user
\* while a viewer whose calls have all arrived shows its visit.
WaitingIsCounted ==
    \A v \in ShownVisits, w \in Viewers :
        /\ job[v] = "running" /\ showing[w] = v
        /\ \A c \in calls : c.viewer # w
        => users[v] > 0
=============================================================================
