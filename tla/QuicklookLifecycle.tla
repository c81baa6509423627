------------------------- MODULE QuicklookLifecycle -------------------------
(***************************************************************************)
(* The life of one visit's quicklook: its row in the DB, its objects in    *)
(* the object storage, and the job that makes both.  Requests, the stages  *)
(* of the pipeline, their timeouts and errors, deletion by housekeeping    *)
(* and by the admin page, uploads that go on when nobody waits for them    *)
(* any more, and the coordinator's crash and restart.                      *)
(*                                                                         *)
(* Every DB session and every RPC is a step; other visits only delay.      *)
(* The stages that make tiles (GenerateTiles) are one step here.           *)
(***************************************************************************)
EXTENDS Naturals, FiniteSets

CONSTANTS
    Jobs, NoJob, NoRow,
    Generators,       \* of the job's distribution config
    MaxRequests,      \* bound: POST /quicklooks
    MaxAdminDeletes,  \* bound: DELETE /api/cache_entries
    MaxCrashes,       \* bound: of the coordinator
    MaxFaults,        \* bound: storage errors and lost RPC connections
    AllowErrors,      \* whether a stage may raise
    AllowTimeouts,    \* whether pipeline_stage_timeout may expire
    SlowRequests      \* whether a request may take longer than a whole job

\* Every request finds a job to make.
ASSUME JobsAssumption == MaxRequests <= Cardinality(Jobs)
ASSUME NoneAssumption ==
    NoJob \notin Jobs /\ NoRow \notin [job : Jobs, ready : BOOLEAN]
ASSUME BoundsAssumption ==
    {MaxRequests, MaxAdminDeletes, MaxCrashes, MaxFaults} \subseteq Nat

VARIABLES   \* shared
    row,          \* NoRow, or the job and ready
    objects       \* of the visit, in the object storage

VARIABLES   \* of the coordinator
    coordinator,  \* "starting", "cleaning" (deletes what is unready), "up" or "down"
    checked,      \* requests that found no row and are about to push
    entry,        \* jobs[visit]
    stage,        \* where each job is in the pipeline
    errorStep,    \* where it is in _finalize_error; "none": not there
    cleanups,     \* _cleanup_delay tasks
    calls,        \* upload RPCs the coordinator waits for

    deleter       \* where each delete_one_quicklook is

VARIABLES   \* of the generators
    running,      \* upload functions that run in a process of the RPC server
    missing       \* uploads whose RPC failed, which is only logged

VARIABLES requests, adminDeletes, crashes, faults  \* so far

shared == <<row, objects>>
jobVars == <<entry, stage, errorStep, cleanups>>
rpcVars == <<calls, running, missing>>
counters == <<requests, adminDeletes, crashes, faults>>
vars == <<shared, coordinator, checked, jobVars, rpcVars, deleter, counters>>

\* What a complete quicklook consists of: the packed tiles and the FITS headers
\* that each generator uploads, the metadata and the time profile.
Uploads == {"tiles", "headers"} \X Generators
Parts == Uploads \union {<<"metadata">>, <<"profile">>}

Rpcs == {<<j, u[1], u[2]>> : j \in Jobs, u \in Uploads}

Deleters == {"admin", "housekeeping", "startup"}
Ended == {"unborn", "over", "failed", "dead"}
Active(j) == stage[j] \notin Ended

\* generate_single_fits_tiles and finalize_success have parallel = 1.
Generating == {"record", "generate"}
Uploading == {"tiles", "headers"}
Finalizing == {"ready", "profile", "update", "cleanup"}
Free(stages) == \A j \in Jobs : stage[j] \notin stages

Init ==
    /\ row = NoRow /\ objects = {}
    /\ coordinator = "up" /\ checked = 0 /\ entry = NoJob
    /\ stage = [j \in Jobs |-> "unborn"]
    /\ errorStep = [j \in Jobs |-> "none"]
    /\ cleanups = {} /\ calls = {} /\ running = {} /\ missing = {}
    /\ deleter = [d \in Deleters |-> "idle"]
    /\ requests = 0 /\ adminDeletes = 0 /\ crashes = 0 /\ faults = 0

Up == coordinator = "up"
Fault == faults < MaxFaults /\ faults' = faults + 1 /\ UNCHANGED <<requests, adminDeletes, crashes>>

-----------------------------------------------------------------------------
(* Requests.                                                               *)

Check ==
    /\ Up /\ requests < MaxRequests
    /\ requests' = requests + 1
    /\ checked' = IF row = NoRow THEN checked + 1 ELSE checked
    /\ UNCHANGED <<shared, coordinator, jobVars, rpcVars, deleter, adminDeletes, crashes, faults>>

\* The first stage has no queue capacity, so it is never full.
Push(j) ==
    /\ Up /\ checked > 0 /\ stage[j] = "unborn"
    /\ checked' = checked - 1
    /\ IF entry = NoJob
       THEN entry' = j /\ stage' = [stage EXCEPT ![j] = "queued"]
       ELSE UNCHANGED <<entry, stage>>
    /\ UNCHANGED <<shared, coordinator, errorStep, cleanups, rpcVars, deleter, counters>>

\* Timing: between the check and the push is the end of one DB session.
Prompt == SlowRequests \/ checked = 0

-----------------------------------------------------------------------------
(* The stages.                                                             *)

Working(j) == Up /\ errorStep[j] = "none"
Advance(j, from, to) == Working(j) /\ stage[j] = from /\ stage' = [stage EXCEPT ![j] = to]

\* Mutant: the stage takes a second job while the first is still in it.
EnterGenerateParallel(j) ==
    /\ Advance(j, "queued", "record")
    /\ UNCHANGED <<shared, coordinator, checked, entry, errorStep, cleanups, rpcVars,
                   deleter, counters>>

EnterGenerate(j) ==
    /\ Advance(j, "queued", "record")
    /\ Free(Generating)
    /\ UNCHANGED <<shared, coordinator, checked, entry, errorStep, cleanups, rpcVars,
                   deleter, counters>>

\* The visit is the primary key: a second row for it is refused (FailStage).
CreateRecord(j) ==
    /\ Advance(j, "record", "generate")
    /\ row = NoRow
    /\ row' = [job |-> j, ready |-> FALSE]
    /\ UNCHANGED <<objects, coordinator, checked, entry, errorStep, cleanups, rpcVars,
                   deleter, counters>>

Generate(j) ==
    /\ Advance(j, "generate", "merge")
    /\ UNCHANGED <<shared, coordinator, checked, entry, errorStep, cleanups, rpcVars,
                   deleter, counters>>

\* merge_tiles ends and the upload of the tiles begins.
StartUploadTiles(j) ==
    /\ Advance(j, "merge", "tiles")
    /\ calls' = calls \union {<<j, "tiles", g>> : g \in Generators}
    /\ running' = running \union {<<j, "tiles", g>> : g \in Generators}
    /\ UNCHANGED <<shared, coordinator, checked, entry, errorStep, cleanups, missing,
                   deleter, counters>>

CallsOf(j) == {c \in calls : c[1] = j}

StartUploadHeaders(j) ==
    /\ Advance(j, "tiles", "headers")
    /\ CallsOf(j) = {}
    /\ calls' = calls \union {<<j, "headers", g>> : g \in Generators}
    /\ running' = running \union {<<j, "headers", g>> : g \in Generators}
    /\ UNCHANGED <<shared, coordinator, checked, entry, errorStep, cleanups, missing,
                   deleter, counters>>

PutMetadata(j) ==
    /\ Advance(j, "headers", "ready")
    /\ CallsOf(j) = {}
    /\ objects' = objects \union {<<"metadata">>}
    /\ UNCHANGED <<row, coordinator, checked, entry, errorStep, cleanups, rpcVars,
                   deleter, counters>>

\* The entry goes as soon as the status is 'ready', before the row is.
MarkReady(j) ==
    /\ Advance(j, "ready", "profile")
    /\ Free(Finalizing \ {"ready"})
    /\ Prompt
    /\ entry' = NoJob
    /\ UNCHANGED <<shared, coordinator, checked, errorStep, cleanups, rpcVars, deleter, counters>>

PutProfile(j) ==
    /\ Advance(j, "profile", "update")
    /\ objects' = objects \union {<<"profile">>}
    /\ UNCHANGED <<row, coordinator, checked, entry, errorStep, cleanups, rpcVars, deleter, counters>>

\* No stage_timeout and no _finalize_error around finalize_success.
PutProfileFails(j) ==
    /\ Advance(j, "profile", "over")
    /\ Fault
    /\ UNCHANGED <<shared, coordinator, checked, entry, errorStep, cleanups, rpcVars, deleter>>

\* UPDATE ... WHERE visit_name: whichever job's row it is, or none.
UpdateRecord(j) ==
    /\ Advance(j, "update", "cleanup")
    /\ row' = IF row = NoRow THEN NoRow ELSE [row EXCEPT !.ready = TRUE]
    /\ UNCHANGED <<objects, coordinator, checked, entry, errorStep, cleanups, rpcVars,
                   deleter, counters>>

\* _cleanup_rpc removes the local storage: an upload that still runs fails.  The
\* scatter goes to the generators that are registered then.
ClearLocal(j) ==
    \/ running' = {r \in running : r[1] # j} /\ UNCHANGED counters
    \/ Fault /\ UNCHANGED running

Cleanup(j) ==
    /\ Advance(j, "cleanup", "over")
    /\ ClearLocal(j)
    /\ UNCHANGED <<shared, coordinator, checked, entry, errorStep, cleanups, calls, missing,
                   deleter>>

-----------------------------------------------------------------------------
(* Upload RPCs.                                                            *)

Upload(r) ==
    /\ r \in running
    /\ running' = running \ {r}
    /\ calls' = calls \ {r}
    /\ objects' = objects \union {<<r[2], r[3]>>}
    /\ UNCHANGED <<row, coordinator, checked, jobVars, missing, deleter, counters>>

\* The function raises, or its process ends: a generator that finds a new
\* coordinator shuts down.
UploadFails(r) ==
    /\ AllowErrors \/ crashes > 0
    /\ r \in running
    /\ running' = running \ {r}
    /\ calls' = calls \ {r}
    /\ missing' = missing \union {r}
    /\ UNCHANGED <<shared, coordinator, checked, jobVars, deleter, counters>>

\* The RPC's connection is lost; the function runs on in the server.
LoseCall(r) ==
    /\ r \in calls
    /\ Fault
    /\ calls' = calls \ {r}
    /\ missing' = missing \union {r}
    /\ UNCHANGED <<shared, coordinator, checked, jobVars, running, deleter>>

-----------------------------------------------------------------------------
(* Errors.                                                                 *)

\* Why a stage fails: an exception of its own, the record is there already, or
\* the timeout.  A failed upload RPC is no reason.
Fails(j) ==
    \/ /\ AllowErrors
       /\ \/ stage[j] \in Generating \union {"merge"}
          \/ stage[j] = "headers" /\ CallsOf(j) = {}
    \/ stage[j] = "record" /\ row # NoRow
    \/ AllowTimeouts /\ stage[j] \in Generating \union Uploading \union {"merge"}

\* The status 'error' starts the delayed removal of the entry.
FailStage(j) ==
    /\ Working(j) /\ Fails(j)
    /\ errorStep' = [errorStep EXCEPT ![j] = "objects"]
    /\ cleanups' = cleanups \union {j}
    /\ calls' = calls \ CallsOf(j)
    /\ UNCHANGED <<shared, coordinator, checked, entry, stage, running, missing, deleter, counters>>

\* 5 s later; it does not look whose entry it is.
DelayedCleanup(j) ==
    /\ Up /\ j \in cleanups /\ Prompt
    /\ cleanups' = cleanups \ {j}
    /\ entry' = NoJob
    /\ UNCHANGED <<shared, coordinator, checked, stage, errorStep, rpcVars, deleter, counters>>

ErrorDeletesObjects(j) ==
    /\ Up /\ errorStep[j] = "objects"
    /\ objects' = {}
    /\ errorStep' = [errorStep EXCEPT ![j] = "row"]
    /\ UNCHANGED <<row, coordinator, checked, entry, stage, cleanups, rpcVars, deleter, counters>>

\* delete_all raises, and with it _finalize_error.
ErrorDeletionFails(j) ==
    /\ Up /\ errorStep[j] = "objects"
    /\ Fault
    /\ errorStep' = [errorStep EXCEPT ![j] = "none"]
    /\ stage' = [stage EXCEPT ![j] = "failed"]
    /\ UNCHANGED <<shared, coordinator, checked, entry, cleanups, rpcVars, deleter>>

\* Mutant: the objects go, the row stays.
ErrorKeepsRow(j) ==
    /\ Up /\ errorStep[j] = "row"
    /\ errorStep' = [errorStep EXCEPT ![j] = "cleanup"]
    /\ UNCHANGED <<shared, coordinator, checked, entry, stage, cleanups, rpcVars, deleter, counters>>

\* The visit's row, whichever job made it.
ErrorDeletesRow(j) ==
    /\ Up /\ errorStep[j] = "row"
    /\ row' = NoRow
    /\ errorStep' = [errorStep EXCEPT ![j] = "cleanup"]
    /\ UNCHANGED <<objects, coordinator, checked, entry, stage, cleanups, rpcVars, deleter, counters>>

ErrorCleanup(j) ==
    /\ Up /\ errorStep[j] = "cleanup"
    /\ ClearLocal(j)
    /\ errorStep' = [errorStep EXCEPT ![j] = "none"]
    /\ stage' = [stage EXCEPT ![j] = "failed"]
    /\ UNCHANGED <<shared, coordinator, checked, entry, cleanups, calls, missing, deleter>>

-----------------------------------------------------------------------------
(* delete_one_quicklook: by housekeeping (after any job of any visit, one  *)
(* at a time), by the admin page of the frontend, and at startup.          *)

\* Housekeeping picks ready quicklooks, the admin page any; at startup those that
\* are not ready are deleted before the coordinator goes up.
Selectable(d) ==
    CASE d = "housekeeping" -> Up /\ row # NoRow /\ row.ready
      [] d = "admin"        -> adminDeletes < MaxAdminDeletes
      [] d = "startup"      -> coordinator = "starting" /\ row # NoRow /\ ~row.ready

Select(d) ==
    /\ deleter[d] = "idle"
    /\ Selectable(d)
    /\ deleter' = [deleter EXCEPT ![d] = "selected"]
    /\ adminDeletes' = IF d = "admin" THEN adminDeletes + 1 ELSE adminDeletes
    /\ coordinator' = IF d = "startup" THEN "cleaning" ELSE coordinator
    /\ UNCHANGED <<shared, checked, jobVars, rpcVars, requests, crashes, faults>>

\* Mutant: the row stays ready while the objects are deleted.
MarkUnmarked(d) ==
    /\ deleter[d] = "selected"
    /\ deleter' = [deleter EXCEPT ![d] = IF row = NoRow THEN "idle" ELSE "marked"]
    /\ UNCHANGED <<shared, coordinator, checked, jobVars, rpcVars, counters>>

Mark(d) ==
    /\ deleter[d] = "selected"
    /\ IF row = NoRow
       THEN deleter' = [deleter EXCEPT ![d] = "idle"] /\ UNCHANGED row
       ELSE /\ deleter' = [deleter EXCEPT ![d] = "marked"]
            /\ row' = [row EXCEPT !.ready = FALSE]
    /\ UNCHANGED <<objects, coordinator, checked, jobVars, rpcVars, counters>>

DeleteObjects(d) ==
    /\ deleter[d] = "marked"
    /\ objects' = {}
    /\ deleter' = [deleter EXCEPT ![d] = "cleaned"]
    /\ UNCHANGED <<row, coordinator, checked, jobVars, rpcVars, counters>>

\* At startup the exception ends the process.
DeletionFails(d) ==
    /\ deleter[d] = "marked"
    /\ Fault
    /\ deleter' = [deleter EXCEPT ![d] = "idle"]
    /\ coordinator' = IF d = "startup" THEN "down" ELSE coordinator
    /\ UNCHANGED <<shared, checked, jobVars, rpcVars>>

DeleteRow(d) ==
    /\ deleter[d] = "cleaned"
    /\ row' = NoRow
    /\ deleter' = [deleter EXCEPT ![d] = "idle"]
    /\ UNCHANGED <<objects, coordinator, checked, jobVars, rpcVars, counters>>

-----------------------------------------------------------------------------
(* The coordinator's process.                                              *)

\* Jobs, tasks and requests are gone.  What runs on the generators runs on.
Crash ==
    /\ coordinator # "down" /\ crashes < MaxCrashes
    /\ crashes' = crashes + 1
    /\ coordinator' = "down"
    /\ checked' = 0 /\ entry' = NoJob /\ cleanups' = {} /\ calls' = {}
    /\ stage' = [j \in Jobs |-> IF Active(j) THEN "dead" ELSE stage[j]]
    /\ errorStep' = [j \in Jobs |-> "none"]
    /\ deleter' = [d \in Deleters |-> IF d = "admin" THEN deleter[d] ELSE "idle"]
    /\ UNCHANGED <<shared, running, missing, requests, adminDeletes, faults>>

Restart ==
    /\ coordinator = "down"
    /\ coordinator' = "starting"
    /\ UNCHANGED <<shared, checked, jobVars, rpcVars, deleter, counters>>

\* Mutant: the coordinator starts without cleanup_at_startup.
StartedUnclean ==
    /\ coordinator \in {"starting", "cleaning"}
    /\ coordinator' = "up"
    /\ deleter' = [deleter EXCEPT !["startup"] = "idle"]
    /\ UNCHANGED <<shared, checked, jobVars, rpcVars, counters>>

Started ==
    /\ \/ coordinator = "starting" /\ ~Selectable("startup")
       \/ coordinator = "cleaning" /\ deleter["startup"] = "idle"
    /\ coordinator' = "up"
    /\ UNCHANGED <<shared, checked, jobVars, rpcVars, deleter, counters>>

StageStep(j) ==
    \/ EnterGenerate(j) \/ CreateRecord(j) \/ Generate(j)
    \/ StartUploadTiles(j) \/ StartUploadHeaders(j) \/ PutMetadata(j)
    \/ MarkReady(j) \/ PutProfile(j) \/ UpdateRecord(j) \/ Cleanup(j)
    \/ FailStage(j) \/ ErrorDeletesObjects(j) \/ ErrorDeletesRow(j) \/ ErrorCleanup(j)

DeletionStep(d) == Mark(d) \/ DeleteObjects(d) \/ DeleteRow(d)

Next ==
    \/ Check \/ Crash \/ Restart \/ Started
    \/ \E j \in Jobs :
         \/ Push(j) \/ StageStep(j) \/ DelayedCleanup(j)
         \/ PutProfileFails(j) \/ ErrorDeletionFails(j)
    \/ \E r \in Rpcs : Upload(r) \/ UploadFails(r) \/ LoseCall(r)
    \/ \E d \in Deleters : Select(d) \/ DeletionStep(d) \/ DeletionFails(d)

Spec == Init /\ [][Next]_vars

\* The event loop and the processes of the RPC server run, timers expire, the
\* coordinator is restarted, and a deletion that began goes on.
Fairness ==
    /\ WF_vars(Restart) /\ WF_vars(Select("startup") \/ Started)
    /\ WF_vars(\E j \in Jobs : Push(j))
    /\ \A j \in Jobs : WF_vars(StageStep(j)) /\ WF_vars(DelayedCleanup(j))
    /\ \A r \in Rpcs : WF_vars(Upload(r) \/ UploadFails(r))
    /\ \A d \in Deleters : WF_vars(DeletionStep(d))

FairSpec == Spec /\ Fairness

-----------------------------------------------------------------------------
Ready == row # NoRow /\ row.ready
InDeletion == \E d \in Deleters : deleter[d] \in {"marked", "cleaned"}

TypeOK ==
    /\ row \in [job : Jobs, ready : BOOLEAN] \union {NoRow}
    /\ objects \subseteq Parts
    /\ coordinator \in {"starting", "cleaning", "up", "down"}
    /\ checked \in 0..MaxRequests
    /\ entry \in Jobs \union {NoJob}
    /\ stage \in [Jobs -> Ended \union Generating \union Uploading \union Finalizing
                          \union {"queued", "merge"}]
    /\ errorStep \in [Jobs -> {"none", "objects", "row", "cleanup"}]
    /\ \A j \in Jobs : errorStep[j] # "none" => Active(j)
    /\ cleanups \subseteq Jobs
    /\ calls \subseteq running /\ running \subseteq Rpcs /\ missing \subseteq Rpcs
    /\ deleter \in [Deleters -> {"idle", "selected", "marked", "cleaned"}]
    /\ requests \in 0..MaxRequests /\ adminDeletes \in 0..MaxAdminDeletes
    /\ crashes \in 0..MaxCrashes /\ faults \in 0..MaxFaults

\* A row that says ready stands for data that can be served: whatever was deleted,
\* failed or uploaded late, only uploads whose RPC failed may be missing.
ReadyIsComplete ==
    Ready => \A p \in Parts :
        p \in objects \/ \E r \in missing : r[1] = row.job /\ p = <<r[2], r[3]>>

\* A row that is not ready blocks its visit (route_create_quicklook), so somebody
\* is about to make it ready or to delete it, after a restart of the coordinator
\* too.
UnreadyIsInHand ==
    coordinator = "up" /\ row # NoRow /\ ~row.ready => Active(row.job) \/ InDeletion

\* The jobs that may still write the row or the objects of the visit.
Owning(j) ==
    /\ stage[j] \in Generating \union Uploading \union {"merge", "ready", "profile", "update"}
    /\ errorStep[j] # "cleanup"

\* One job per visit: jobs know neither whose row nor whose objects they update
\* or delete, so no two of them may be at it at the same time.
OneJobAtATime == Cardinality({j \in Jobs : Owning(j)}) <= 1

\* The state has its types; one job at a time is at the row and the objects of the
\* visit, and a row that can be served has all of its objects.
LifecycleInv == TypeOK /\ OneJobAtATime /\ ReadyIsComplete

\* A job that succeeds has made its own row ready, whatever the other jobs,
\* deletions and faults of the visit did to the row meanwhile (_finalize_success).
SuccessIsReady == [][\A j \in Jobs :
    stage[j] = "update" /\ stage'[j] = "cleanup" => row' = [job |-> j, ready |-> TRUE]]_vars

\* A visit is not blocked for ever: its row becomes ready or goes, through errors
\* and restarts of the coordinator.
UnreadyIsResolved == row # NoRow /\ ~row.ready ~> row = NoRow \/ Ready

\* The entry of a job goes, so that a failed visit can be requested again.
EntryGoes == \A j \in Jobs : entry = j ~> entry # j

\* So a visit can be requested again at last, whatever went wrong.
NotBlocked == UnreadyIsResolved /\ EntryGoes
=============================================================================
