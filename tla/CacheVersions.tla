--------------------------- MODULE CacheVersions ---------------------------
(***************************************************************************)
(* The versions of the tile cache.  The objects of each schema version are *)
(* under a prefix of their own and the version is recorded in meta.json,   *)
(* but the rows of the quicklooks table do not tell theirs.  A coordinator *)
(* that starts with another version than before deletes all rows, writes   *)
(* the version, and deletes the stale prefixes in the background           *)
(* (prepare_stale_cache_cleanup, delete_stale_cache_versions, lifespan).   *)
(* It may be killed between any two steps, and deployed again with any     *)
(* version.                                                                *)
(***************************************************************************)
EXTENDS Naturals

CONSTANTS
    Versions, CachedVisits,
    NoVersion,       \* meta.json is missing or invalid
    MaxStarts        \* bound: starts of the coordinator

ASSUME VersionsAssumption ==
    Versions # {} /\ NoVersion \notin Versions /\ MaxStarts \in Nat

VARIABLES
    expected,   \* config.tile_cache_schema_version
    step,       \* of the start of the coordinator
    stale,      \* versions the plan wants deleted
    rows,       \* of each visit: "none", "unready" or "ready"
    objects,    \* pairs of a version and a visit
    metadata,   \* version in meta.json
    starts

versionsVars == <<expected, step, stale, rows, objects, metadata, starts>>

\* The state has its types; the plan never has the current version.
VersionsTypeOK ==
    /\ expected \in Versions /\ metadata \in Versions \union {NoVersion}
    /\ step \in {"down", "plan", "rows", "metadata", "cleanup", "up"}
    /\ stale \subseteq Versions \ {expected}
    /\ rows \in [CachedVisits -> {"none", "unready", "ready"}]
    /\ objects \subseteq Versions \X CachedVisits
    /\ starts \in 0 .. MaxStarts

VersionsInit ==
    /\ expected = CHOOSE v \in Versions : TRUE
    /\ step = "down" /\ stale = {} /\ objects = {} /\ metadata = NoVersion
    /\ rows = [q \in CachedVisits |-> "none"]
    /\ starts = 0

\* list_cache_versions: the prefixes that hold an object.
ListedVersions == {v \in Versions : \E q \in CachedVisits : <<v, q>> \in objects}

\* A pod is started with the configuration of its release.
StartVersion(v) ==
    /\ step = "down" /\ starts < MaxStarts /\ starts' = starts + 1
    /\ expected' = v /\ step' = "plan"
    /\ UNCHANGED <<stale, rows, objects, metadata>>

\* Mutant: the prefixes are listed only when meta.json differs.
PlanByMetadata ==
    /\ step = "plan"
    /\ stale' = IF metadata = expected THEN {} ELSE ListedVersions \ {expected}
    /\ step' = IF metadata = expected THEN "cleanup" ELSE "rows"
    /\ UNCHANGED <<expected, rows, objects, metadata, starts>>

\* prepare_stale_cache_cleanup compares both, and may have nothing to do.
Plan ==
    /\ step = "plan" /\ stale' = ListedVersions \ {expected}
    /\ step' = IF metadata = expected /\ stale' = {} THEN "cleanup" ELSE "rows"
    /\ UNCHANGED <<expected, rows, objects, metadata, starts>>

DeleteRows ==
    /\ step = "rows" /\ step' = "metadata"
    /\ rows' = [q \in CachedVisits |-> "none"]
    /\ UNCHANGED <<expected, stale, objects, metadata, starts>>

PutMetadata ==
    /\ step = "metadata" /\ step' = "cleanup"
    /\ metadata' = expected
    /\ UNCHANGED <<expected, stale, rows, objects, starts>>

\* delete_stale_cache_versions, object by object.
DeleteStale(o) ==
    /\ step \in {"cleanup", "up"} /\ o \in objects /\ o[1] \in stale
    /\ objects' = objects \ {o}
    /\ UNCHANGED <<expected, step, stale, rows, metadata, starts>>

\* cleanup_at_startup: what is not ready goes, objects first.
CleanupObjects(q) ==
    /\ step = "cleanup" /\ rows[q] = "unready" /\ <<expected, q>> \in objects
    /\ objects' = objects \ {<<expected, q>>}
    /\ UNCHANGED <<expected, step, stale, rows, metadata, starts>>

CleanupRow(q) ==
    /\ step = "cleanup" /\ rows[q] = "unready" /\ <<expected, q>> \notin objects
    /\ rows' = [rows EXCEPT ![q] = "none"]
    /\ UNCHANGED <<expected, step, stale, objects, metadata, starts>>

VersionUp ==
    /\ step = "cleanup" /\ \A q \in CachedVisits : rows[q] # "unready"
    /\ step' = "up"
    /\ UNCHANGED <<expected, stale, rows, objects, metadata, starts>>

\* A job: its row, its objects under the prefix of the version, and ready.
CreateEntry(q) ==
    /\ step = "up" /\ rows[q] = "none"
    /\ rows' = [rows EXCEPT ![q] = "unready"]
    /\ UNCHANGED <<expected, step, stale, objects, metadata, starts>>

Upload(q) ==
    /\ step = "up" /\ rows[q] = "unready"
    /\ objects' = objects \union {<<expected, q>>}
    /\ UNCHANGED <<expected, step, stale, rows, metadata, starts>>

EntryReady(q) ==
    /\ step = "up" /\ rows[q] = "unready" /\ <<expected, q>> \in objects
    /\ rows' = [rows EXCEPT ![q] = "ready"]
    /\ UNCHANGED <<expected, step, stale, objects, metadata, starts>>

\* The process ends or is killed, at any step.
Stop ==
    /\ step # "down" /\ step' = "down" /\ stale' = {}
    /\ UNCHANGED <<expected, rows, objects, metadata, starts>>

VersionsNext ==
    \/ \E v \in Versions : StartVersion(v)
    \/ Plan \/ DeleteRows \/ PutMetadata \/ VersionUp \/ Stop
    \/ \E o \in objects : DeleteStale(o)
    \/ \E q \in CachedVisits :
          \/ CleanupObjects(q) \/ CleanupRow(q)
          \/ CreateEntry(q) \/ Upload(q) \/ EntryReady(q)

VersionsSpec == VersionsInit /\ [][VersionsNext]_versionsVars

-----------------------------------------------------------------------------
(* Properties. *)

\* A coordinator that has started serves no row of another version: what is ready
\* has its objects under the current prefix, through any sequence of releases and
\* any kill during the cleanup (prepare_stale_cache_cleanup, the deletion of rows).
ReadyIsServed ==
    step \in {"cleanup", "up"} =>
        \A q \in CachedVisits : rows[q] = "ready" => <<expected, q>> \in objects

\* Nothing stale is forgotten: whatever was left of other versions by a deletion
\* that was cut short is in the plan of the next start (list_cache_versions).
StaleIsPlanned == step \in {"cleanup", "up"} => ListedVersions \ {expected} \subseteq stale

\* What the run checks of the versions: the types, and the two properties.
VersionsInv == VersionsTypeOK /\ ReadyIsServed /\ StaleIsPlanned
=============================================================================
