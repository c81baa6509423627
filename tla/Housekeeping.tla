---------------------------- MODULE Housekeeping ----------------------------
(***************************************************************************)
(* Which quicklooks are deleted to make room: the rows of several visits,  *)
(* run_housekeeping after each job, under its lock, and the two deletions  *)
(* of the admin page, without it and in another process.                   *)
(*                                                                         *)
(* What a job and a deletion do to the objects of one visit is in          *)
(* QuicklookLifecycle; here objects take up what the row says.             *)
(***************************************************************************)
EXTENDS Integers, FiniteSets

CONSTANTS
    StoredVisits,
    Sizes,         \* of uploaded tiles
    Limit,         \* max_object_storage_usage
    Keep,          \* housekeeping_keep_recent_count
    Runs,          \* calls of run_housekeeping that may be under way
    MaxCreated,    \* bound: jobs
    MaxAccesses,   \* bound: recent accesses of all visits
    MaxDeletionFaults,     \* bound: deletions of objects that fail
    MaxManual      \* bound: which of the admin page's deletions are used, once each

ASSUME UsageAssumption ==
    /\ IsFiniteSet(StoredVisits) /\ 0 \notin StoredVisits /\ Sizes \subseteq Nat
    /\ Limit \in Nat /\ Keep \in Nat
    /\ Runs \intersect {"one", "all"} = {}
    /\ MaxCreated \in Nat /\ MaxAccesses \in Nat /\ MaxDeletionFaults \in Nat
    /\ MaxManual \in Nat

Admins == {"one", "all"}     \* DELETE of one entry, and of all
Deleters == Runs \union Admins
NoVisit == 0

VARIABLES
    jobs,          \* visits in the dictionary of jobs
    row,           \* of each visit: "none", "unready" or "ready"
    size,          \* disk_usage
    born,          \* created_at, as the number of the row
    accesses,      \* of the last week
    waiting,       \* calls of run_housekeeping that wait for the lock
    stage, target,    \* of each deleter: "idle", "select", "mark", "objects" or "row"
    freed, total,  \* of each deleter: disk_usage of its target; total_usage
    created, deletionFaults,
    manual         \* deletions of the admin page that were used

rowVars == <<row, size, born, accesses>>
deleterVars == <<stage, target, freed, total>>
usageBounds == <<created, deletionFaults, manual>>
usageVars == <<jobs, rowVars, waiting, deleterVars, usageBounds>>

ReadyVisits == {v \in StoredVisits : row[v] = "ready"}

\* What the visits of S count for, one by one, and how much that is.
Units(S, f) == UNION {{v} \X (1 .. f[v]) : v \in S}
Usage == Cardinality(Units(ReadyVisits, size))     \* get_total_disk_usage

\* The state has its types: there are accesses only of rows (their foreign key), a row
\* that was never ready has no size, and a deleter has a target from its selection on.
UsageTypeOK ==
    /\ jobs \subseteq StoredVisits
    /\ row \in [StoredVisits -> {"none", "unready", "ready"}]
    /\ accesses \in [StoredVisits -> 0 .. MaxAccesses] /\ size \in [StoredVisits -> Sizes \union {0}]
    /\ \A v \in StoredVisits : row[v] = "none" => size[v] = 0 /\ accesses[v] = 0
    /\ \A v \in ReadyVisits : size[v] \in Sizes
    /\ \A d \in Deleters : stage[d] \in {"mark", "objects", "row"} <=> target[d] # NoVisit
    /\ total \in [Deleters -> Int] /\ freed \in [Deleters -> Sizes \union {0}]
    /\ waiting \in Nat

UsageInit ==
    /\ jobs = {} /\ waiting = 0
    /\ row = [v \in StoredVisits |-> "none"] /\ size = [v \in StoredVisits |-> 0]
    /\ born = [v \in StoredVisits |-> 0] /\ accesses = [v \in StoredVisits |-> 0]
    /\ stage = [d \in Deleters |-> "idle"] /\ target = [d \in Deleters |-> NoVisit]
    /\ freed = [d \in Deleters |-> 0] /\ total = [d \in Deleters |-> 0]
    /\ created = 0 /\ deletionFaults = 0 /\ manual = {}

-----------------------------------------------------------------------------
(* Jobs. *)

\* A request finds no row, and the job creates one.
CreateRow(v) ==
    /\ v \notin jobs /\ row[v] = "none" /\ created < MaxCreated
    /\ jobs' = jobs \union {v} /\ created' = created + 1
    /\ row' = [row EXCEPT ![v] = "unready"] /\ born' = [born EXCEPT ![v] = created + 1]
    /\ UNCHANGED <<size, accesses, waiting, deleterVars, deletionFaults, manual>>

\* route_vote_quicklook records an access, but only for a visit with a job: the views of
\* what is ready are not recorded.
RecordAccess(v) ==
    /\ v \in jobs /\ row[v] # "none"
    /\ Cardinality(Units(StoredVisits, accesses)) < MaxAccesses
    /\ accesses' = [accesses EXCEPT ![v] = @ + 1]
    /\ UNCHANGED <<jobs, row, size, born, waiting, deleterVars, usageBounds>>

\* one_week_ago
Week(v) ==
    /\ accesses[v] > 0 /\ accesses' = [accesses EXCEPT ![v] = 0]
    /\ UNCHANGED <<jobs, row, size, born, waiting, deleterVars, usageBounds>>

CallHousekeeping == waiting' = waiting + 1

\* _finalize_success, and run_housekeeping.  A job takes longer than a deletion of its
\* visit that began earlier; what a job does in the middle of one is in QuicklookLifecycle.
JobFinishes(v) ==
    /\ v \in jobs /\ \A d \in Deleters : target[d] # v
    /\ jobs' = jobs \ {v} /\ CallHousekeeping
    /\ IF row[v] = "none" THEN UNCHANGED <<row, size>>
       ELSE /\ row' = [row EXCEPT ![v] = "ready"]
            /\ \E n \in Sizes : size' = [size EXCEPT ![v] = n]
    /\ UNCHANGED <<born, accesses, deleterVars, usageBounds>>

NoRow(v) ==
    /\ row' = [row EXCEPT ![v] = "none"]
    /\ size' = [size EXCEPT ![v] = 0] /\ accesses' = [accesses EXCEPT ![v] = 0]

\* _finalize_error: the row goes, if it is there.
JobFails(v) ==
    /\ v \in jobs /\ jobs' = jobs \ {v} /\ NoRow(v) /\ CallHousekeeping
    /\ UNCHANGED <<born, deleterVars, usageBounds>>

-----------------------------------------------------------------------------
(* run_housekeeping. *)

DeleterEnds(d) ==
    /\ stage' = [stage EXCEPT ![d] = "idle"] /\ target' = [target EXCEPT ![d] = NoVisit]
    /\ freed' = [freed EXCEPT ![d] = 0] /\ total' = [total EXCEPT ![d] = 0]

\* The calls are interchangeable.
ReadUsage(h) ==
    /\ waiting > 0 /\ waiting' = waiting - 1
    /\ h = CHOOSE other \in Runs : stage[other] = "idle"
    /\ stage' = [stage EXCEPT ![h] = IF Usage > Limit THEN "select" ELSE "idle"]
    /\ total' = [total EXCEPT ![h] = IF Usage > Limit THEN Usage ELSE 0]
    /\ UNCHANGED <<jobs, rowVars, target, freed, usageBounds>>

\* Mutant: without _housekeeping_lock.
EnterUnlocked(h) == (\E other \in Runs : stage[other] = "idle") /\ ReadUsage(h)

\* The lock, and get_total_disk_usage.
EnterLock(h) == (\A other \in Runs : stage[other] = "idle") /\ ReadUsage(h)

\* select_quicklook_to_delete: of all but the newest, the one with the fewest accesses,
\* then the oldest.
Selectable(v) ==
    LET Newer(u) == {w \in ReadyVisits : born[w] > born[u]}
        candidates == {u \in ReadyVisits : Cardinality(Newer(u)) >= Keep}
    IN  /\ v \in candidates
        /\ \A u \in candidates \ {v} :
              \/ accesses[v] < accesses[u]
              \/ accesses[v] = accesses[u] /\ born[v] < born[u]

Select(d) ==
    /\ stage[d] = "select"
    /\ IF \E v \in StoredVisits : Selectable(v)
       THEN /\ \E v \in StoredVisits : Selectable(v) /\ target' = [target EXCEPT ![d] = v]
            /\ stage' = [stage EXCEPT ![d] = "mark"] /\ UNCHANGED <<freed, total>>
       ELSE DeleterEnds(d)
    /\ UNCHANGED <<jobs, rowVars, waiting, usageBounds>>

\* The loop of run_housekeeping, of delete_all_cache_entries, or no loop.
GoOn(d, n) ==
    LET goesOn == \/ d = "all"
                  \/ d \in Runs /\ total[d] - n > Limit
    IN  IF ~goesOn THEN DeleterEnds(d)
        ELSE /\ stage' = [stage EXCEPT ![d] = "select"]
             /\ target' = [target EXCEPT ![d] = NoVisit]
             /\ freed' = [freed EXCEPT ![d] = 0] /\ total' = [total EXCEPT ![d] = @ - n]

\* delete_one_quicklook, first session; without a row it has nothing to do.
Mark(d) ==
    LET v == target[d] IN
    /\ stage[d] = "mark"
    /\ IF row[v] = "none" THEN GoOn(d, 0) /\ UNCHANGED rowVars
       ELSE /\ row' = [row EXCEPT ![v] = "unready"]
            /\ freed' = [freed EXCEPT ![d] = size[v]]
            /\ stage' = [stage EXCEPT ![d] = "objects"]
            /\ UNCHANGED <<size, born, accesses, target, total>>
    /\ UNCHANGED <<jobs, waiting, usageBounds>>

DeleteObjects(d) ==
    /\ stage[d] = "objects" /\ stage' = [stage EXCEPT ![d] = "row"]
    /\ UNCHANGED <<jobs, rowVars, waiting, target, freed, total, usageBounds>>

\* The object storage fails: the exception ends the loop.
DeletionFails(d) ==
    /\ stage[d] = "objects" /\ DeleterEnds(d)
    /\ deletionFaults < MaxDeletionFaults /\ deletionFaults' = deletionFaults + 1
    /\ UNCHANGED <<jobs, rowVars, waiting, created, manual>>

\* The third step, which finds the row by the visit.
DeleteRow(d) ==
    /\ stage[d] = "row" /\ NoRow(target[d]) /\ GoOn(d, freed[d])
    /\ UNCHANGED <<jobs, born, waiting, usageBounds>>

\* The admin page.
DeleteEntry(v) ==
    /\ Cardinality(manual) < MaxManual /\ "one" \notin manual
    /\ manual' = manual \union {"one"}
    /\ stage' = [stage EXCEPT !["one"] = "mark"] /\ target' = [target EXCEPT !["one"] = v]
    /\ UNCHANGED <<jobs, rowVars, waiting, freed, total, created, deletionFaults>>

DeleteAllEntries ==
    /\ Cardinality(manual) < MaxManual /\ "all" \notin manual
    /\ manual' = manual \union {"all"}
    /\ stage' = [stage EXCEPT !["all"] = "select"]
    /\ UNCHANGED <<jobs, rowVars, waiting, target, freed, total, created, deletionFaults>>

UsageNext ==
    \/ \E v \in StoredVisits :
          \/ CreateRow(v) \/ RecordAccess(v) \/ Week(v) \/ JobFinishes(v) \/ JobFails(v)
          \/ DeleteEntry(v)
    \/ \E h \in Runs : EnterLock(h)
    \/ \E d \in Deleters :
          Select(d) \/ Mark(d) \/ DeleteObjects(d) \/ DeletionFails(d) \/ DeleteRow(d)
    \/ DeleteAllEntries

UsageSpec == UsageInit /\ [][UsageNext]_usageVars

-----------------------------------------------------------------------------
(* Properties. *)

Newer(v) == {u \in ReadyVisits : born[u] > born[v]}

\* The newest quicklooks stay: housekeeping and "delete all" withdraw one only while Keep
\* newer ones are ready, also when both select at once (select_quicklook_to_delete, whose
\* answer is used in a later session); unless the admin deletes single entries.
NewestAreKept ==
    "one" \notin manual =>
        \A d \in Runs \union {"all"} :
            (stage[d] = "mark" /\ row[target[d]] = "ready") =>
                Cardinality(Newer(target[d])) >= Keep

\* Room is made: when no housekeeping runs or waits, what is ready fits the limit or only
\* protected ones are left, although the loop counts with a usage read at its beginning
\* and jobs and admins went on (run_housekeeping_without_lock).
LimitIsKept ==
    (deletionFaults = 0 /\ waiting = 0 /\ \A h \in Runs : stage[h] = "idle") =>
        Usage <= Limit \/ Cardinality(ReadyVisits) <= Keep

\* Housekeeping withdraws a quicklook only while it is over the limit: jobs that end
\* together do not make room twice (_housekeeping_lock); unless the admin deletes too.
DeletesOnlyIfOver ==
    manual = {} =>
        \A h \in Runs : (stage[h] = "mark" /\ row[target[h]] = "ready") => Usage > Limit

\* No deletion takes the row of a job that runs, though it finds it by the visit; unless
\* the admin deletes too (delete_one_quicklook, third step).
JobKeepsRow == manual = {} => \A v \in jobs : row[v] # "none"

\* What the run checks of housekeeping: the types, and the four properties.
UsageInv ==
    UsageTypeOK /\ NewestAreKept /\ LimitIsKept /\ DeletesOnlyIfOver /\ JobKeepsRow
=============================================================================
