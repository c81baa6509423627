# fov-quicklook in TLA+

TLA+ specifications of fov-quicklook, the TLC configurations that model-check them, and
TLAPS proofs about them. Source paths below are relative to `src/backend/src/quicklook/`
unless they start with `src/`.

A *quicklook* is a set of image tiles made from all CCD images of one *visit* of a
telescope. A user asks for it; a job makes it on a group of generators; it is stored
in an object storage and served until it is deleted to make room.

Contents: 1 The system. 2 The modules. 3 The runs. 4 Where the code does something else.
5 The proofs. 6 What is not modelled. 7 Plan.

## 1. The system

### Processes

| Process | State it keeps | Operations |
|---|---|---|
| **Coordinator** (one pod) | `jobs` (one entry per visit), the stages of the pipeline and their buffers, one `CcdDispatcher` per running job, the registry of generators, subscribers to the status | `POST /quicklooks`, vote and unvote, register, heartbeat, housekeeping, cleanup of old cache versions |
| **Generator** (many pods) | local storage per job (tiles, merged tiles, FITS headers, distribution config), WebSocket sessions with their queues, threads and process pools, processes of the RPC server | `generate-tiles` sessions, RPC functions (merge, transfer, clean up), serve tiles to the other generators and to the frontends |
| **Frontend** (several pods) | a cache of packed tiles, the last status and the CCD metadata it was sent | serves tiles and headers, relays requests and status, deletes cache entries |
| **Viewer** (browser) | the visit it shows and what it was told of it | creates, votes, unvotes, watches the status, asks for tiles |
| **PostgreSQL** | one row per visit: `job_id`, `ready`, `disk_usage`, `created_at`; accesses | |
| **Object storage** | packed tiles, FITS headers, metadata and time profile per visit, under a prefix per cache version; `meta.json` | |
| **Butler** (external) | collections, dataset types, exposures, datasets | queried by the coordinator, the generators and the frontends through `datasource/butler_datasource` |
| **Deploy broker** (daemon of the developers) | records of requests, tokens, bundles | pushes a build branch, waits for its image, sets and syncs the ArgoCD application |

### How they interact

1. A request reaches `route_create_quicklook`. If the visit has no row in the DB, and
   no entry in `jobs`, a job is pushed into the pipeline. From here on everything
   happens in tasks of the coordinator's event loop: what is between two `await`s is
   atomic.
2. Stage `generate_single_fits_tiles` (one job at a time) creates the row with
   `ready=False`, then runs one *worker* task per generator. Each worker holds a
   WebSocket session and asks the dispatcher for CCDs; CCDs are handed out once
   (phase 1), then again to others when they are old or their generator is lost (phase
   2). The first generator to complete a CCD *owns* it. On the generator, threads
   download the CCDs and a process pool makes their tiles.
3. The owners are told who owns what (`_save_ccd_distribution_config_rpc`), and delete
   the tiles of CCDs they do not own.
4. Stage `merge_tiles` (one at a time) and stage `upload_to_object_storage` (several)
   call functions on the owners by RPC: a function runs in a process of its own, and a
   generator that fails is only logged. A merged tile is made by its primary generator from
   the files of all owners; a packed tile is stored by the one generator that is its packer.
5. `finalize_success` (one at a time) removes the entry, stores the time profile, sets
   `ready=True`, clears the local storage and runs the housekeeping. `_finalize_error`,
   called when a stage raises or times out, deletes the objects and the row, and the
   entry goes 5 s later.
6. Every change of `jobs` is broadcast over WebSockets to the frontends, and from there to
   the viewers. A frontend takes a tile from the generators or from the object storage, by
   the stage it was told.
7. Generators register every 10 s; a heartbeat that fails removes a generator from the
   registry. A running job is told of both by callbacks. A generator that finds a new
   coordinator shuts down.
8. When the coordinator crashes, everything in its memory is gone, while functions on
   the generators run on. At startup it deletes the quicklooks that are not ready, and those
   of other cache versions.

### What is hard here

* **Interleaving**: workers, wait tasks and registry callbacks call the dispatcher in
  any order; three callers delete quicklooks; jobs identify their data by the visit;
  processes of the broker share a token and a build branch.
* **Failure**: a generator crashes in the middle of a CCD, a session breaks without
  being noticed, one call of a scatter fails, a deletion stops half-way, a process of a pool
  is killed while others wait for its answer.
* **Ordering and duplication**: a CCD is processed by several generators, and its
  completion is reported late, twice, or by a generator that was given up; votes overtake
  requests; a new subscriber gets the last value before what was sent earlier.
* **Timeouts and cancellation**: a stage's timeout stops the coordinator from waiting but
  not the generators from working; a poll that timed out may still take an item.
* **Crash recovery**: the DB and the object storage survive, jobs do not.
* **Limits**: bounded buffers and queues whose waiting tasks all wake up, slots, permits,
  caches that forget, attempts that are used up.

### Components and what makes them correct

| Component | Correct when | Modules |
|---|---|---|
| CCD dispatcher | one owner per CCD, the first to complete it; the completion event exactly when all have one; a bounded number of attempts; nobody starved | `CcdDispatcher` |
| Tile generation | the job completes only with an owner for every CCD, owners have the tiles, slots are respected, the loss of a generator does not stop the job, progress never goes back | `GenerateTiles`, `TileGeneration`, `CcdProgress` |
| CCD session | nothing assigned is lost or in two places; every reason to end ends all three tasks | `CcdSession` |
| Single-FITS pipeline | what is reported complete is complete; it ends; permits and limits fit | `CcdPipeline`, `DownloadTimeout` |
| Quicklook pipeline, API | a ready row stands for complete data; a row that is not ready is in somebody's hand; one job at a time per visit | `QuicklookLifecycle` |
| Pipeline buffers | bounded, nobody waits in vain, every job in one place, priorities respected | `PipelineQueue` |
| Jobs and priorities | a job is dropped only when somebody has left it | `JobVotes` |
| Housekeeping | the newest quicklooks are protected; usage gets below the limit if it can; nothing of an old cache version is served | `Housekeeping`, `CacheVersions` |
| Generator registry | a registered generator knows no other coordinator and works for no earlier one, unless its first answer was lost; one that is gone is noticed | `CommRegistry` |
| RPC | a call ends; values in order; no success when the function failed | `Rpc`, `RpcCall` |
| Status distribution | a subscriber ends with the newest status; an error is seen before it vanishes | `StatusRelay` |
| Tiles, object storage | what is served or stored shows every CCD once; a viewer is served in every stage | `TileStore` |
| Tile geometry | tiles, their names and their packs agree at the edges | `TileGeometry` |
| Names, data source | names lead back to what they name; lists miss nothing; caches are true | `VisitNames`, `VisitQueries`, `QueryOptions`, `VisitResolution` |
| Deploy broker | the image of the commit that was asked for is deployed, and every request ends | `DeployBroker`, `BrokerTokens`, `DirtyWorktree` |

`PROJECT.json` lists every component with its sources, and every hazard with its line and
the properties about it.

## 2. The modules

```
the making of a quicklook
  TileGeneration (abstract)       CcdDispatcher
         ^ refinement                 ^ extended, refinement
         +------- GenerateTiles ------+  <----- GenerateTilesProofs
  CcdSession  <--+                            one session on a generator
  CcdPipeline <--+--- CcdSessionProofs        its threads and processes
  CcdProgress <--+                            what sessions report of a CCD
  DownloadTimeout <--+                        its downloads, with a clock
  TileStore <--+-- TileStoreProofs            its tiles, until a viewer sees them
  TileGeometry <--+                           where they lie
the calls
  RpcCall (abstract) <--refinement-- Rpc <----- RpcProofs
the coordinator
  PipelineQueue <----- PipelineQueueProofs    buffers and tasks of the stages
  QuicklookLifecycle <----- QuicklookLifecycleProofs    one visit over jobs and restarts
  JobVotes      <--+                           users
  Housekeeping  <--+                           deletions
  CacheVersions <--+-- ServicesProofs
  CommRegistry  <--+                           who works for whom
  StatusRelay <--+-- StatusRelayProofs        what frontends and viewers are told
names and queries
  VisitQueries <-+-- StatusRelayProofs        the lists of visits
  VisitResolution <--+-- ServicesProofs       which visit a UUID means
  QueryOptions    <--+                        what the query form suggests
  VisitNames                                  spelling and reading a name
the deploy broker
  DeployBroker  <--+-- ServicesProofs          requests
  BrokerTokens  <--+                           their tokens
  DirtyWorktree <--+                           what the client sends
```

In every module `Init` and the actions follow the code, one action per section that the
event loop, a thread or a process runs without letting another one see its state: a
coroutine's step ends at an `await` that really suspends, a thread's at an operation on what
it shares. Invariants are conjunctions of named parts; each part has its own comment.
`MC*` modules instantiate the others for TLC. `MCParts` and `MCLiveParts` hold several parts
that share no state: a behaviour is a behaviour of one part, which the initial state chooses
and no step changes, so that the invariants of a part are checked of all its states, in one
run. `MCParts` extends the modules that are proved about: these parts have variables of their own,
and the run checks the invariants that the theorems state. `VisitNames` is an instance that has
the variables `v1` and `v2`.

### The making of a quicklook

**CcdDispatcher** is `coordinator/create_quicklook/ccd_dispatcher.py`. Its lock makes every
method one action. CCDs are their positions in the sorted list, so submission *i* is CCD *i*.
`_ccd_metadata_dict` and `_ccd_generator_map`, always written together, are the function
`owner`. Time is one bit per submission, `young`: `GrowOld` says that
`resubmit_min_age_seconds` went by, and `on_generator_lost` clears it too. Callers complete,
return and fetch CCDs in any order.

**GenerateTiles** is `generate_single_fits_tiles_coordinator.py` with the parts of the
generator and of the registry it talks to. It extends `CcdDispatcher`, uses its actions,
and adds, for each generator, the *worker*, by the `await` it is at (`pc` is
*connect*, *batch*, *first*, *serve*, *assign*, *between*, *retry*, *stop*, *done*; with
`slots`, `batchSent`, `pending` and `failures`); the *session*, which may be broken without
anybody having noticed, with the copies in the generator's pipeline (`working`), on their way
back (`results`), and of sessions that are over (`zombies`), and the `wait_and_assign` tasks
(`waits`, `returning`); and the *generator*: whether it lives, the CCDs it has tiles of,
whether it saved the distribution config, whether the registry lists it. Sending may deliver,
get lost without notice, or raise. A crash is final for an id, because ids are drawn when the
process starts. **TileGeneration** is the promise without any of this: adopt one owner per
CCD, complete when all have one, decide nothing after the end. The mapping is the identity
on `owner` and `outcome`.

**CcdSession** is `generator/api/ccd_processing.py`: `receive_assignments`, `send_results`
and `run_pipeline` with the thread behind it. `AbandonGet` is the `future.result(timeout=2.0)`
that gives up on a `get()` without cancelling it. Each assigned copy is a value of its own.
The coordinator may assign or send the end signal at any time, more freely than it does.

**CcdPipeline** is the inside of that thread: `generate_single_fits_tiles.py` with
`utils/imap_unordered_threadpool.py`, the downloads and the process pool. `pathFeeder`, `main`
and the refill thread are variables of their own; `place` says for each CCD which of them has
it. `ccdFile` is *part* while a download writes it. The permits of `download_sem` are released
by the process that handles the CCD. **CcdProgress** is the progress of a CCD as the status
shows it: each session with a copy reports its quarters in order, and `Merge`
(`_merge_generate_progress`) joins what comes from several sessions, one of which may break off
at any time. **DownloadTimeout** is `generator/ccd_download.py`: the same downloads with a clock
(`Tick`), the two attempts of a CCD, and the timeout that is fixed by the first successes for
all of them.

**TileStore** follows the tiles of one quicklook from the files the generators wrote to the
answer of a frontend: `save_ccd_distribution_config` with `remove_non_owned_tiles`, merging,
the removal of the single-FITS tiles, packing, storing, the cleanup, and `frontend/api/`
with its `lru_cache`. An image is the number of times each CCD was added to it, so that a
hole and a CCD that is added twice both show. Generators crash, calls fail, files are
rewritten while they are read (`torn`), late writers appear (`ZombieWrites`), the frontend
restarts, and what it knows of the stage (`seen`) is any stage the job has passed since.
**TileGeometry** says on one axis, with the arithmetic of the code, why the files that are
looked for are those that were written: `iterate_tiles`, `TileInfo` and `_iterate_pos`. A
pixel is the set of the rows it is the mean of.

### The calls

**Rpc** is `rpc/`: the client, the server, the queue proxies, the process pool and the manager
process. Each call is a message queue on the wire (`wire`), one between processes
(`results`), a coroutine on either side and a task in the pool. Processes are killed, the
manager is lost, connections break and callers give up. **RpcCall** is what callers rely
on: the values of a function in order, none skipped or repeated, and no return without all of
them while the manager lives. `Rpc` implements it: what was produced is what the task made,
and what was delivered is what the client got.

### The coordinator

**PipelineQueue** is `utils/pipeline` with the stages of `quicklook_pipeline`. Each stage has
a buffer with the two `asyncio.Event`s of `_Buf` (`ev`, `notFull`) and tasks, which are at
*get*, *idle* (waiting for an item), *work*, *push* or *blocked* (waiting for room). `set()`
wakes all tasks that wait; each runs again later and finds the buffer as it is then. `Picked`
is the item picker: most users first, then the oldest. Jobs are requested, voted for, fail and
are forgotten at any time.

**JobVotes** is the way of the votes: `useQuicklookVoting.ts`, `useWatch.ts` and
`useQuicklookMetadata` of the viewer, `frontend/api/quicklooks.py`, the handlers of
`coordinator/api/app.py` and `job/priority.py`. Calls arrive in any order. A job is the number
of stages it has entered; at the checked ones it is dropped without users.

**QuicklookLifecycle** is one visit over several requests, jobs and coordinators. `row` is the
DB row, `objects` what is stored, by part; `entry` is `jobs[visit]`; `stage[j]` is the place of
job *j* between two steps that touch shared state, `errorStep[j]` its place in
`_finalize_error`. `calls` are the upload RPCs the coordinator waits for, `running` the
functions that run on generators whether or not anybody waits, `missing` those that failed and
were only logged. Each DB session is a step, because another process (the admin page) or task
may come in between. `deleter` holds the three callers of `delete_one_quicklook`. With
`SlowRequests = FALSE` a request passes from its look at the row to its push, which is the
closing of one DB session, before a job leaves `jobs`; a job takes minutes. With `TRUE` TLC
finds `OneJobAtATime` violated: the request pushes a second job, whose error on the primary
key deletes the data of the first.

**Housekeeping** is `coordinator/housekeeping/` over several visits: `Read`, `Select`, `Mark`,
`DeleteObjects` and `DeleteRow` are the sessions of the loop, which runs under
`_housekeeping_lock` (`waiting` are the calls that wait for it); the two deletions of the
admin page run without it. `freed` is what the loop counts with. **CacheVersions** is the start
of the coordinator with `prepare_stale_cache_cleanup` and the deletion of stale versions in
the background; it may be killed between any two steps and deployed again with any version,
older ones too.

**CommRegistry** is `comm/coordinator.py`, `comm/generator.py` and `frontend/comm.py`. A
coordinator's id is the number of its start. `registrations` are requests that are not handled
yet; each says what its sender knew and whether it still waits. `answer[p]` is the id in an
answer on its way. Of the work of the jobs only its owner is modelled: a job takes the
generators it finds in the registry and keeps those that the registry forgets (`workers`,
`JobTakes`), and calls them (`JobCalls`); `serving[g]` is the set of coordinators whose calls `g`
has not ended (`WorkEnds`), and is empty again when the process goes. A call may outlive its
coordinator. `unheard[g]` is a history variable, which no action reads: the coordinators whose
answer `g` gave up before it knew any. A heartbeat takes a snapshot (`checks`), waits for all
answers, and then removes those that failed; in between generators register, are killed and end.

**StatusRelay** is the way of a status: `job/watcher.py` and two `Broadcast`s
(`utils/broadcast`), the WebSocket between them, the relay and the handler of the
viewer's WebSocket in `frontend/api/quicklooks.py` and the viewer. `last` and `list` are the last values, which are set at
once; `upstream`, `queue`, `wire`, `lists` and `items` are what is on its way. A message names
its job, and says what the status of the job is when it is sent. Large statuses (the metadata
of all CCDs) are sent once.

### Names and queries

**VisitNames** is `VisitName` of `types.py` and `quicklookId.ts` of the viewer: escaping,
parsing, the cache key and the way back from it, over all spellings up to a length of the
characters that the code tells apart. **VisitQueries** is the list of visits of
`ButlerDataSource`: one collection or the configured scopes, pages, the SQL shortcut for
Postgres registries next to what the Butler does, the day counts of the calendar, with SQL and
without, and the scopes that are named for an exposure. A text is a sequence of words. The Butler's
reading of it is a function over its stretches, each read from smaller ones; the SQL's reading is
two cuts. Sorted lists are numberings of a set by an order. The request for a page asks one scope
after the other, and exposures arrive in between. The SQL counts difference images in one
collection while the list has those of all; the two are compared only where the code means the
same. `query_where_examples` has no caller. **QueryOptions** is
the query form with its `lru_cache`s, the fallback when the registry fails, and the search
for dataset types in batches; a list of suggestions is a set, whose order is that of the names. **VisitResolution** is the resolution of UUIDs with its two
memories and the queries of other processes for the same visit. In all of them the Butler is
external: it is what the code expects of it.

### The deploy broker

**DeployBroker** is `src/dev/deploy-broker`: a thread per request, with the branch, the
workflow runs and the ArgoCD application that all threads share, restarts of the daemon, the
endpoint that clears `image.tag`, and `deploy-broker-verify`, which polls. **BrokerTokens** is
`TokenStore` with its two locks, processes that die and the administrator's `set-tokens`.
**DirtyWorktree** is `create_bundle` of the client: the lines of `git status` and what
`_apply` (`ApplyLine`) does with each, while the user may go on editing; git is external. A path
is a number with the directories above it. The lines are a set that is applied in the order in
which git prints them (`Comes`): those of tracked files by path, then the new files by path.

## 3. The runs

| Run | Question | Instance |
|---|---|---|
| `dispatcher` | adoption, completion and attempts under any calls; does the round robin reach every CCD | 3 CCDs, 2 generators, cap 2 |
| `generate_tiles` | do workers implement `TileGeneration` and use the dispatcher as specified; slots; copies of a CCD that are out at once; tiles at the owners | 2 CCDs, 2 generators, 1 slot, cap 1, 2 connect retries, 1 crash, 1 network fault, errors and timeout on |
| `lifecycle` | is a ready row backed by data; one job at a time; does success leave a ready row | 2 jobs, 2 generators, 1 crash, 1 fault, errors and timeouts |
| `lifecycle_in_hand` | is every unready row worked on, and resolved | 2 jobs, 1 generator, 1 crash, 1 admin deletion, errors and timeouts |
| `registry` | do registered generators know and work for this coordinator only (but for lost first answers); do the dead leave, do the living settle | 1 generator, 1 frontend, 2 restarts, 2 faults |
| `rpc` | does a call keep the promise of `RpcCall`, and end | 2 calls, one with an `RpcQueue`, 1 process in the pool, 1 fault |
| `status` | do frontend and viewer end up with what the coordinator knows; is an error seen | 1 job of the visit, others around it, queues of 2, 3 messages under way, 1 fault |
| `tiles` | is what is served and stored whole; is a viewer served in every stage | 2 CCDs, 2 generators, a packed tile of positions with one, two and no CCDs, 1 fault, 1 late writer, 1 request |
| `parts` | the invariants of 15 parts: `CcdSession`, `CcdPipeline`, `CcdProgress`, `DownloadTimeout`, `TileGeometry`, `Housekeeping`, `JobVotes`, `CacheVersions`, `VisitResolution`, `QueryOptions`, `VisitQueries`, `VisitNames`, `BrokerTokens`, `DeployBroker`, `DirtyWorktree` | in `MCParts.cfg`; of `VisitNames` at its `INSTANCE` in `MCParts` |
| `live_parts` | `PipelineQueue` (bounds, wake-ups, one place per job), and that five processes end what they began: jobs leave the pipeline, pipelines and sessions of generators end, a job survives a crash, requests to the broker end | in `MCLiveParts` |
| `lost_ccd`, `waiting` | two statements of the repository that the code does not keep, see section 4 | |

**Bounds** are the constants `Max*`; each is named in a guard or in an `ASSUME` of its
module. They are enough for the cases that matter: two CCDs and two generators give
a resubmission to the other generator, a duplicate completion in both orders, a lost
generator with the other one waiting; one slot makes the limit on slots bite; one
fault at any point, after any crash, gives the half-done deletions and sessions. Two jobs
are needed for one job to meet what another one left; two copies for one to pass the other in
the queues and in the pipeline. A buffer of one place behind two tasks makes one of them
wait, and a third visit makes it wake up to a buffer that is full again. Three visits, with
one protected and room for two, make housekeeping choose; two runs of it meet at the lock. A
CCD of 14 rows at every half row up to 20, with tiles of 4, has its edges on, before and
behind the edges of tiles, packs and padding on all four levels. Names of five characters hold
every sequence of escapes that could be read in two ways. Four starts and three versions give a
release, a return to the old version, and a kill in between. Four paths, one of them two
directories deep below two others, and five edits let a file become a directory and a directory
a file, staged or not, with a rename across both. Generators meet in the
registry only through a heartbeat that waits for all of them; one generator shows that, because
its own heartbeat may end at any time after its check. Of the parts that are proved about, smaller instances
do: one process of the pool, one thread in each process of the broker. What larger instances could add are
several simultaneous faults; the violation runs show that one is enough for what goes wrong.
Symmetry is used only for invariants and action properties, never with liveness.

`CHECK_DEADLOCK FALSE` is set where the system may come to rest: the job is over, the session
is closed, all requests are answered. The dispatcher never stops.

**Fairness.** All of it is weak fairness of tasks, threads and processes that the event loop
or the operating system schedules, of timers (a submission grows old, the delayed
removal of an entry, a download's timeout), of loops (heartbeat, registration, polling), and
of the restart of the coordinator's pod. Faults, requests, votes, deletions by the admin,
assignments, and what the jobs have a generator do (`WorkEnds` too) are never fair. In `live_parts` the fairness of a part is the hypothesis of what
the part promises (`PipelineFairness => ...`), because in the behaviours of another part its
actions never happen; the formulas are those of the modules. There `GenerateTiles` has a crash
but neither errors nor a timeout, so that the job cannot end that way. `PartsEnd` is the
conjunction of what eight formulas of the parts promise.

Liveness is stated with its exceptions: a session may stay open after a stall of the event
loop; a call may wait for ever when its function died with the pool, or for the items that a
caller who left never sends (`Stranded`, `HeldUp`, `Waiting` in `Rpc`); a request to the broker
may stay *running* after a restart. In `lifecycle` there are no admin deletions, in
`lifecycle_in_hand` no storage faults. `status` assumes that delivery is faster than the 5 s for
which the entry of a failed job stays (`SlowRelay = FALSE`). The next section says what
happens otherwise.

Every property of a passing run has a mutant in `PROJECT.json`: a definition with a plausible
bug, kept next to the one it replaces and marked *Mutant* in the module, under which TLC finds
the property violated. No specification uses these definitions.

## 4. Where the code does something else

Two runs check a statement of a docstring or README that the code does not keep; TLC finds
it violated. `PROJECT.json` quotes them.

| Run | What happens |
|---|---|
| `lost_ccd` | `LostCcdIsResubmittable`: sends that fail use up a CCD's attempts; when its generator is lost, nobody may take it, and the job waits for its timeout |
| `waiting` | `WaitingIsCounted`: a vote, an unvote and the request of a job arrive in another order than they were sent; a job whose visit somebody is looking at counts no user and is dropped at its next stage |

The models have more behaviours of this kind, without a run of their own. The properties leave
them out by name, or are stated so that they allow them.

*Jobs and rows*

* An exception in the pipeline of a generator does not reach the coordinator: the worker
  waits for its stage's timeout (`generate_single_fits_tiles_coordinator.py`).
* A generator that was removed from the registry, and whose worker ended, registers again and
  stays idle in this job.
* Uploads go on after the timeout of their stage, and survive a crash of the coordinator: they
  leave objects without a row.
* A storage error in `_finalize_error` (`create_quicklook/__init__.py:296`) leaves a row that
  blocks its visit until a restart.
* A generator that fails in a scatter is only logged, so that a job becomes ready with parts
  missing. A job may also mark its row as ready between the two steps of a deletion by the admin
  page, or update nothing because the row is gone.
* Two deletions of one visit may overlap; the later one then finds its row by the name of the
  visit (`housekeeping/__init__.py:170`), which may be the row of the next job.
* A storage error in the loop of housekeeping leaves a row that is not ready, and whose space is
  not counted any more, until a restart.
* Votes for a visit without a job return before the access is recorded
  (`coordinator/api/app.py:121`): the accesses by which housekeeping selects are those of the time
  in which a job ran.

*Generators*

* After a stall of the event loop, a `get()` that was given up takes a CCD, which is lost, or
  the end signal, and the session stays open (`ccd_processing.py:209`); when the end signal was
  received before the connection broke, the disconnection is not noticed either.
* `cancel_event` leaves completed CCDs unsent (`ccd_processing.py:122`, against the comment at
  249). After the coordinator's end signal this does no harm: all CCDs are complete by then.
* A prefetched CCD that was delivered is sent again, or given back, after a connection error
  (`generate_single_fits_tiles_coordinator.py:242`); `attempts` then counts less than what was
  handed out, and less than what generators process, because the copy of the lost session goes on
  (`zombies`). What sessions, workers and wait tasks have out at once stays within the limit
  (`CopiesBounded`); how often a CCD is handed out in all, and how many generators process it, has
  no limit.
* A generator whose first answer is lost has no coordinator's id (`comm/generator.py:122`, `:139`),
  although it is registered and gets jobs. When the coordinator restarts, it asks again without an
  id, and the next one registers it with the earlier one's work still running
  (`comm/coordinator.py:148`). `SameCoordinator` names this case (`unheard`).
* A duplicate may still be processed by the owner of its CCD when the tiles are merged; `save`
  writes in place, so that a reader may find half a file (`torn` in `TileStore`). Such a file
  raises when it is read, and the tile is missing.
* Only downloads that succeed are sampled for the timeout; if none succeeds in time, the first
  limit stays in force. A child that fills its pipe before it ends does not end
  (`ccd_download.py:143`), and one that does not die within 5 s of `terminate()` raises (`:171`):
  that CCD has no second attempt.
* A generator that cannot reach the coordinator retries, while the module docstring of
  `comm/generator.py` and the README of `comm` say that it ends.

*Calls and messages*

* A connection that closes without a last message, and the loss of the manager process, end
  `iterate()` like a success (`rpc/client.py:117`). A call whose function died with its pool waits
  for ever. `RpcQueue`, one of the cases of the model, has no caller but tests.
* A frontend that connects again has not got the large statuses of running jobs
  (`job/watcher.py:40`).

*Names, queries and caches*

* Two spellings of one name are two entries of `jobs` on one row. A legacy name of three parts
  is accepted as a name but its cache key is not read back (`types.py:105`): the cleanup at
  startup raises on such a row. `frontend/api/cache_entries.py` takes the path of a deletion as
  a name, whose spelling differs from the cache key when the collection holds `/` or `!`.
* A compatibility check of a dataset type that fails because of the registry is cached as "no"
  (`butler_datasource/__init__.py:1566`).

*Deploy broker*

* After a restart of the daemon records stay *running*.
* A staged rename whose new path was deleted (`RD`) raises *disappeared* in the client.

## 5. The proofs

TLC checks instances; the theorems hold for every value of the constants. Every module that has
safety properties is proved about but one (`VisitNames`). In each of them an inductive invariant
`IInv` (or the conjunction that is named) holds initially, every action keeps it (one lemma or
step per action), and the theorems follow from it.

### GenerateTilesProofs

About the dispatcher by itself, for every number of CCDs, every set of generators and every cap
(`NumCcds \in Nat`, `NoGenerator \notin Generators`, `MaxAttempts \in Int`), as `DispatcherSpec`
describes it:

| Theorem | Property |
|---|---|
| `DispatcherTypeCorrect` | `DispatcherTypeOK` |
| `CompletionExact` | `CompletionIsExact` |
| `AttemptLimit` | `AttemptsBounded` |
| `PhasesInOrder` | `NoResubmitBeforeAllSubmitted` (no run of its own) |
| `FirstCompletionStays` | `FirstCompletionWins` |

`DispatcherTypeOK` is inductive by itself, because it says that the submissions are as many as
`remainingIndex`. The other three invariants are not inductive without each other:
completion is exact only if a CCD that has no owner yet can still be completed by the next
call, which needs that CCDs beyond `remainingIndex` have neither attempts nor owner; and the
limit on attempts needs that a CCD in phase 1 has none. `DispatcherInv` is their conjunction
with `DispatcherTypeOK`; `DispatcherInvInit` and `DispatcherInvStep` prove that it holds at the start
and that each action keeps it, one step per action. `FirstCompletionStays` follows from the type
invariant alone.

About the job, for every number of slots, retries, crashes and faults too (assumptions: also that
`NoCcd` is no CCD, and that the limits are natural numbers, those on slots and on retries
positive):

| Theorem | Property |
|---|---|
| `KeepsPromise` | `ImplementsTileGeneration`: a job does what `TileGeneration` promises |
| `UsesDispatcher` | `FollowsDispatcher`: `GenerateTiles` implements `CcdDispatcher` |
| `JobCompletionExact` | the theorem about the event of completion, in a job |
| `CopiesAreLimited` | `CopiesBounded`, in `GenerationInv`: the copies of a CCD that are out at once |
| `GenerationIsSafe` | `GenerationInv`: the state of a job is as the workers need it, slots included |
| `OwnersHaveTiles` | `OwnerHasTiles` |
| `SlotsAreRespected` | `SlotsRespected` |
| `TypeCorrect` | `TypeOK` |

That the workers use the dispatcher as it is meant to be used is not obvious: a completion, or
the return of a CCD, is a step of the dispatcher only if that CCD was handed out, while sessions
break, results of an earlier session are thrown away, and a wait task gives a CCD back later.
`Handed` says it of everything that sessions, workers and wait tasks hold; `AtRest` that nothing
is left of a session before and after the job, when a report would change a decision. An owner
has its tiles because what a generator reported it had made (`ReportedHasTiles`), and because
only CCDs owned by others are removed. `TriesLeft` bounds the failures of a worker. The promise
of `TileGeneration` needs one thing more, that a job that completes has an owner for every CCD:
this is `JobCompletionExact`, the theorem of the dispatcher.

`SlotsRespected` counts the copies of CCDs that a session has, and needs `SlotInv`: a
worker that is outside of a session, or has not sent anything in one, has left no copies behind in it
(`NoCopies`), so that a new session begins with none; and there are finitely many copies, without
which their number says nothing. `CopiesUp` and `CopiesDown` say what one copy more or less does to the
count, `SendFits` that a worker sends no more than it has slots for.

`CopiesBounded` is about what is out, where `AttemptsBounded` is about a counter that also counts
failed sends and forgets what is given back. `CopiesInv` links them: the copies of a CCD that are
out (`OutCopies`: those in sessions, the one a worker is to send again or to give back, those of
wait tasks) are never more than its attempts. Whoever gives one back takes a copy out of that
set in the same step, and a session that begins adds none but those it is sent, because it has
none (`SlotInv` again). The limit of the dispatcher, which holds in a job by `UsesDispatcher`, then
limits the copies. Those that generators still process for lost sessions are not among them.

### CcdSessionProofs

Four modules about a CCD on its way through a generator. The session, for any set of copies and
any number of stalls of the event loop, with failures and the loss of the connection at any time
(`SessionAssumption`: `MaxStalls` is a natural number, `End` no copy):

| Theorem | Property |
|---|---|
| `CopyInOnePlace` | `AtMostOnePlace` |
| `NoCopyIsLost` | `NothingLost` |
| `SessionIsSafe` | `SessionInv`: both, with the types |
| `TypeCorrect` | `TypeOK` |

`AtMostOnePlace` counts places and is not inductive: a copy that is twice in one queue is in one
place until one of the two moves on. `Singles` excludes this; `Alone` says which places exclude
each other; `Sending` that a message that was sent is not in the sender's hand any more, so that
it is not counted as under way; `Found` that what was assigned is in one of the places.

The pipeline behind it, for any set of CCDs and any number of threads, processes and failures
(`PipelineAssumption`: there are no fewer permits than slots; the code has two more):

| Theorem | Property |
|---|---|
| `PipelineIsSafe` | `PipelineInv`: a pipeline that returns has saved and reported all it was given; no download waits for a permit unless something failed |
| `PipelineOverIsOver` | `OverIsOver`: nothing goes on behind a pipeline that is over |

That no download waits is a matter of counting. `PermitsInv`: the free permits and the CCDs that
hold one (`Holders`) are never more than there are, and exactly as many until a CCD is dropped
by a failure, with its permit. `SlotsInv`: at most `Slots` CCDs are under way, from their ref
until their reports were yielded. A CCD that waits is under way and holds no permit, so one is
free; `MoveHolds` says what a move does to the count, and the count means something because
finitely many refs were given (`PipeShapes`). That a pipeline that returns is complete needs the
order in which its threads end (`ThreadsInv`: who leaves has nothing in hand; a CCD is dropped
only behind a failure), that the end mark is the last message of the queue and is taken last
(`QueueInv`), and that what a place of a CCD implies was reported before it got there
(`ReportsInv`).

The progress, for any number of sessions, CCDs and steps:

| Theorem | Property |
|---|---|
| `ProgressIsFurthest` | `ProgressInv`: what is shown of a CCD is the furthest that any of its copies has reported |

`_merge_generate_progress` compares ratios by cross-multiplication. `TimesKeepsOrder` and
`CountDecides` say that of two reports with one total the counts decide; `MergeIsFurthest` that
`Merge` then takes the one with the higher count.

The downloads, for any CCDs, any number of threads, slots, attempts and errors and any first
timeout (`DownloadsAssumption`: CCDs are numbered, the numbers are natural, there is an attempt):

| Theorem | Property |
|---|---|
| `TimeoutsAreFair` | `DownloadsInv`: the timeout is twice the median of the first successes; a CCD is given up only after whole attempts, and keeps no thread for longer than its attempts |

The timeout changes while downloads run, so the time that a CCD has taken is compared with the
shortest and the longest timeout there was. `Counted`: in attempt *k* it has taken at least
*k* - 1 times the shortest, at most *k* - 1 times the longest, and the age of this attempt;
`BoundsWiden` that fixing the limit only widens both bounds. That the limit is at most twice the
first timeout holds because everything in the sample ended before it. `NthIsThere` and
`MedianHalves` say of any sequence of numbers that its median has half of them on either side,
by counting them.

### TileStoreProofs

Two modules about tiles. The store, for every number of generators, CCDs, positions and packs, however the CCDs lie at the positions,
and any number of faults, of tiles that are written late and of requests (`TileAssumption`: what
is at a position is a set of CCDs, a position has a pack, a position is no CCD):

| Theorem | Property |
|---|---|
| `TilesAreWhole` | `StoreInv`: what is served and stored shows every CCD once; a ready quicklook is stored |
| `TilesAreShown` | `ShownThroughout`: without faults a viewer is served in every stage |

`ShownThroughout` says that an answer is not empty, at a moment when nothing is left of the
reason. The invariant has two halves. `StorageInv` is about generators and storage: every image
there is whole (`ImagesWhole`), and as long as nothing failed (`NothingMissing`) each step finds
what the steps before it were to leave: the tiles of every owner before merging, the metadata
and the config while the job runs, the merged tiles of all positions after merging, the packs
and headers once they are stored. Each of these is there *or still to be done at the present
step*, which makes it inductive. It is why removing the single-FITS tiles, and cleaning up after
the job, takes nothing away that somebody still needs. `ViewerInv` is about the frontend, which
reads generators one after the other while the job goes on: what it has gathered of a tile is
whole but for the owners that are left (`GatheredSoFar`), and what it has cached is whole,
though the storage may have been deleted since.

The geometry, for tiles and packs of any size, any number of levels and a CCD anywhere on the axis
(`GeometryAssumption`: natural numbers, a tile has rows):

| Theorem | Property |
|---|---|
| `TilesAreInTheirPlaces` | `GeometryInv`: the pixels of a tile are the means of the rows at its place, `TileInfo` names the positions that have a tile, and every tile is in a pack that is sent, at its index there |

`iterate_tiles` shrinks one array from level to level, padding it where its first row is odd,
while `TileInfo` divides the edges of the box. `GeometryIInv` says that both are the same: at each
level the rows that are held are those of the box divided by 2^level, and each is the mean of
the rows that lie under it. `QuotientIsLargest` (a quotient is the largest number whose multiple fits)
gives the arithmetic of edges: `QuotientOfQuotient`, `QuotientIsMonotone`, and `ShrinkIsNextLevel`, that padding
puts each pair of rows on the row of its place at the next level. `NamedTilesAreCut` and
`LastRowIsInATile` treat the edges, where the code's two ways of rounding differ.

### RpcProofs

For any number of calls, processes of the pool, values and faults, with any function and
caller, `RpcQueue`s included (assumptions: those of `Rpc` on its constants):

| Theorem | Property |
|---|---|
| `KeepsPromise` | `ImplementsRpcCall`: a call keeps the promise of `RpcCall` |
| `TypeCorrect` | `TypeOK` |

The hard part of the promise is that a call that ends without an exception has delivered all
values: what the caller sees of this is one exit message, which the process, the server, a
broken connection or a lost manager may have had a hand in. So the invariant describes the whole
stream of a call:

* `Stream`: while the server passes on results, the messages on the wire followed by those in
  the queue of results are the next ones of the function without a gap, and the process will put
  those behind them.
* `Wire`: whatever happened to the server, the messages on the wire are the next values in order; an
  exit that no error precedes comes behind the last value of a function that returned, unless
  the manager is lost.
* `Exits`: the server closes a connection only behind an exit, so that a caller never takes the
  end of a broken call for its success.
* `Delivered`: the caller has the first values of the function. `Control`, `Fresh` and `Items` relate
  the states of the two sides, of the task and of its `RpcQueue`.

`ValueFacts`, `ExitFacts` and `EndOfMessagesCases` draw the conclusions for the caller;
`AbstractStep` maps every step to one of `RpcCall` or to a stutter. The many lemmas about `WireOK` and
`StreamOK` are what taking from, sending to, and cutting off a stream do to it.

### QuicklookLifecycleProofs

For any number of requests, jobs, generators and restarts, with errors and timeouts at any time
(assumptions: those of `QuicklookLifecycle` on its bounds):

| Theorem | Property | Also assumed |
|---|---|---|
| `LifecycleIsSafe` | `LifecycleInv`: a ready row has its objects, one job at a time | prompt requests, no admin deletions |
| `SuccessMakesReady` | `SuccessIsReady` | the same |
| `UnreadyInHand` | `UnreadyIsInHand` | the same, and no storage faults |

The three hypotheses are not conveniences: without each of them the code does something else
(section 4). A request that takes longer than a whole job may push a second one after its check;
a deletion by the admin page meets jobs; a storage error in `_finalize_error` leaves a row
behind. The invariant says who may be in the middle of what: `Entries` (the entry of `jobs`
stands for the one job in the pipeline, and a request that has looked but not pushed has seen no
row), `Rows` (while a job holds the row it is its row, not ready; one job generates),
`Deletions` (they are of rows that no job holds; none but that of the startup runs while the
coordinator is not up), `CallsInStage` and `Progress` (what is stored, reported missing, or
still being uploaded, by stage). `ReadyIsComplete` follows at the one step that makes the row
ready. For `UnreadyInHand` the invariant adds `InHand`.

### ServicesProofs

What surrounds the jobs, nine modules, each for all values of its constants (the assumptions are
that bounds are natural numbers, names of different things differ; of `Housekeeping` that there are finitely many visits, whose
sizes are natural numbers; of `QueryOptions` that there are finitely many names and that a list
may have one; of `DirtyWorktree` that a directory sorts before what is in it, and that the first
commit is one a filesystem can hold):

| Theorem | Property |
|---|---|
| `RegisteredIsCurrent` | `RegistryInv`: a registered generator knows no other coordinator, and works for no earlier one but those whose first answer it gave up |
| `HousekeepingIsSafe` | `UsageInv`: the newest are kept, the limit is kept, nothing below it is deleted, a job keeps its row |
| `DroppedOnlyIfLeft` | `VotesInv`: a job is dropped only if a viewer has left its visit |
| `VersionsAreKeptApart` | `VersionsInv`: what is ready is served from its own version; what is stale is planned |
| `TokensAreSafe` | `TokensInv`: one command fills both files, a rejected token gets a newer one, the files agree |
| `BrokerIsSafe` | `DeployInv`: the image of the commit, changes are synced, a report is complete |
| `VisitsAreResolved` | `ResolutionInv`: datasets are those of the visit's run, a listed CCD can be read |
| `SuggestionsAreSound` | `OptionsInv`: a failure is not kept as an answer, *exact* is true, suggestions are the first ones |
| `WorktreesAreBundled` | `WorktreeInv`: what is bundled is the worktree, which is refused for a reason only |

None of these is inductive:

* **Registry.** An answer on its way could make a registered generator know another coordinator,
  and a request on its way could register one that does. `Fresh` rules this out: a coordinator
  that is down has neither registry nor requests, while a generator is registered or has a
  request out only the current coordinator can be answering it, and a request that will be
  accepted comes from a generator that knows no other coordinator. `Served` traces the work back
  to its registration: what a generator does for a coordinator, or what the coordinator's jobs may
  still call it for, it does for one whose id it knows or is about to hear, or whose answer it
  gave up (`Heard`). A generator that knows an id is registered by no other coordinator; so all
  it does is for this one, or for one whose answer it gave up.
* **Housekeeping** works with a total that it read once, while jobs end and the admin deletes.
  `UpperInv`: as long as no deletion failed and no further run is due, it counts at least what
  is there, so that it does not stop too early (`RoomIsMade` when it stops). `LowerInv`: as long
  as the admin deletes nothing, it counts no more than is there, so that it does not delete too
  much. `KeptInv`: what was selected had `Keep` newer quicklooks, and still has them when it is
  marked, because without `DELETE` of one entry whoever deletes takes older ones first.
  `AloneInv` and `DeletersInv` say whose row a deleter has in hand, `RowsInv` that the creation
  times order the rows. Sums over visits are cardinalities (`Units`); `UnitsWithout`, `UnitsUp`
  and `UnitsSame` say what one visit more, less or the same does to them, and `Selects`,
  `Marks`, `DeletesObjects`, `DeletesRow`, `EntersLock` and `AdminDeletes` treat one step of a
  deletion each.
* **Votes.** A job is dropped at a count of zero. `CountInv`: a count begins with one, and only
  a viewer that left sends an unvote, so a count of zero has an unvote behind it.
* **Cache versions.** `ReadyIsOfMetadata`: what is ready lies under the version in `meta.json`,
  whichever version made it. `StartInv` says what a start has done before each of its steps,
  wherever the one before it was killed: the plan first, then the rows, then `meta.json`, then
  the objects.
* **Tokens.** `TokenLocks` says who has which lock, `TokenFiles` what the thread with the file
  lock leaves in the two files step by step. `FillsAreUndone`: when a file is missing and nobody
  writes, every command that filled it was undone by a failure, so that no second command was
  needed without one. `TokenRefreshes` says that a token made for a refresh is newer than the
  one rejected.
* **Broker.** `EndsOnce`: a record is final exactly when its thread has ended, so that nothing
  is logged behind the end that was reported. That the image is the commit's rests on the newest
  workflow run of the commit being one of its runs (`Greatest`, `NewestIsOfCommit`), and on runs
  that are only appended.

* **Visit resolution.** Datasets of a difference image are found in the right run only while
  the process remembers the run. `ResolutionIInv`: what is remembered was opened in this process,
  nothing twice, and until more was opened than fits all of it is remembered; so that nothing has
  been pushed out that `ServedIsOfRun` needs.
* **Query options.** The batches of a search continue at an offset, while names are registered
  before and behind it. `BatchesOK`: what was found is what was seen and is supported; and a name
  that was there from the start and was not seen yet is behind all that was seen and still has a
  place at or after the offset, because a registration only moves names to later places. The
  order of a finite set of names numbers them without gaps (`PlacesAreTaken`, `PlacesCounted`),
  hence a batch has as many names as it should (`BatchCounted`), and one that is short was the last.
* **Dirty worktree.** Removing and copying have side effects: the removal of a path takes what is
  below it along, and a copy makes directories. `RestSettles`: wherever the clone is not yet the
  worktree, a line that settles it is still to come; it is kept because what a line takes along
  by the way is brought by one that comes later (`TakenFilesAreBrought`; `RestIsLast`: the lines
  left are what git printed last). That a copy never meets a file in the place of its directory,
  unless there is a rename, needs that this file would have had an earlier line of its own;
  `RenamesBlock` says what becomes of it when a rename takes it away.

### StatusRelayProofs

For any number of jobs of the visit, of changes of other visits and of faults, queues of any
length and a relay of any speed (assumptions: `MaxQueueSize` is positive, the bounds are natural
numbers, `NoValue` is no message):

| Theorem | Property |
|---|---|
| `FrontendKnows` | `RelayInv`: a frontend that has received everything knows the job, and has the metadata it needs |
| `ViewerShowsTheNewest` | `ViewerIsCurrent` |
| `NothingIsTakenBack` | `VanishingIsNoNews` |

All three speak of the moment when everything was delivered, so the invariant has to say what is true
while messages are still in the Broadcast, the subscription, the websocket and the second Broadcast:

* `JobsInv`: the dictionary holds the job that is under way or the one that failed, and a
  message that waits is about a job of this coordinator: it says the job's status when it is
  *sent*, so what waits changes with the job.
* `CurrentInv`: the last value is the last on its way, wherever that is, and agrees with the
  dictionary. A subscriber that comes later gets it first.
* `MetadataInv`: without a fault, the metadata come. They are sent once, so one has to follow
  all that is on its way (`Path`, the kinds of the messages in the order in which they will be
  received) and not only its end: a list that will be advanced comes behind the metadata or
  before them, without a list in between that lacks the visit, at which the frontend forgets
  them; and the metadata come behind a list with the visit, without which they would not be
  kept. `ChangedPath`, `AppendedPath` and `ReceivedPath` say of any sequence of kinds what a
  change of a job, a message that is put, and one that is received do to `MetadataComes`; the
  other lemmas bring each action into one of the three forms.
* `ViewerInv`: the newest list is the last on its way to the viewer, whose full queue drops the
  oldest.

`ErrorIsShown` is a liveness property and stays with the run `status`.

The second half is about the lists of visits, for any collections, scopes, days, texts, length of a
page and number of lists (assumption: `QueriesAssumption`, by which the collections have different
names, none of them that of "all", and the last two digits of a day are not 00):

| Theorem | Property |
|---|---|
| `ListsAreWhole` | `QueriesInv`: `NoneIsMissed`, `PageIsSlice`, `SqlIsButler`, `CountsAreListed`, `ScopesAreListed` |

* **Lists.** A list is a set in an order, so its members are told by how many come before them
  (`PlaceIn`): in a linear order places are different, go up to the size of the set, and grow
  when the set grows. That the order of the records and that of the merged entries are linear
  on what a list has needs that the field is unique in a collection.
* **Paging** (`QIInv`, theorem `PagersAreKept`). Between two pages exposures arrive, which only
  moves what is to come further back: a wanted visit has been shown, or its place is not before
  the offset (`SingleKept`). With several scopes the page is put together while they are asked
  (`StillToCome`): a wanted visit of a scope that was asked is in what it answered, or there are
  as many before it as the page reaches; and counted with what the other scopes still hold, it
  is not before the offset. The condition on the latest day may change: `TextsLast` says that
  a text that is the same in the end was the same all the time, because the latest day only grows.
* **Pages.** The first `offset + limit` of every scope hold all of the first `offset + limit` of
  the merged list (`PagesAreSlices`).
* **Texts.** What the Butler reads is a recursive function on pairs of places. That it exists is
  shown for every length by a least counterexample (`TextsAreRead`), as the induction theorems of
  the library are out of reach. `SqlIsRight` and `StretchesAreRight` bring both readings of a
  text that the SQL accepts to one form, `HoldsIn`: some part between two "or" has only
  predicates that hold. It accepts no parentheses, and so "or" is what both cut at first.
* **Counts.** A day is in the range of its month (`DaysAreInMonths`, the last month of a year
  too), so the count for it is that of the list with `day_obs=`.

### PipelineQueueProofs

For every number of stages and tasks, every capacity, and every choice of the stages that are
bounded, prioritised and checked (assumptions: `StagesAssumption` of `PipelineQueue`; the
counters of votes are bounded by a natural number of events):

| Theorem | Property |
|---|---|
| `QueueInvariant` | `QueueInv`: types, no buffer overflows, `ev` and `notFull` tell the truth, nobody sleeps who could go on |
| `JobInOnePlace` | `JobIsInOnePlace` |

The inductive invariant `IInv` (theorem `InductiveInvariant`) adds to `QueueInv`:

* `Places`: no visit is twice in the buffers, twice in the hands of tasks, or in both, and
  whatever is there is an entry of `jobs` that has not failed. Without it the removal of an item,
  or the end of a task, could leave a second copy.
* `InPlace`: every entry that has not failed is somewhere. Together with `Places` this is
  `JobIsInOnePlace`.
* `UsersBounded`: the users of a visit are at most one more than the events. The item picker
  takes one with the most users; that there is one follows from this bound, by the least element
  of a set of natural numbers (`LeastElement`, from well-foundedness of the numbers). Without it
  the choice in `Picked` might be of nothing, and a task might take an item that is in no buffer.
* `Pushing`: a task of the last stage never pushes, so that there is a next buffer.

The lemmas come in three layers: what removing and appending do to a sequence and to the buffers
(`RemoveAtProperties`, `RemoveFromBuffer`, `AppendToBuffer`), what `put` and `take` do to a buffer
and its two events (`PutFacts`, `TakeFacts`), and one lemma per action, which `StepIInv` combines.

### Only model-checked

* `NamesInv`: the properties of `VisitNames`. Names are escaped and read back character by
  character, by functions that are recursive in the text; what such a function computes for every
  input takes induction over data, which the installed provers cannot do. They are checked over
  the bounded inputs of section 3.
* All liveness properties (`NoStarvation`, `NotBlocked`, `EverythingSettles`, `CallsEnd`,
  `NewsAreShown`, `PartsEnd`): liveness under fairness and `ENABLED` are out of reach of the provers.

## 6. What is not modelled

* Contents of tiles, headers and metadata; the preprocessing of a CCD; codecs and file formats:
  data that no property tells apart.
* In a session, the message that opens it and its check of the cache version.
* Time profiles; the throttle of the status, which only delays.
* Of the data sources: the retrieval of the files of a CCD, and the dummy data source. That the
  R-tree of the tile geometry finds the boxes that intersect is assumed.
* The storage explorer, system information and the FITS download, which read and pass on.
* Rendering and the forms of the viewer.
* Of the deploy broker: the validation of manifests, its configuration, its shell commands.
* `FairSemaphore` and `AsyncProcessGenerator`, which have no caller outside of their tests, and
  the limit on the threads that wait in `to_thread`.
* Configuration, logging, probes, fixtures and development tools.

## 7. Plan

What is left, in this order:

1. **The opening of a session**: the message with the job and its cache version, and what a
   generator of another version does.
2. **More than one fault** at a time in `rpc` and `lifecycle`, on larger machines.
