--------------------------- MODULE GenerateTiles ----------------------------
(***************************************************************************)
(* One run of generate_single_fits_tiles_coordinator: a worker task per    *)
(* generator feeds CCDs to it over a WebSocket session, generators crash,  *)
(* lose their connection, are removed by the heartbeat and register again, *)
(* and the CcdDispatcher decides who gets which CCD.                       *)
(*                                                                         *)
(* The id of a generator is drawn when its process starts, so a crash is   *)
(* final for the id; an id registers again only after a heartbeat failed.  *)
(* A worker's steps end at its awaits.                                     *)
(***************************************************************************)
EXTENDS CcdDispatcher

CONSTANTS
    NoCcd,                \* no CCD was fetched for the next session
    MaxConcurrent,        \* generator_max_concurrent_ccds_per_job
    MaxConnectRetries,    \* max_worker_connect_retries
    MaxCrashes,           \* bound: generators that crash
    MaxFaults,            \* bound: dropped sessions, failed connects and heartbeats
    AllowErrors,          \* whether a generator may report a processing error
    AllowTimeout          \* whether generate_single_fits_tiles_timeout may expire

ASSUME NoCcdAssumption == NoCcd \notin 1..NumCcds
ASSUME MaxConcurrentAssumption == MaxConcurrent \in Nat \ {0}
ASSUME MaxConnectRetriesAssumption == MaxConnectRetries \in Nat \ {0}
ASSUME MaxFaultsAssumption == MaxFaults \in Nat

VARIABLES   \* of the coordinator
    outcome,      \* of the job: "idle", "running", "completed", "failed"
    workerError,  \* worker_errors holds an error
    pc,           \* where each worker is; "none": never started
    slots,        \* what is left of the initial batch
    batchSent,    \* has_initial_batch
    pending,      \* pending_resubmit_ccd
    failures,     \* consecutive_failures
    waits,        \* wait_and_assign tasks
    returning,    \* CCDs whose wait_and_assign task failed to send them
    available,    \* the registry
    lostTasks,    \* on_generator_lost tasks created by on_generator_removed
    saved         \* generators that stored the distribution config

VARIABLES   \* of the generators and the network
    alive,        \* generators that have not crashed
    session,      \* "none", "open", or "broken" and not noticed yet
    working,      \* copies of each CCD in the session's pipeline
    results,      \* CompletedMessages on their way
    zombies,      \* CCDs still processed for a session that is over
    tiles,        \* CCDs whose tiles are in the local storage
    faults        \* faults so far

jobVars == <<outcome, workerError, saved>>
registryVars == <<available, lostTasks>>
batchVars == <<slots, batchSent>>
sessionVars == <<session, working, results, zombies, waits>>
diskVars == <<alive, tiles, faults>>

vars == <<dispatcherVars, jobVars, registryVars, batchVars, sessionVars, diskVars,
          pc, pending, failures, returning>>

Nothing == [c \in Ccds |-> 0]
Running == outcome = "running"

Init ==
    /\ DispatcherInit
    /\ outcome = "idle" /\ workerError = FALSE /\ saved = {}
    /\ pc = [g \in Generators |-> "none"]
    /\ slots = [g \in Generators |-> 0]
    /\ batchSent = [g \in Generators |-> FALSE]
    /\ pending = [g \in Generators |-> NoCcd]
    /\ failures = [g \in Generators |-> 0]
    /\ waits = [g \in Generators |-> 0]
    /\ returning = {}
    /\ available \in SUBSET Generators
    /\ lostTasks = {}
    /\ alive = Generators
    /\ session = [g \in Generators |-> "none"]
    /\ working = [g \in Generators |-> Nothing]
    /\ results = [g \in Generators |-> Nothing]
    /\ zombies = [g \in Generators |-> {}]
    /\ tiles = [g \in Generators |-> {}]
    /\ faults = 0

-----------------------------------------------------------------------------
(* Sessions.                                                               *)

InPipeline(g) == {c \in Ccds : working[g][c] > 0}

\* The coordinator leaves its session with g, and the messages it has not read.
\* The generator takes no new CCD, but what is in its pipeline runs on.
CloseSession(g) ==
    /\ session' = [session EXCEPT ![g] = "none"]
    /\ zombies' = [zombies EXCEPT ![g] = @ \union InPipeline(g)]
    /\ working' = [working EXCEPT ![g] = Nothing]
    /\ results' = [results EXCEPT ![g] = Nothing]
    /\ waits' = [waits EXCEPT ![g] = 0]

\* The worker's `except aiohttp.ClientError`.
ConnectionError(g) ==
    /\ failures' = [failures EXCEPT ![g] = @ + 1]
    /\ pc' = [pc EXCEPT ![g] =
           IF failures'[g] >= MaxConnectRetries THEN "stop" ELSE "retry"]
    /\ CloseSession(g)

\* An AssignCcdMessage arrives, is lost in a connection that is broken, or the
\* send raises.  A CCD that is not delivered is not given back.
Delivered(g, c) ==
    /\ session[g] = "open"
    /\ working' = [working EXCEPT ![g][c] = @ + 1]
    /\ UNCHANGED <<session, results, zombies>>

LostInTransit(g) ==
    /\ session[g] = "broken"
    /\ UNCHANGED <<session, working, results, zombies>>

Send(g, c, next) ==
    \/ /\ Delivered(g, c) \/ LostInTransit(g)
       /\ pc' = [pc EXCEPT ![g] = next]
       /\ UNCHANGED <<failures, waits>>
    \/ session[g] = "broken" /\ ConnectionError(g)

-----------------------------------------------------------------------------
(* The worker of a generator.                                              *)

Connect(g) ==
    /\ pc[g] = "connect" /\ g \in alive
    /\ RecordGeneratorStart(g)
    /\ session' = [session EXCEPT ![g] = "open"]
    /\ IF pending[g] = NoCcd
       THEN /\ slots' = [slots EXCEPT ![g] = MaxConcurrent]
            /\ UNCHANGED <<working, batchSent>>
       ELSE /\ slots' = [slots EXCEPT ![g] = MaxConcurrent - 1]
            /\ working' = [working EXCEPT ![g][pending[g]] = @ + 1]
            /\ batchSent' = [batchSent EXCEPT ![g] = TRUE]
    /\ pc' = [pc EXCEPT ![g] = "batch"]
    /\ UNCHANGED <<jobVars, registryVars, results, zombies, waits, diskVars,
                   pending, failures, returning>>

\* The connection fails before the handshake or right after it.
ConnectFails(g) ==
    /\ pc[g] = "connect"
    /\ \/ g \notin alive /\ UNCHANGED <<faults, dispatcherVars>>
       \/ /\ g \in alive /\ faults < MaxFaults /\ faults' = faults + 1
          /\ RecordGeneratorStart(g) \/ UNCHANGED dispatcherVars
    /\ ConnectionError(g)
    /\ UNCHANGED <<jobVars, registryVars, batchVars, alive, tiles, pending, returning>>

BatchNext(g) ==
    /\ pc[g] = "batch" /\ slots[g] > 0
    /\ slots' = [slots EXCEPT ![g] = @ - 1]
    /\ \/ \E c \in Ccds :
            /\ GetNextCcd(g, c)
            /\ Send(g, c, "batch")
            /\ batchSent' = [batchSent EXCEPT ![g] = TRUE]
       \/ NoNextCcd /\ UNCHANGED <<dispatcherVars, sessionVars, pc, failures, batchSent>>
    /\ UNCHANGED <<jobVars, registryVars, diskVars, pending, returning>>

BatchEnds(g) ==
    /\ pc[g] = "batch" /\ slots[g] = 0
    /\ pc' = [pc EXCEPT ![g] = IF batchSent[g] THEN "serve" ELSE "first"]
    /\ batchSent' = [batchSent EXCEPT ![g] = FALSE]
    /\ UNCHANGED <<dispatcherVars, jobVars, registryVars, slots, sessionVars, diskVars,
                   pending, failures, returning>>

\* Without an initial batch the session starts with the first CCD there is.
AssignFirst(g) ==
    /\ pc[g] = "first" /\ ~allCompleted
    /\ \E c \in Ccds : GetNextCcd(g, c) /\ Send(g, c, "serve")
    /\ UNCHANGED <<jobVars, registryVars, batchVars, diskVars, pending, returning>>

ReceiveCompleted(g, c) ==
    /\ pc[g] = "serve" /\ results[g][c] > 0
    /\ OnCcdCompleted(c, g)
    /\ results' = [results EXCEPT ![g][c] = @ - 1]
    /\ pc' = [pc EXCEPT ![g] = "assign"]
    /\ UNCHANGED <<jobVars, registryVars, batchVars, session, working, zombies, waits,
                   diskVars, pending, failures, returning>>

\* Mutant: no task waits for a CCD when there is none at the moment.
AssignNextNoWait(g) ==
    /\ pc[g] = "assign"
    /\ \/ \E c \in Ccds : GetNextCcd(g, c) /\ Send(g, c, "serve")
       \/ /\ NoNextCcd
          /\ pc' = [pc EXCEPT ![g] = "serve"]
          /\ UNCHANGED <<dispatcherVars, sessionVars, failures>>
    /\ UNCHANGED <<jobVars, registryVars, batchVars, diskVars, pending, returning>>

\* A completed CCD frees a slot; if there is no CCD for it, a task waits for one.
AssignNext(g) ==
    /\ pc[g] = "assign"
    /\ \/ \E c \in Ccds : GetNextCcd(g, c) /\ Send(g, c, "serve")
       \/ /\ NoNextCcd
          /\ waits' = IF allCompleted THEN waits ELSE [waits EXCEPT ![g] = @ + 1]
          /\ pc' = [pc EXCEPT ![g] = "serve"]
          /\ UNCHANGED <<dispatcherVars, session, working, results, zombies, failures>>
    /\ UNCHANGED <<jobVars, registryVars, batchVars, diskVars, pending, returning>>

\* wait_and_assign; its CCD is given back if the send raises.
WaitTask(g) ==
    /\ waits[g] > 0 /\ ~allCompleted
    /\ waits' = [waits EXCEPT ![g] = @ - 1]
    /\ \E c \in Ccds :
         /\ GetNextCcd(g, c)
         /\ \/ (Delivered(g, c) \/ LostInTransit(g)) /\ UNCHANGED returning
            \/ /\ <<g, c>> \notin returning
               /\ LostInTransit(g)
               /\ returning' = returning \union {<<g, c>>}
    /\ UNCHANGED <<jobVars, registryVars, batchVars, diskVars, pc, pending, failures>>

WaitTaskReturns(g, c) ==
    /\ <<g, c>> \in returning
    /\ ReturnUnassignedCcd(c)
    /\ returning' = returning \ {<<g, c>>}
    /\ UNCHANGED <<jobVars, registryVars, batchVars, sessionVars, diskVars,
                   pc, pending, failures>>

\* An ErrorMessage fails the whole job: the worker ends without on_generator_lost.
ReceiveError(g) ==
    /\ AllowErrors
    /\ pc[g] = "serve" /\ session[g] = "open"
    /\ workerError' = TRUE
    /\ pc' = [pc EXCEPT ![g] = "done"]
    /\ pending' = [pending EXCEPT ![g] = NoCcd]
    /\ CloseSession(g)
    /\ UNCHANGED <<dispatcherVars, outcome, saved, registryVars, batchVars, diskVars,
                   failures, returning>>

\* _run_worker_session returns: the connection is closed, or all is completed.
SessionEnds(g) ==
    /\ \/ pc[g] = "serve" /\ session[g] = "broken"
       \/ pc[g] = "first" /\ allCompleted
    /\ CloseSession(g)
    /\ pending' = [pending EXCEPT ![g] = NoCcd]
    /\ failures' = [failures EXCEPT ![g] = 0]
    /\ pc' = [pc EXCEPT ![g] =
           IF ~allCompleted /\ g \in available THEN "between" ELSE "stop"]
    /\ UNCHANGED <<dispatcherVars, jobVars, registryVars, batchVars, diskVars, returning>>

\* Wait for a CCD before a new session.  If the generator is gone by then, the
\* CCD is given back.
FetchForNewSession(g) ==
    /\ pc[g] = "between"
    /\ IF allCompleted
       THEN /\ pc' = [pc EXCEPT ![g] = "stop"]
            /\ UNCHANGED <<dispatcherVars, pending>>
       ELSE \E c \in Ccds :
              /\ GetNextCcd(g, c)
              /\ pending' = [pending EXCEPT ![g] = c]
              /\ pc' = [pc EXCEPT ![g] = IF g \in available THEN "connect" ELSE "stop"]
    /\ UNCHANGED <<jobVars, registryVars, batchVars, sessionVars, diskVars,
                   failures, returning>>

Retry(g) ==
    /\ pc[g] = "retry"
    /\ pc' = [pc EXCEPT ![g] =
           IF allCompleted \/ g \notin available THEN "stop" ELSE "connect"]
    /\ UNCHANGED <<dispatcherVars, jobVars, registryVars, batchVars, sessionVars,
                   diskVars, pending, failures, returning>>

\* Mutant: giving a CCD back forgets all its attempts.
StopReturnsForgets(g) ==
    /\ pc[g] = "stop" /\ pending[g] # NoCcd
    /\ attempts' = [attempts EXCEPT ![pending[g]] = 0]
    /\ pending' = [pending EXCEPT ![g] = NoCcd]
    /\ UNCHANGED <<remainingIndex, submitted, owner, phase2Index, activeGenerators,
                   allCompleted, jobVars, registryVars, batchVars, sessionVars, diskVars,
                   pc, failures, returning>>

\* The worker's finally: give the fetched CCD back, then on_generator_lost.
StopReturns(g) ==
    /\ pc[g] = "stop" /\ pending[g] # NoCcd
    /\ ReturnUnassignedCcd(pending[g])
    /\ pending' = [pending EXCEPT ![g] = NoCcd]
    /\ UNCHANGED <<jobVars, registryVars, batchVars, sessionVars, diskVars,
                   pc, failures, returning>>

Stop(g) ==
    /\ pc[g] = "stop" /\ pending[g] = NoCcd
    /\ OnGeneratorLost(g)
    /\ pc' = [pc EXCEPT ![g] = "done"]
    /\ UNCHANGED <<jobVars, registryVars, batchVars, sessionVars, diskVars,
                   pending, failures, returning>>

-----------------------------------------------------------------------------
(* The job.                                                                *)

\* Workers for the registered generators, and the two registry callbacks.
Start ==
    /\ outcome = "idle"
    /\ IF available = {}
       THEN outcome' = "failed" /\ UNCHANGED pc
       ELSE /\ outcome' = "running"
            /\ pc' = [g \in Generators |-> IF g \in available THEN "connect" ELSE "none"]
    /\ UNCHANGED <<dispatcherVars, workerError, saved, registryVars, batchVars,
                   sessionVars, diskVars, pending, failures, returning>>

Workers == {g \in Generators : pc[g] \notin {"none", "done"}}

\* Every worker is cancelled: its session is closed and its finally runs.
CancelWorkers ==
    /\ pc' = [g \in Generators |-> IF g \in Workers THEN "stop" ELSE pc[g]]
    /\ session' = [g \in Generators |-> "none"]
    /\ zombies' = [g \in Generators |-> zombies[g] \union InPipeline(g)]
    /\ working' = [g \in Generators |-> Nothing]
    /\ results' = [g \in Generators |-> Nothing]
    /\ waits' = [g \in Generators |-> 0]
    /\ UNCHANGED <<dispatcherVars, workerError, saved, registryVars, batchVars, diskVars,
                   pending, failures, returning>>

Complete ==
    /\ Running /\ allCompleted
    /\ outcome' = "completed"
    /\ CancelWorkers

\* Mutant: the job fails, its workers go on.
FailGoesOn ==
    /\ Running /\ (workerError \/ AllowTimeout)
    /\ outcome' = "failed"
    /\ UNCHANGED <<dispatcherVars, workerError, saved, registryVars, batchVars,
                   sessionVars, diskVars, pc, pending, failures, returning>>

\* A fatal error or the timeout.  An error that arrives with the last completion
\* may still win.
Fail ==
    /\ Running /\ (workerError \/ AllowTimeout)
    /\ outcome' = "failed"
    /\ CancelWorkers

Owned(g) == {c \in Ccds : owner[c] = g}

\* rpc_scatter to the owners; an owner that does not answer is only logged.
SaveDistConfig(g) ==
    /\ outcome = "completed" /\ Workers = {}
    /\ g \in alive \ saved /\ Owned(g) # {}
    /\ saved' = saved \union {g}
    /\ tiles' = [tiles EXCEPT ![g] = @ \intersect Owned(g)]
    /\ UNCHANGED <<dispatcherVars, outcome, workerError, registryVars, batchVars,
                   sessionVars, alive, faults, pc, pending, failures, returning>>

-----------------------------------------------------------------------------
(* The registry.                                                           *)

\* A generator that registers during the job gets a worker, once per id.
Register(g) ==
    /\ g \in alive \ available
    /\ available' = available \union {g}
    /\ pc' = IF Running /\ ~allCompleted /\ pc[g] = "none"
             THEN [pc EXCEPT ![g] = "connect"]
             ELSE pc
    /\ UNCHANGED <<dispatcherVars, jobVars, lostTasks, batchVars, sessionVars, diskVars,
                   pending, failures, returning>>

\* The heartbeat of g fails; its session, if any, goes on.
RemoveGenerator(g) ==
    /\ g \in available
    /\ IF g \in alive THEN faults < MaxFaults /\ faults' = faults + 1
                      ELSE UNCHANGED faults
    /\ available' = available \ {g}
    /\ lostTasks' = IF Running /\ ~allCompleted THEN lostTasks \union {g} ELSE lostTasks
    /\ UNCHANGED <<dispatcherVars, jobVars, batchVars, sessionVars, alive, tiles,
                   pc, pending, failures, returning>>

LostTask(g) ==
    /\ g \in lostTasks
    /\ OnGeneratorLost(g)
    /\ lostTasks' = lostTasks \ {g}
    /\ UNCHANGED <<jobVars, available, batchVars, sessionVars, diskVars,
                   pc, pending, failures, returning>>

-----------------------------------------------------------------------------
(* The generators and the network.                                         *)

\* Mutant: the metadata is reported before the tiles are written.
FinishCcdUnwritten(g, c) ==
    /\ session[g] = "open" /\ working[g][c] > 0
    /\ working' = [working EXCEPT ![g][c] = @ - 1]
    /\ results' = [results EXCEPT ![g][c] = @ + 1]
    /\ UNCHANGED <<dispatcherVars, jobVars, registryVars, batchVars, session, zombies, waits,
                   diskVars, pc, pending, failures, returning>>

FinishCcd(g, c) ==
    /\ session[g] = "open" /\ working[g][c] > 0
    /\ working' = [working EXCEPT ![g][c] = @ - 1]
    /\ results' = [results EXCEPT ![g][c] = @ + 1]
    /\ tiles' = [tiles EXCEPT ![g] = @ \union {c}]
    /\ UNCHANGED <<dispatcherVars, jobVars, registryVars, batchVars, session, zombies, waits,
                   alive, faults, pc, pending, failures, returning>>

\* A copy of a closed session is processed to the end or dropped with its queue.
\* Another copy of the same CCD may still be there.
ZombieEnds(g, c) ==
    /\ c \in zombies[g]
    /\ tiles' \in {tiles, [tiles EXCEPT ![g] = @ \union {c}]}
    /\ zombies' \in {zombies, [zombies EXCEPT ![g] = @ \ {c}]}
    /\ UNCHANGED <<dispatcherVars, jobVars, registryVars, batchVars, session, working,
                   results, waits, alive, faults, pc, pending, failures, returning>>

\* The coordinator notices later; what was sent before may still be read.
DropSession(g) ==
    /\ session[g] = "open" /\ faults < MaxFaults
    /\ faults' = faults + 1
    /\ session' = [session EXCEPT ![g] = "broken"]
    /\ zombies' = [zombies EXCEPT ![g] = @ \union InPipeline(g)]
    /\ working' = [working EXCEPT ![g] = Nothing]
    /\ UNCHANGED <<dispatcherVars, jobVars, registryVars, batchVars, results, waits,
                   alive, tiles, pc, pending, failures, returning>>

\* A generator dies with its pipeline and its local storage.
Crash(g) ==
    /\ g \in alive /\ Cardinality(Generators \ alive) < MaxCrashes
    /\ alive' = alive \ {g}
    /\ session' = [session EXCEPT ![g] = IF @ = "open" THEN "broken" ELSE @]
    /\ working' = [working EXCEPT ![g] = Nothing]
    /\ zombies' = [zombies EXCEPT ![g] = {}]
    /\ tiles' = [tiles EXCEPT ![g] = {}]
    /\ UNCHANGED <<dispatcherVars, jobVars, registryVars, batchVars, results, waits,
                   faults, pc, pending, failures, returning>>

\* Time passes; after the job nobody looks at the ages any more.
TimePasses(c) ==
    /\ Running
    /\ GrowOld(c)
    /\ UNCHANGED <<jobVars, registryVars, batchVars, sessionVars, diskVars,
                   pc, pending, failures, returning>>

WorkerStep(g) ==
    \/ Connect(g) \/ ConnectFails(g) \/ Retry(g)
    \/ BatchNext(g) \/ BatchEnds(g) \/ AssignFirst(g)
    \/ AssignNext(g) \/ ReceiveError(g) \/ SessionEnds(g)
    \/ FetchForNewSession(g) \/ StopReturns(g) \/ Stop(g)
    \/ \E c \in Ccds : ReceiveCompleted(g, c)

Next ==
    \/ Start \/ Complete \/ Fail
    \/ \E g \in Generators :
         \/ WorkerStep(g) \/ WaitTask(g)
         \/ Register(g) \/ RemoveGenerator(g) \/ LostTask(g)
         \/ DropSession(g) \/ Crash(g) \/ SaveDistConfig(g)
         \/ \E c \in Ccds : FinishCcd(g, c) \/ ZombieEnds(g, c) \/ WaitTaskReturns(g, c)
    \/ \E c \in Ccds : TimePasses(c)

Spec == Init /\ [][Next]_vars

\* Tasks and the pipelines of the generators run, time passes, the heartbeat
\* finds the generators that died, and generators that live register.
Fairness ==
    /\ WF_vars(Start) /\ WF_vars(Complete) /\ WF_vars(Fail)
    /\ \A g \in Generators :
         /\ WF_vars(WorkerStep(g)) /\ WF_vars(WaitTask(g)) /\ WF_vars(LostTask(g))
         /\ WF_vars(Register(g)) /\ WF_vars(g \notin alive /\ RemoveGenerator(g))
         /\ WF_vars(SaveDistConfig(g))
         /\ \A c \in Ccds : WF_vars(FinishCcd(g, c)) /\ WF_vars(WaitTaskReturns(g, c))
    /\ \A c \in Ccds : WF_vars(TimePasses(c))

FairSpec == Spec /\ Fairness

-----------------------------------------------------------------------------
TypeOK ==
    /\ DispatcherTypeOK
    /\ outcome \in {"idle", "running", "completed", "failed"}
    /\ workerError \in BOOLEAN
    /\ saved \subseteq Generators
    /\ pc \in [Generators -> {"none", "connect", "batch", "first", "serve", "assign",
                              "between", "retry", "stop", "done"}]
    /\ slots \in [Generators -> 0..MaxConcurrent]
    /\ batchSent \in [Generators -> BOOLEAN]
    /\ pending \in [Generators -> Ccds \union {NoCcd}]
    /\ failures \in [Generators -> 0..MaxConnectRetries]
    /\ waits \in [Generators -> Nat]
    /\ returning \subseteq Generators \X Ccds
    /\ available \subseteq Generators
    /\ lostTasks \subseteq Generators
    /\ alive \subseteq Generators
    /\ session \in [Generators -> {"none", "open", "broken"}]
    /\ working \in [Generators -> [Ccds -> Nat]]
    /\ results \in [Generators -> [Ccds -> Nat]]
    /\ zombies \in [Generators -> SUBSET Ccds]
    /\ tiles \in [Generators -> SUBSET Ccds]
    /\ faults \in 0..MaxFaults

\* Merging reads the tiles of a CCD from its owner: an owner that lives has them,
\* whatever was resubmitted, lost, reported twice, or removed by
\* remove_non_owned_tiles.
OwnerHasTiles == \A g \in alive : Owned(g) \subseteq tiles[g]

\* The copies that f counts, each by its CCD and a number.
Copies(f) == UNION {{c} \X (1..f[c]) : c \in DOMAIN f}
Total(f) == Cardinality(Copies(f))

\* What the session of g holds, what its worker is about to send and what its tasks
\* wait for.
Load(g) ==
    Total(working[g]) + Total(results[g]) + slots[g] + waits[g]
        + (IF pc[g] = "assign" THEN 1 ELSE 0)

\* generator_max_concurrent_ccds_per_job holds: the load of a session fits into the
\* slots, through batches, resubmissions and prefetched CCDs.
SlotsRespected == \A g \in Generators : Load(g) <= MaxConcurrent

\* What the session and the worker of g have of CCD c: the copies in the session, or
\* the handing-out that pending_resubmit_ccd stands for, whether that copy is still
\* to be sent, or was lost with its session and is to be sent again or given back.
OutAt(g, c) ==
    LET copies == working[g][c] + results[g][c]
    IN  IF copies = 0 /\ pending[g] = c THEN 1 ELSE copies

\* All copies of c that a job has out: those of OutAt, numbered, and as number 0 the
\* one that a wait_and_assign task is about to give back.
OutCopies(c) ==
    (UNION {{g} \X (1..OutAt(g, c)) : g \in Generators})
        \union {<<g, 0>> : g \in {h \in Generators : <<h, c>> \in returning}}

\* The counter of the dispatcher limits what it is there to limit: the copies of a CCD
\* that a job has out at once, although failed sends and retries use attempts up, a
\* CCD that was delivered may be given back, and its session may have it twice.  The
\* copies that generators still process for sessions that are over (zombies) are not
\* limited: a CCD that was delivered in a lost session is handed out anew.
CopiesBounded == \A c \in Ccds : Cardinality(OutCopies(c)) <= AttemptCap

\* The state has its types, a worker stays within its slots, the owners that live
\* have their tiles, and no CCD has more copies out than the cap.
GenerationInv == TypeOK /\ SlotsRespected /\ OwnerHasTiles /\ CopiesBounded

Abstract == INSTANCE TileGeneration

\* Workers, sessions and failures implement the promise of TileGeneration: the
\* job completes only when every CCD has an owner, and nothing is adopted before
\* the job runs or after it ended, whatever is still on its way.
ImplementsTileGeneration == Abstract!Spec

\* Whatever happens to workers and sessions is a sequence of dispatcher calls,
\* so the theorems about CcdDispatcher hold here.
FollowsDispatcher == DispatcherSpec

\* Without timeout and errors, the job still ends when a generator crashes: the
\* others take its CCDs over (on_generator_lost and resubmission).
JobEnds == Running ~> ~Running

-----------------------------------------------------------------------------
(* A statement of the source that the code does not keep.                  *)

InSession(g, c) == working[g][c] + results[g][c] > 0

\* on_generator_lost makes the CCDs of a lost generator resubmittable at once
\* (its docstring): when no other session holds such a CCD, it has not used up
\* its attempts while a worker could take it.
LostCcdIsResubmittable ==
    \A g \in Generators, c \in DOMAIN submitted :
        /\ Running /\ pc[g] = "done" /\ ~workerError
        /\ submitted[c].generator = g /\ owner[c] = NoGenerator
        /\ remainingIndex = NumCcds
        /\ \A h \in Generators : ~InSession(h, c) /\ pending[h] # c
        => Resubmittable(c)
=============================================================================
