---------------------- MODULE QuicklookLifecycleProofs ----------------------
(***************************************************************************)
(* Proofs about QuicklookLifecycle for any number of requests, jobs,       *)
(* generators, crashes of the coordinator and faults, with errors and      *)
(* timeouts at any time: without deletions by the admin page, and if a     *)
(* request takes less time than a job, no two jobs of the visit work at    *)
(* the same time and a ready row has its objects.                          *)
(***************************************************************************)
EXTENDS QuicklookLifecycle, FiniteSetTheorems, TLAPS

-----------------------------------------------------------------------------
(* The inductive invariant. *)

\* The jobs that have made the row of the visit and may still change or delete it.
Holding(j) ==
    /\ stage[j] \in {"generate", "merge", "tiles", "headers", "ready", "profile", "update"}
    /\ errorStep[j] # "cleanup"

\* The jobs that are in the pipeline before they are ready, without an error.
InPipeline(j) ==
    /\ stage[j] \in {"queued", "record", "generate", "merge", "tiles", "headers", "ready"}
    /\ errorStep[j] = "none"

\* jobs[visit]: the entry stands for the one job in the pipeline, until it is ready
\* or 5 s after its error; and no row was made between the look of a request
\* and its push, unless there is an entry.
Entries ==
    /\ \A j \in Jobs : InPipeline(j) => entry = j
    /\ \A j \in cleanups : entry = j /\ ~InPipeline(j)
    /\ checked <= requests
    /\ checked > 0 /\ entry = NoJob => row = NoRow

\* The row of the visit: there is none before a job makes it, and then it is the
\* row of that job, not ready, until the job is over.
Rows ==
    /\ \A j \in Jobs : Holding(j) => row = [job |-> j, ready |-> FALSE]
    /\ \A j \in Jobs : stage[j] \in {"queued", "record"} => row = NoRow
    /\ \A j, k \in Jobs : stage[j] \in Generating /\ stage[k] \in Generating => j = k
    /\ \A j \in Jobs : errorStep[j] # "none" =>
            stage[j] \in {"record", "generate", "merge", "tiles", "headers"}

\* Deletions are of rows that no job holds; at startup there are no jobs.
Deletions ==
    /\ deleter["admin"] = "idle"
    /\ deleter["housekeeping"] # "idle" =>
           row # NoRow /\ coordinator = "up" /\ \A j \in Jobs : ~Holding(j)
    /\ deleter["startup"] # "idle" => row # NoRow /\ ~row.ready /\ coordinator = "cleaning"
    /\ deleter["housekeeping"] \in {"marked", "cleaned"} => ~row.ready
    /\ coordinator # "up" =>
           /\ \A j \in Jobs : ~Active(j)
           /\ entry = NoJob /\ checked = 0 /\ cleanups = {} /\ calls = {}

\* The coordinator waits for uploads in their stage only.
CallsInStage == \A c \in calls : stage[c[1]] = c[2] /\ errorStep[c[1]] = "none"

Stored(j, kind, g) == <<kind, g>> \in objects \/ <<j, kind, g>> \in missing

\* What a job without an error has stored when it is in a stage.
Progress ==
    \A j \in Jobs : errorStep[j] = "none" =>
        /\ \A g \in Generators :
             /\ stage[j] = "tiles" => Stored(j, "tiles", g) \/ <<j, "tiles", g>> \in calls
             /\ stage[j] \in {"headers", "ready", "profile", "update"} => Stored(j, "tiles", g)
             /\ stage[j] = "headers" => Stored(j, "headers", g) \/ <<j, "headers", g>> \in calls
             /\ stage[j] \in {"ready", "profile", "update"} => Stored(j, "headers", g)
        /\ stage[j] \in {"ready", "profile", "update"} => <<"metadata">> \in objects
        /\ stage[j] = "update" => <<"profile">> \in objects

IInv ==
    /\ TypeOK /\ Entries /\ Rows /\ Deletions /\ CallsInStage /\ Progress
    /\ ReadyIsComplete


-----------------------------------------------------------------------------
(* An upload RPC is of a job, a kind of objects and a generator. *)
LEMMA RpcFacts ==
    \A r \in Rpcs :
        /\ r[1] \in Jobs /\ r[2] \in Uploading /\ r[3] \in Generators
        /\ r = <<r[1], r[2], r[3]>> /\ <<r[2], r[3]>> \in Parts
BY DEF Rpcs, Uploads, Uploading, Parts

(* The row that a job makes is one. *)
LEMMA NewRowFacts == \A j \in Jobs : [job |-> j, ready |-> FALSE] # NoRow
<1> SUFFICES ASSUME NEW j \in Jobs, [job |-> j, ready |-> FALSE] = NoRow PROVE FALSE
  OBVIOUS
<1>1. [job |-> j, ready |-> FALSE] \in [job : Jobs, ready : BOOLEAN]
  OBVIOUS
<1> QED
  BY <1>1, NoneAssumption

(* A deletion that has begun is of a row that is there and that no job holds. *)
LEMMA DeletionFacts ==
    ASSUME TypeOK, Deletions, NEW d \in Deleters, deleter[d] # "idle"
    PROVE  /\ d \in {"housekeeping", "startup"} /\ row # NoRow
           /\ \A j \in Jobs : ~Holding(j)
<1>1. d \in {"housekeeping", "startup"}
  BY DEF Deletions, Deleters
<1>2. CASE d = "housekeeping"
  BY <1>2 DEF Deletions
<1>3. CASE d = "startup"
  BY <1>3 DEF Deletions, Holding, Active, Ended
<1> QED
  BY <1>1, <1>2, <1>3

(* What is deleted without the admin page. *)
LEMMA SelectableFacts ==
    ASSUME TypeOK, MaxAdminDeletes = 0, NEW d \in Deleters, Selectable(d)
    PROVE  \/ d = "housekeeping" /\ Up /\ row # NoRow /\ row.ready
           \/ d = "startup" /\ coordinator = "starting" /\ row # NoRow /\ ~row.ready
<1>1. CASE d = "housekeeping"
  BY <1>1 DEF Selectable
<1>2. CASE d = "admin"
  <2>1. adminDeletes < 0
    BY <1>2 DEF Selectable
  <2> QED
    BY <2>1 DEF TypeOK
<1>3. CASE d = "startup"
  BY <1>3 DEF Selectable
<1> QED
  BY <1>1, <1>2, <1>3 DEF Deleters

-----------------------------------------------------------------------------
(* Requests. *)

\* A request that finds no row will push.
LEMMA CheckStep ==
    ASSUME IInv, Check
    PROVE  IInv'
<1> USE DEF IInv, Check, Up, shared, jobVars, rpcVars
<1>1. TypeOK'
  <2>1. row' \in [job : Jobs, ready : BOOLEAN] \union {NoRow} /\ objects' \subseteq Parts
    BY DEF TypeOK
  <2>2. /\ coordinator' \in {"starting", "cleaning", "up", "down"}
        /\ checked' \in 0..MaxRequests /\ entry' \in Jobs \union {NoJob}
    BY BoundsAssumption DEF TypeOK, Entries
  <2>3. stage' \in [Jobs -> Ended \union Generating \union Uploading \union Finalizing
                            \union {"queued", "merge"}]
    BY DEF TypeOK, Ended, Generating, Uploading, Finalizing
  <2>4. /\ errorStep' \in [Jobs -> {"none", "objects", "row", "cleanup"}]
        /\ \A k \in Jobs : errorStep'[k] # "none" => Active(k)'
        /\ cleanups' \subseteq Jobs
    BY DEF TypeOK, Active, Ended
  <2>5. calls' \subseteq running' /\ running' \subseteq Rpcs /\ missing' \subseteq Rpcs
    BY DEF TypeOK
  <2>6. /\ deleter' \in [Deleters -> {"idle", "selected", "marked", "cleaned"}]
        /\ requests' \in 0..MaxRequests /\ adminDeletes' \in 0..MaxAdminDeletes
        /\ crashes' \in 0..MaxCrashes /\ faults' \in 0..MaxFaults
    BY BoundsAssumption DEF TypeOK, Deleters
  <2> QED
    BY <2>1, <2>2, <2>3, <2>4, <2>5, <2>6 DEF TypeOK
<1>2. Entries'
  BY DEF Entries, InPipeline, Rows, Holding, Generating, TypeOK, Active, Deleters,
     Ended, Uploading, Finalizing
<1>3. Deletions'
  BY NoneAssumption DEF Deletions, Holding, Active, Ended, Deleters, Entries,
     InPipeline, Rows, Generating, TypeOK, Uploading, Finalizing
<1>4. Rows' /\ CallsInStage' /\ Progress' /\ ReadyIsComplete'
  BY DEF Rows, Holding, CallsInStage, Progress, Stored, ReadyIsComplete, Ready
<1> QED
  BY <1>1, <1>2, <1>3, <1>4

\* A push makes a job if the visit has none.
LEMMA PushStep ==
    ASSUME IInv, NEW j \in Jobs, Push(j)
    PROVE  IInv'
<1> USE DEF IInv, Push, Up, shared, rpcVars, counters
<1>1. TypeOK'
  BY BoundsAssumption DEF TypeOK, Active, Deleters, Ended, Generating, Uploading,
     Finalizing
<1>2. Entries'
  <2>1. CASE entry = NoJob
    <3>1. row = NoRow /\ cleanups = {} /\ \A k \in Jobs : ~InPipeline(k)
      BY <2>1, NoneAssumption DEF Entries, TypeOK
    <3>2. \A k \in Jobs : InPipeline(k)' => k = j
      BY <2>1, <3>1 DEF InPipeline, TypeOK
    <3> QED
      BY <2>1, <3>1, <3>2 DEF Entries, TypeOK
  <2>2. CASE entry # NoJob
    BY <2>2 DEF Entries, InPipeline, TypeOK
  <2> QED
    BY <2>1, <2>2
<1>3. Rows'
  BY NoneAssumption DEF Rows, Holding, Generating, Entries, InPipeline, TypeOK,
     Active, Deleters, Ended, Uploading, Finalizing
<1>4. Deletions'
  BY NoneAssumption DEF Deletions, Holding, Active, Ended, Deleters, Entries,
     InPipeline, Rows, Generating, TypeOK, Uploading, Finalizing
<1>5. CallsInStage'
  BY RpcFacts DEF CallsInStage, TypeOK, Active, Deleters, Ended, Generating,
     Uploading, Finalizing
<1>6. Progress'
  BY RpcFacts, SMTT(40) DEF Progress, Stored, CallsInStage, TypeOK, Active, Deleters, Ended,
     Generating, Uploading, Finalizing
<1>7. ReadyIsComplete'
  BY DEF ReadyIsComplete, Ready
<1> QED
  BY <1>1, <1>2, <1>3, <1>4, <1>5, <1>6, <1>7

-----------------------------------------------------------------------------
(* The stages. *)

\* The first stage takes one job.
LEMMA EnterGenerateStep ==
    ASSUME IInv, NEW j \in Jobs, EnterGenerate(j)
    PROVE  IInv'
<1> USE DEF IInv, EnterGenerate, Advance, Working, Up, Free, shared, rpcVars, counters
<1>1. TypeOK'
  BY DEF TypeOK, Active, Deleters, Ended, Generating, Uploading, Finalizing
<1>2. Entries'
  BY DEF Entries, InPipeline, Rows, Holding, Generating, TypeOK, Active, Deleters,
     Ended, Uploading, Finalizing
<1>3. Rows'
  BY NoneAssumption DEF Rows, Holding, Generating, Entries, InPipeline, TypeOK,
     Active, Deleters, Ended, Uploading, Finalizing
<1>4. Deletions'
  BY NoneAssumption DEF Deletions, Holding, Active, Ended, Deleters, Entries,
     InPipeline, Rows, Generating, TypeOK, Uploading, Finalizing
<1>5. CallsInStage'
  <2> SUFFICES ASSUME NEW c \in calls'
               PROVE  stage'[c[1]] = c[2] /\ errorStep'[c[1]] = "none"
    BY DEF CallsInStage
  <2>1. c \in calls /\ c \in Rpcs
    BY DEF TypeOK
  <2>2. c[1] \in Jobs /\ c[2] \in {"tiles", "headers"}
    BY <2>1, RpcFacts DEF Uploading
  <2>3. stage[c[1]] = c[2] /\ errorStep[c[1]] = "none"
    BY <2>1 DEF CallsInStage
  <2>4. c[1] # j
    BY <2>2, <2>3
  <2> QED
    BY <2>2, <2>3, <2>4 DEF TypeOK
<1>6. Progress'
  BY RpcFacts DEF Progress, Stored, CallsInStage, TypeOK, Active, Deleters, Ended,
     Generating, Uploading, Finalizing
<1>7. ReadyIsComplete'
  BY DEF ReadyIsComplete, Ready
<1> QED
  BY <1>1, <1>2, <1>3, <1>4, <1>5, <1>6, <1>7

\* The row is made by the one job in the pipeline.
LEMMA CreateRecordStep ==
    ASSUME IInv, NEW j \in Jobs, CreateRecord(j)
    PROVE  IInv'
<1> USE DEF IInv, CreateRecord, Advance, Working, Up, rpcVars, counters
<1>1. TypeOK'
  BY DEF TypeOK, Active, Deleters, Ended, Generating, Uploading, Finalizing
<1>2. Entries'
  <2>1. \A k \in Jobs : InPipeline(k)' <=> InPipeline(k)
    BY DEF InPipeline, TypeOK
  <2>2. entry = j
    BY DEF Entries, InPipeline
  <2>3. entry # NoJob
    BY <2>2, NoneAssumption
  <2> QED
    BY <2>1, <2>2, <2>3 DEF Entries, InPipeline, TypeOK
<1>3. Rows'
  <2>1. row' = [job |-> j, ready |-> FALSE] /\ stage[j] = "record" /\ row = NoRow
    OBVIOUS
  <2>2. \A k \in Jobs : ~Holding(k)
    BY <2>1, NewRowFacts DEF Rows
  <2>3. \A k \in Jobs : stage[k] \in Generating => k = j
    BY <2>1 DEF Rows, Generating
  <2>4. ASSUME NEW k \in Jobs PROVE stage[k] # "queued" /\ (stage[k] = "record" => k = j)
    BY <2>1, <2>3 DEF Entries, InPipeline, Rows, Generating
  <2> QED
    BY <2>1, <2>2, <2>3, <2>4 DEF Rows, Holding, Generating, TypeOK
<1>4. Deletions'
  BY NoneAssumption DEF Deletions, Holding, Active, Ended, Deleters, Entries,
     InPipeline, Rows, Generating, TypeOK, Uploading, Finalizing
<1>5. CallsInStage'
  <2> SUFFICES ASSUME NEW c \in calls'
               PROVE  stage'[c[1]] = c[2] /\ errorStep'[c[1]] = "none"
    BY DEF CallsInStage
  <2>1. c \in calls /\ c \in Rpcs
    BY DEF TypeOK
  <2>2. c[1] \in Jobs /\ c[2] \in {"tiles", "headers"}
    BY <2>1, RpcFacts DEF Uploading
  <2>3. stage[c[1]] = c[2] /\ errorStep[c[1]] = "none"
    BY <2>1 DEF CallsInStage
  <2>4. c[1] # j
    BY <2>2, <2>3
  <2> QED
    BY <2>2, <2>3, <2>4 DEF TypeOK
<1>6. Progress'
  BY RpcFacts DEF Progress, Stored, CallsInStage, TypeOK, Active, Deleters, Ended,
     Generating, Uploading, Finalizing
<1>7. ReadyIsComplete'
  BY NoneAssumption DEF ReadyIsComplete, Ready, Rows, Holding, Generating, Deletions,
     Active, Ended, Deleters, TypeOK, Uploading, Finalizing
<1> QED
  BY <1>1, <1>2, <1>3, <1>4, <1>5, <1>6, <1>7

\* The tiles are generated.
LEMMA GenerateStep ==
    ASSUME IInv, NEW j \in Jobs, Generate(j)
    PROVE  IInv'
<1> USE DEF IInv, Generate, Advance, Working, Up, shared, rpcVars, counters
<1>1. TypeOK'
  BY DEF TypeOK, Active, Deleters, Ended, Generating, Uploading, Finalizing
<1>2. Entries'
  BY DEF Entries, InPipeline, Rows, Holding, Generating, TypeOK, Active, Deleters,
     Ended, Uploading, Finalizing
<1>3. Rows'
  BY NoneAssumption DEF Rows, Holding, Generating, Entries, InPipeline, TypeOK,
     Active, Deleters, Ended, Uploading, Finalizing
<1>4. Deletions'
  BY NoneAssumption DEF Deletions, Holding, Active, Ended, Deleters, Entries,
     InPipeline, Rows, Generating, TypeOK, Uploading, Finalizing
<1>5. CallsInStage'
  <2> SUFFICES ASSUME NEW c \in calls'
               PROVE  stage'[c[1]] = c[2] /\ errorStep'[c[1]] = "none"
    BY DEF CallsInStage
  <2>1. c \in calls /\ c \in Rpcs
    BY DEF TypeOK
  <2>2. c[1] \in Jobs /\ c[2] \in {"tiles", "headers"}
    BY <2>1, RpcFacts DEF Uploading
  <2>3. stage[c[1]] = c[2] /\ errorStep[c[1]] = "none"
    BY <2>1 DEF CallsInStage
  <2>4. c[1] # j
    BY <2>2, <2>3
  <2> QED
    BY <2>2, <2>3, <2>4 DEF TypeOK
<1>6. Progress'
  BY RpcFacts DEF Progress, Stored, CallsInStage, TypeOK, Active, Deleters, Ended,
     Generating, Uploading, Finalizing
<1>7. ReadyIsComplete'
  BY DEF ReadyIsComplete, Ready
<1> QED
  BY <1>1, <1>2, <1>3, <1>4, <1>5, <1>6, <1>7

\* The upload of the tiles begins.
LEMMA StartUploadTilesStep ==
    ASSUME IInv, NEW j \in Jobs, StartUploadTiles(j)
    PROVE  IInv'
<1> USE DEF IInv, StartUploadTiles, Advance, Working, Up, shared, counters
<1>1. TypeOK'
  <2>1. row' \in [job : Jobs, ready : BOOLEAN] \union {NoRow} /\ objects' \subseteq Parts
    BY DEF TypeOK
  <2>2. /\ coordinator' \in {"starting", "cleaning", "up", "down"}
        /\ checked' \in 0..MaxRequests /\ entry' \in Jobs \union {NoJob}
    BY DEF TypeOK
  <2>3. stage' \in [Jobs -> Ended \union Generating \union Uploading \union Finalizing
                            \union {"queued", "merge"}]
    BY DEF TypeOK, Ended, Generating, Uploading, Finalizing
  <2>4. /\ errorStep' \in [Jobs -> {"none", "objects", "row", "cleanup"}]
        /\ \A k \in Jobs : errorStep'[k] # "none" => Active(k)'
        /\ cleanups' \subseteq Jobs
    BY DEF TypeOK, Active, Ended
  <2>5. calls' \subseteq running' /\ running' \subseteq Rpcs /\ missing' \subseteq Rpcs
    <3>1. ASSUME NEW g \in Generators PROVE <<j, "tiles", g>> \in Rpcs
      <4>1. <<"tiles", g>> \in Uploads
        BY DEF Uploads
      <4>2. \E i \in Jobs, u \in Uploads : <<j, "tiles", g>> = <<i, u[1], u[2]>>
        BY <4>1
      <4> QED
        BY <4>2 DEF Rpcs
    <3> QED
      BY <3>1 DEF TypeOK
  <2>6. /\ deleter' \in [Deleters -> {"idle", "selected", "marked", "cleaned"}]
        /\ requests' \in 0..MaxRequests /\ adminDeletes' \in 0..MaxAdminDeletes
        /\ crashes' \in 0..MaxCrashes /\ faults' \in 0..MaxFaults
    BY DEF TypeOK, Deleters
  <2> QED
    BY <2>1, <2>2, <2>3, <2>4, <2>5, <2>6 DEF TypeOK
<1>2. Entries'
  BY DEF Entries, InPipeline, Rows, Holding, Generating, TypeOK, Active, Deleters,
     Ended, Uploading, Finalizing
<1>3. Rows'
  BY NoneAssumption DEF Rows, Holding, Generating, Entries, InPipeline, TypeOK,
     Active, Deleters, Ended, Uploading, Finalizing
<1>4. Deletions'
  BY NoneAssumption DEF Deletions, Holding, Active, Ended, Deleters, Entries,
     InPipeline, Rows, Generating, TypeOK, Uploading, Finalizing
<1>5. CallsInStage'
  <2> SUFFICES ASSUME NEW c \in calls'
               PROVE  stage'[c[1]] = c[2] /\ errorStep'[c[1]] = "none"
    BY DEF CallsInStage
  <2>1. CASE c \in calls
    <3>1. c \in Rpcs
      BY <2>1 DEF TypeOK
    <3>2. c[1] \in Jobs /\ c[2] \in {"tiles", "headers"}
      BY <3>1, RpcFacts DEF Uploading
    <3>3. stage[c[1]] = c[2] /\ errorStep[c[1]] = "none"
      BY <2>1 DEF CallsInStage
    <3>4. c[1] # j
      BY <2>1, <3>2, <3>3 DEF CallsOf
    <3> QED
      BY <3>2, <3>3, <3>4 DEF TypeOK
  <2>2. CASE c \notin calls
    <3>1. PICK g \in Generators : c = <<j, "tiles", g>>
      BY <2>2
    <3> QED
      BY <3>1 DEF TypeOK
  <2> QED
    BY <2>1, <2>2
<1>6. Progress'
  BY RpcFacts DEF Progress, Stored, CallsInStage, TypeOK, Active, Deleters, Ended,
     Generating, Uploading, Finalizing
<1>7. ReadyIsComplete'
  BY DEF ReadyIsComplete, Ready
<1> QED
  BY <1>1, <1>2, <1>3, <1>4, <1>5, <1>6, <1>7

\* All uploads of tiles have ended, and those of the headers begin.
LEMMA StartUploadHeadersStep ==
    ASSUME IInv, NEW j \in Jobs, StartUploadHeaders(j)
    PROVE  IInv'
<1> USE DEF IInv, StartUploadHeaders, Advance, Working, Up, CallsOf, shared, counters
<1>1. TypeOK'
  <2>1. row' \in [job : Jobs, ready : BOOLEAN] \union {NoRow} /\ objects' \subseteq Parts
    BY DEF TypeOK
  <2>2. /\ coordinator' \in {"starting", "cleaning", "up", "down"}
        /\ checked' \in 0..MaxRequests /\ entry' \in Jobs \union {NoJob}
    BY DEF TypeOK
  <2>3. stage' \in [Jobs -> Ended \union Generating \union Uploading \union Finalizing
                            \union {"queued", "merge"}]
    BY DEF TypeOK, Ended, Generating, Uploading, Finalizing
  <2>4. /\ errorStep' \in [Jobs -> {"none", "objects", "row", "cleanup"}]
        /\ \A k \in Jobs : errorStep'[k] # "none" => Active(k)'
        /\ cleanups' \subseteq Jobs
    BY DEF TypeOK, Active, Ended
  <2>5. calls' \subseteq running' /\ running' \subseteq Rpcs /\ missing' \subseteq Rpcs
    <3>1. ASSUME NEW g \in Generators PROVE <<j, "headers", g>> \in Rpcs
      <4>1. <<"headers", g>> \in Uploads
        BY DEF Uploads
      <4>2. \E i \in Jobs, u \in Uploads : <<j, "headers", g>> = <<i, u[1], u[2]>>
        BY <4>1
      <4> QED
        BY <4>2 DEF Rpcs
    <3> QED
      BY <3>1 DEF TypeOK
  <2>6. /\ deleter' \in [Deleters -> {"idle", "selected", "marked", "cleaned"}]
        /\ requests' \in 0..MaxRequests /\ adminDeletes' \in 0..MaxAdminDeletes
        /\ crashes' \in 0..MaxCrashes /\ faults' \in 0..MaxFaults
    BY DEF TypeOK, Deleters
  <2> QED
    BY <2>1, <2>2, <2>3, <2>4, <2>5, <2>6 DEF TypeOK
<1>2. Entries'
  BY DEF Entries, InPipeline, Rows, Holding, Generating, TypeOK, Active, Deleters,
     Ended, Uploading, Finalizing
<1>3. Rows'
  BY NoneAssumption DEF Rows, Holding, Generating, Entries, InPipeline, TypeOK,
     Active, Deleters, Ended, Uploading, Finalizing
<1>4. Deletions'
  BY NoneAssumption DEF Deletions, Holding, Active, Ended, Deleters, Entries,
     InPipeline, Rows, Generating, TypeOK, Uploading, Finalizing
<1>5. CallsInStage'
  BY RpcFacts DEF CallsInStage, TypeOK, Active, Deleters, Ended, Generating,
     Uploading, Finalizing
<1>6. Progress'
  BY RpcFacts DEF Progress, Stored, CallsInStage, TypeOK, Active, Deleters, Ended,
     Generating, Uploading, Finalizing
<1>7. ReadyIsComplete'
  BY DEF ReadyIsComplete, Ready
<1> QED
  BY <1>1, <1>2, <1>3, <1>4, <1>5, <1>6, <1>7

\* All uploads have ended.
LEMMA PutMetadataStep ==
    ASSUME IInv, NEW j \in Jobs, PutMetadata(j)
    PROVE  IInv'
<1> USE DEF IInv, PutMetadata, Advance, Working, Up, CallsOf, rpcVars, counters
<1>1. TypeOK'
  <2>1. row' \in [job : Jobs, ready : BOOLEAN] \union {NoRow} /\ objects' \subseteq Parts
    BY DEF TypeOK, Parts
  <2>2. /\ coordinator' \in {"starting", "cleaning", "up", "down"}
        /\ checked' \in 0..MaxRequests /\ entry' \in Jobs \union {NoJob}
    BY DEF TypeOK
  <2>3. stage' \in [Jobs -> Ended \union Generating \union Uploading \union Finalizing
                            \union {"queued", "merge"}]
    BY DEF TypeOK, Ended, Generating, Uploading, Finalizing
  <2>4. /\ errorStep' \in [Jobs -> {"none", "objects", "row", "cleanup"}]
        /\ \A k \in Jobs : errorStep'[k] # "none" => Active(k)'
        /\ cleanups' \subseteq Jobs
    BY DEF TypeOK, Active, Ended
  <2>5. calls' \subseteq running' /\ running' \subseteq Rpcs /\ missing' \subseteq Rpcs
    BY DEF TypeOK
  <2>6. /\ deleter' \in [Deleters -> {"idle", "selected", "marked", "cleaned"}]
        /\ requests' \in 0..MaxRequests /\ adminDeletes' \in 0..MaxAdminDeletes
        /\ crashes' \in 0..MaxCrashes /\ faults' \in 0..MaxFaults
    BY DEF TypeOK, Deleters
  <2> QED
    BY <2>1, <2>2, <2>3, <2>4, <2>5, <2>6 DEF TypeOK
<1>2. Entries'
  BY DEF Entries, InPipeline, Rows, Holding, Generating, TypeOK, Active, Deleters,
     Ended, Uploading, Finalizing
<1>3. Rows'
  BY NoneAssumption DEF Rows, Holding, Generating, Entries, InPipeline, TypeOK,
     Active, Deleters, Ended, Uploading, Finalizing
<1>4. Deletions'
  BY NoneAssumption DEF Deletions, Holding, Active, Ended, Deleters, Entries,
     InPipeline, Rows, Generating, TypeOK, Uploading, Finalizing
<1>5. CallsInStage'
  BY RpcFacts DEF CallsInStage, TypeOK, Active, Deleters, Ended, Generating,
     Uploading, Finalizing
<1>6. Progress'
  BY RpcFacts DEF Progress, Stored, CallsInStage, TypeOK, Active, Deleters, Ended,
     Generating, Uploading, Finalizing
<1>7. ReadyIsComplete'
  BY NoneAssumption DEF ReadyIsComplete, Ready, Rows, Holding, Generating, Deletions,
     Active, Ended, Deleters, TypeOK, Uploading, Finalizing
<1> QED
  BY <1>1, <1>2, <1>3, <1>4, <1>5, <1>6, <1>7

\* The entry goes; no request is about to push.
LEMMA MarkReadyStep ==
    ASSUME IInv, ~SlowRequests, NEW j \in Jobs, MarkReady(j)
    PROVE  IInv'
<1> USE DEF IInv, MarkReady, Advance, Working, Up, Prompt, Free, shared, rpcVars, counters
<1>1. TypeOK'
  BY DEF TypeOK, Active, Deleters, Ended, Generating, Uploading, Finalizing
<1>2. Entries'
  BY DEF Entries, InPipeline, Rows, Holding, Generating, TypeOK, Active, Deleters,
     Ended, Uploading, Finalizing
<1>3. Rows'
  BY NoneAssumption DEF Rows, Holding, Generating, Entries, InPipeline, TypeOK,
     Active, Deleters, Ended, Uploading, Finalizing
<1>4. Deletions'
  BY NoneAssumption DEF Deletions, Holding, Active, Ended, Deleters, Entries,
     InPipeline, Rows, Generating, TypeOK, Uploading, Finalizing
<1>5. CallsInStage'
  BY RpcFacts, ZenonT(40) DEF CallsInStage, TypeOK, Active, Deleters, Ended, Generating,
     Uploading, Finalizing
<1>6. Progress'
  BY RpcFacts DEF Progress, Stored, CallsInStage, TypeOK, Active, Deleters, Ended,
     Generating, Uploading, Finalizing
<1>7. ReadyIsComplete'
  BY DEF ReadyIsComplete, Ready
<1> QED
  BY <1>1, <1>2, <1>3, <1>4, <1>5, <1>6, <1>7

\* The last part is stored.
LEMMA PutProfileStep ==
    ASSUME IInv, NEW j \in Jobs, PutProfile(j)
    PROVE  IInv'
<1> USE DEF IInv, PutProfile, Advance, Working, Up, rpcVars, counters
<1>1. TypeOK'
  <2>1. row' \in [job : Jobs, ready : BOOLEAN] \union {NoRow} /\ objects' \subseteq Parts
    BY DEF TypeOK, Parts
  <2>2. /\ coordinator' \in {"starting", "cleaning", "up", "down"}
        /\ checked' \in 0..MaxRequests /\ entry' \in Jobs \union {NoJob}
    BY DEF TypeOK
  <2>3. stage' \in [Jobs -> Ended \union Generating \union Uploading \union Finalizing
                            \union {"queued", "merge"}]
    BY DEF TypeOK, Ended, Generating, Uploading, Finalizing
  <2>4. /\ errorStep' \in [Jobs -> {"none", "objects", "row", "cleanup"}]
        /\ \A k \in Jobs : errorStep'[k] # "none" => Active(k)'
        /\ cleanups' \subseteq Jobs
    BY DEF TypeOK, Active, Ended
  <2>5. calls' \subseteq running' /\ running' \subseteq Rpcs /\ missing' \subseteq Rpcs
    BY DEF TypeOK
  <2>6. /\ deleter' \in [Deleters -> {"idle", "selected", "marked", "cleaned"}]
        /\ requests' \in 0..MaxRequests /\ adminDeletes' \in 0..MaxAdminDeletes
        /\ crashes' \in 0..MaxCrashes /\ faults' \in 0..MaxFaults
    BY DEF TypeOK, Deleters
  <2> QED
    BY <2>1, <2>2, <2>3, <2>4, <2>5, <2>6 DEF TypeOK
<1>2. Entries'
  BY DEF Entries, InPipeline, Rows, Holding, Generating, TypeOK, Active, Deleters,
     Ended, Uploading, Finalizing
<1>3. Rows'
  BY NoneAssumption DEF Rows, Holding, Generating, Entries, InPipeline, TypeOK,
     Active, Deleters, Ended, Uploading, Finalizing
<1>4. Deletions'
  BY NoneAssumption DEF Deletions, Holding, Active, Ended, Deleters, Entries,
     InPipeline, Rows, Generating, TypeOK, Uploading, Finalizing
<1>5. CallsInStage'
  <2> SUFFICES ASSUME NEW c \in calls'
               PROVE  stage'[c[1]] = c[2] /\ errorStep'[c[1]] = "none"
    BY DEF CallsInStage
  <2>1. c \in calls /\ c \in Rpcs
    BY DEF TypeOK
  <2>2. c[1] \in Jobs /\ c[2] \in {"tiles", "headers"}
    BY <2>1, RpcFacts DEF Uploading
  <2>3. stage[c[1]] = c[2] /\ errorStep[c[1]] = "none"
    BY <2>1 DEF CallsInStage
  <2>4. c[1] # j
    BY <2>2, <2>3
  <2> QED
    BY <2>2, <2>3, <2>4 DEF TypeOK
<1>6. Progress'
  BY RpcFacts DEF Progress, Stored, CallsInStage, TypeOK, Active, Deleters, Ended,
     Generating, Uploading, Finalizing
<1>7. ReadyIsComplete'
  BY NoneAssumption DEF ReadyIsComplete, Ready, Rows, Holding, Generating, Deletions,
     Active, Ended, Deleters, TypeOK, Uploading, Finalizing
<1> QED
  BY <1>1, <1>2, <1>3, <1>4, <1>5, <1>6, <1>7

\* finalize_success ends with an exception.
LEMMA PutProfileFailsStep ==
    ASSUME IInv, NEW j \in Jobs, PutProfileFails(j)
    PROVE  IInv'
<1> USE DEF IInv, PutProfileFails, Advance, Working, Up, Fault, shared, rpcVars
<1>1. TypeOK'
  BY BoundsAssumption DEF TypeOK, Active, Deleters, Ended, Generating, Uploading,
     Finalizing
<1>2. Entries'
  BY DEF Entries, InPipeline, Rows, Holding, Generating, TypeOK, Active, Deleters,
     Ended, Uploading, Finalizing
<1>3. Rows'
  BY NoneAssumption DEF Rows, Holding, Generating, Entries, InPipeline, TypeOK,
     Active, Deleters, Ended, Uploading, Finalizing
<1>4. Deletions'
  BY NoneAssumption DEF Deletions, Holding, Active, Ended, Deleters, Entries,
     InPipeline, Rows, Generating, TypeOK, Uploading, Finalizing
<1>5. CallsInStage'
  <2> SUFFICES ASSUME NEW c \in calls'
               PROVE  stage'[c[1]] = c[2] /\ errorStep'[c[1]] = "none"
    BY DEF CallsInStage
  <2>1. c \in calls /\ c \in Rpcs
    BY DEF TypeOK
  <2>2. c[1] \in Jobs /\ c[2] \in {"tiles", "headers"}
    BY <2>1, RpcFacts DEF Uploading
  <2>3. stage[c[1]] = c[2] /\ errorStep[c[1]] = "none"
    BY <2>1 DEF CallsInStage
  <2>4. c[1] # j
    BY <2>2, <2>3
  <2> QED
    BY <2>2, <2>3, <2>4 DEF TypeOK
<1>6. Progress'
  BY RpcFacts DEF Progress, Stored, CallsInStage, TypeOK, Active, Deleters, Ended,
     Generating, Uploading, Finalizing
<1>7. ReadyIsComplete'
  BY DEF ReadyIsComplete, Ready
<1> QED
  BY <1>1, <1>2, <1>3, <1>4, <1>5, <1>6, <1>7

\* The row is the row of the job, and all parts are stored.
LEMMA UpdateRecordStep ==
    ASSUME IInv, NEW j \in Jobs, UpdateRecord(j)
    PROVE  IInv'
<1> USE DEF IInv, UpdateRecord, Advance, Working, Up, rpcVars, counters
<1>1. TypeOK'
  BY DEF TypeOK, Active, Deleters, Ended, Generating, Uploading, Finalizing
<1>2. Entries'
  BY DEF Entries, InPipeline, Rows, Holding, Generating, TypeOK, Active, Deleters,
     Ended, Uploading, Finalizing
<1>3. Rows'
  BY NoneAssumption DEF Rows, Holding, Generating, Entries, InPipeline, TypeOK,
     Active, Deleters, Ended, Uploading, Finalizing
<1>4. Deletions'
  BY NoneAssumption DEF Deletions, Holding, Active, Ended, Deleters, Entries,
     InPipeline, Rows, Generating, TypeOK, Uploading, Finalizing
<1>5. CallsInStage'
  <2> SUFFICES ASSUME NEW c \in calls'
               PROVE  stage'[c[1]] = c[2] /\ errorStep'[c[1]] = "none"
    BY DEF CallsInStage
  <2>1. c \in calls /\ c \in Rpcs
    BY DEF TypeOK
  <2>2. c[1] \in Jobs /\ c[2] \in {"tiles", "headers"}
    BY <2>1, RpcFacts DEF Uploading
  <2>3. stage[c[1]] = c[2] /\ errorStep[c[1]] = "none"
    BY <2>1 DEF CallsInStage
  <2>4. c[1] # j
    BY <2>2, <2>3
  <2> QED
    BY <2>2, <2>3, <2>4 DEF TypeOK
<1>6. Progress'
  BY RpcFacts DEF Progress, Stored, CallsInStage, TypeOK, Active, Deleters, Ended,
     Generating, Uploading, Finalizing
<1>7. ReadyIsComplete'
  <2> SUFFICES ASSUME NEW p \in Parts
               PROVE  p \in objects' \/ \E r \in missing' : r[1] = row'.job /\ p = <<r[2], r[3]>>
    BY DEF ReadyIsComplete
  <2>1. row = [job |-> j, ready |-> FALSE] /\ row # NoRow
    BY NewRowFacts DEF Rows, Holding
  <2>2. row'.job = j
    BY <2>1
  <2>3. /\ \A g \in Generators : Stored(j, "tiles", g) /\ Stored(j, "headers", g)
        /\ <<"metadata">> \in objects /\ <<"profile">> \in objects
    BY DEF Progress
  <2>4. CASE p \in Uploads
    <3>1. PICK kind \in {"tiles", "headers"}, g \in Generators : p = <<kind, g>>
      BY <2>4 DEF Uploads
    <3>2. Stored(j, kind, g)
      BY <2>3
    <3>3. CASE <<j, kind, g>> \in missing
      BY <2>2, <3>1, <3>3
    <3> QED
      BY <3>1, <3>2, <3>3 DEF Stored
  <2> QED
    BY <2>3, <2>4 DEF Parts
<1> QED
  BY <1>1, <1>2, <1>3, <1>4, <1>5, <1>6, <1>7

\* The local storage is cleared when no upload is waited for.
LEMMA CleanupStep ==
    ASSUME IInv, NEW j \in Jobs, Cleanup(j)
    PROVE  IInv'
<1> USE DEF IInv, Cleanup, Advance, Working, Up, ClearLocal, Fault, shared, counters
<1>1. TypeOK'
  <2>1. row' \in [job : Jobs, ready : BOOLEAN] \union {NoRow} /\ objects' \subseteq Parts
    BY DEF TypeOK
  <2>2. /\ coordinator' \in {"starting", "cleaning", "up", "down"}
        /\ checked' \in 0..MaxRequests /\ entry' \in Jobs \union {NoJob}
    BY DEF TypeOK
  <2>3. stage' \in [Jobs -> Ended \union Generating \union Uploading \union Finalizing
                            \union {"queued", "merge"}]
    BY DEF TypeOK, Ended, Generating, Uploading, Finalizing
  <2>4. /\ errorStep' \in [Jobs -> {"none", "objects", "row", "cleanup"}]
        /\ \A k \in Jobs : errorStep'[k] # "none" => Active(k)'
        /\ cleanups' \subseteq Jobs
    BY DEF TypeOK, Active, Ended
  <2>5. calls' \subseteq running' /\ running' \subseteq Rpcs /\ missing' \subseteq Rpcs
    <3>1. ASSUME NEW c \in calls PROVE c[1] # j
      BY RpcFacts DEF TypeOK, CallsInStage, Uploading
    <3> QED
      BY <3>1 DEF TypeOK
  <2>6. /\ deleter' \in [Deleters -> {"idle", "selected", "marked", "cleaned"}]
        /\ requests' \in 0..MaxRequests /\ adminDeletes' \in 0..MaxAdminDeletes
        /\ crashes' \in 0..MaxCrashes /\ faults' \in 0..MaxFaults
    BY BoundsAssumption DEF TypeOK, Deleters
  <2> QED
    BY <2>1, <2>2, <2>3, <2>4, <2>5, <2>6 DEF TypeOK
<1>2. Entries'
  BY DEF Entries, InPipeline, Rows, Holding, Generating, TypeOK, Active, Deleters,
     Ended, Uploading, Finalizing
<1>3. Rows'
  BY NoneAssumption DEF Rows, Holding, Generating, Entries, InPipeline, TypeOK,
     Active, Deleters, Ended, Uploading, Finalizing
<1>4. Deletions'
  BY NoneAssumption DEF Deletions, Holding, Active, Ended, Deleters, Entries,
     InPipeline, Rows, Generating, TypeOK, Uploading, Finalizing
<1>5. CallsInStage'
  <2> SUFFICES ASSUME NEW c \in calls'
               PROVE  stage'[c[1]] = c[2] /\ errorStep'[c[1]] = "none"
    BY DEF CallsInStage
  <2>1. c \in calls /\ c \in Rpcs
    BY DEF TypeOK
  <2>2. c[1] \in Jobs /\ c[2] \in {"tiles", "headers"}
    BY <2>1, RpcFacts DEF Uploading
  <2>3. stage[c[1]] = c[2] /\ errorStep[c[1]] = "none"
    BY <2>1 DEF CallsInStage
  <2>4. c[1] # j
    BY <2>2, <2>3
  <2> QED
    BY <2>2, <2>3, <2>4 DEF TypeOK
<1>6. Progress'
  BY RpcFacts DEF Progress, Stored, CallsInStage, TypeOK, Active, Deleters, Ended,
     Generating, Uploading, Finalizing
<1>7. ReadyIsComplete'
  BY DEF ReadyIsComplete, Ready
<1> QED
  BY <1>1, <1>2, <1>3, <1>4, <1>5, <1>6, <1>7

-----------------------------------------------------------------------------
(* Uploads. *)

\* An upload stores its part, whether or not it is waited for.
LEMMA UploadStep ==
    ASSUME IInv, NEW r \in Rpcs, Upload(r)
    PROVE  IInv'
<1> USE DEF IInv, Upload, jobVars, counters
<1>1. TypeOK'
  BY RpcFacts DEF TypeOK, Active, Deleters, Ended, Generating, Uploading, Finalizing
<1>2. Deletions'
  BY NoneAssumption DEF Deletions, Holding, Active, Ended, Deleters, Entries,
     InPipeline, Rows, Generating, TypeOK, Uploading, Finalizing
<1>3. CallsInStage'
  BY RpcFacts DEF CallsInStage, TypeOK, Active, Deleters, Ended, Generating,
     Uploading, Finalizing
<1>4. Progress'
  BY RpcFacts DEF Progress, Stored, CallsInStage, TypeOK, Active, Deleters, Ended,
     Generating, Uploading, Finalizing
<1>5. ReadyIsComplete'
  BY NoneAssumption DEF ReadyIsComplete, Ready, Rows, Holding, Generating, Deletions,
     Active, Ended, Deleters, TypeOK, Uploading, Finalizing
<1>6. Entries' /\ Rows'
  BY DEF Entries, InPipeline, Rows, Holding
<1> QED
  BY <1>1, <1>2, <1>3, <1>4, <1>5, <1>6

\* An upload fails.
LEMMA UploadFailsStep ==
    ASSUME IInv, NEW r \in Rpcs, UploadFails(r)
    PROVE  IInv'
<1> USE DEF IInv, UploadFails, shared, jobVars, counters
<1>1. TypeOK'
  BY RpcFacts DEF TypeOK, Active, Deleters, Ended, Generating, Uploading, Finalizing
<1>2. Deletions'
  BY NoneAssumption DEF Deletions, Holding, Active, Ended, Deleters, Entries,
     InPipeline, Rows, Generating, TypeOK, Uploading, Finalizing
<1>3. CallsInStage'
  BY RpcFacts DEF CallsInStage, TypeOK, Active, Deleters, Ended, Generating,
     Uploading, Finalizing
<1>4. Progress'
  BY RpcFacts DEF Progress, Stored, CallsInStage, TypeOK, Active, Deleters, Ended,
     Generating, Uploading, Finalizing
<1>5. ReadyIsComplete'
  BY NoneAssumption DEF ReadyIsComplete, Ready, Rows, Holding, Generating, Deletions,
     Active, Ended, Deleters, TypeOK, Uploading, Finalizing
<1>6. Entries' /\ Rows'
  BY DEF Entries, InPipeline, Rows, Holding
<1> QED
  BY <1>1, <1>2, <1>3, <1>4, <1>5, <1>6

\* The coordinator loses an upload that goes on.
LEMMA LoseCallStep ==
    ASSUME IInv, NEW r \in Rpcs, LoseCall(r)
    PROVE  IInv'
<1> USE DEF IInv, LoseCall, Fault, shared, jobVars
<1>1. TypeOK'
  BY RpcFacts, BoundsAssumption DEF TypeOK, Active, Deleters, Ended, Generating,
     Uploading, Finalizing
<1>2. Deletions'
  BY NoneAssumption DEF Deletions, Holding, Active, Ended, Deleters, Entries,
     InPipeline, Rows, Generating, TypeOK, Uploading, Finalizing
<1>3. CallsInStage'
  BY RpcFacts DEF CallsInStage, TypeOK, Active, Deleters, Ended, Generating,
     Uploading, Finalizing
<1>4. Progress'
  BY RpcFacts DEF Progress, Stored, CallsInStage, TypeOK, Active, Deleters, Ended,
     Generating, Uploading, Finalizing
<1>5. ReadyIsComplete'
  BY NoneAssumption DEF ReadyIsComplete, Ready, Rows, Holding, Generating, Deletions,
     Active, Ended, Deleters, TypeOK, Uploading, Finalizing
<1>6. Entries' /\ Rows'
  BY DEF Entries, InPipeline, Rows, Holding
<1> QED
  BY <1>1, <1>2, <1>3, <1>4, <1>5, <1>6

-----------------------------------------------------------------------------
(* Errors. *)

\* A job fails; its entry stays for 5 s.
LEMMA FailStageStep ==
    ASSUME IInv, NEW j \in Jobs, FailStage(j)
    PROVE  IInv'
<1> USE DEF IInv, FailStage, Working, Up, CallsOf, Fails, shared, counters
<1>1. TypeOK'
  BY DEF TypeOK, Active, Deleters, Ended, Generating, Uploading, Finalizing
<1>2. Entries'
  BY DEF Entries, InPipeline, Rows, Holding, Generating, TypeOK, Active, Deleters,
     Ended, Uploading, Finalizing
<1>3. Rows'
  BY NoneAssumption DEF Rows, Holding, Generating, Entries, InPipeline, TypeOK,
     Active, Deleters, Ended, Uploading, Finalizing
<1>4. Deletions'
  BY NoneAssumption DEF Deletions, Holding, Active, Ended, Deleters, Entries,
     InPipeline, Rows, Generating, TypeOK, Uploading, Finalizing
<1>5. CallsInStage'
  BY RpcFacts DEF CallsInStage, TypeOK, Active, Deleters, Ended, Generating,
     Uploading, Finalizing
<1>6. Progress'
  BY RpcFacts DEF Progress, Stored, CallsInStage, TypeOK, Active, Deleters, Ended,
     Generating, Uploading, Finalizing
<1>7. ReadyIsComplete'
  BY DEF ReadyIsComplete, Ready
<1> QED
  BY <1>1, <1>2, <1>3, <1>4, <1>5, <1>6, <1>7

\* The entry that goes is the one of the job that failed.
LEMMA DelayedCleanupStep ==
    ASSUME IInv, ~SlowRequests, NEW j \in Jobs, DelayedCleanup(j)
    PROVE  IInv'
<1> USE DEF IInv, DelayedCleanup, Up, Prompt, shared, rpcVars, counters
<1>1. TypeOK'
  BY DEF TypeOK, Active, Deleters, Ended, Generating, Uploading, Finalizing
<1>2. Entries'
  BY DEF Entries, InPipeline, Rows, Holding, Generating, TypeOK, Active, Deleters,
     Ended, Uploading, Finalizing
<1>3. Deletions'
  BY NoneAssumption DEF Deletions, Holding, Active, Ended, Deleters, Entries,
     InPipeline, Rows, Generating, TypeOK, Uploading, Finalizing
<1>4. Rows' /\ CallsInStage' /\ Progress' /\ ReadyIsComplete'
  BY DEF Rows, Holding, CallsInStage, Progress, Stored, ReadyIsComplete, Ready
<1> QED
  BY <1>1, <1>2, <1>3, <1>4

\* The objects that go are those of the job that failed.
LEMMA ErrorDeletesObjectsStep ==
    ASSUME IInv, NEW j \in Jobs, ErrorDeletesObjects(j)
    PROVE  IInv'
<1> USE DEF IInv, ErrorDeletesObjects, Up, rpcVars, counters
<1>1. TypeOK'
  BY DEF TypeOK, Active, Deleters, Ended, Generating, Uploading, Finalizing
<1>2. Entries'
  BY DEF Entries, InPipeline, Rows, Holding, Generating, TypeOK, Active, Deleters,
     Ended, Uploading, Finalizing
<1>3. Rows'
  BY NoneAssumption DEF Rows, Holding, Generating, Entries, InPipeline, TypeOK,
     Active, Deleters, Ended, Uploading, Finalizing
<1>4. Deletions'
  BY NoneAssumption DEF Deletions, Holding, Active, Ended, Deleters, Entries,
     InPipeline, Rows, Generating, TypeOK, Uploading, Finalizing
<1>5. CallsInStage'
  BY RpcFacts DEF CallsInStage, TypeOK, Active, Deleters, Ended, Generating,
     Uploading, Finalizing
<1>6. Progress'
  <2>1. ASSUME NEW k \in Jobs, errorStep'[k] = "none",
               stage[k] \in {"tiles", "headers", "ready", "profile", "update"}
        PROVE  FALSE
    <3>1. errorStep[k] = "none" /\ k # j
      BY <2>1 DEF TypeOK
    <3>2. row = [job |-> k, ready |-> FALSE] /\ row # NoRow
      BY <2>1, <3>1, NewRowFacts DEF Rows, Holding
    <3>3. stage[j] # "record" /\ Holding(j)
      BY <3>2 DEF Rows, Holding
    <3>4. row = [job |-> j, ready |-> FALSE]
      BY <3>3 DEF Rows
    <3> QED
      BY <3>1, <3>2, <3>4
  <2> QED
    BY <2>1 DEF Progress
<1>7. ReadyIsComplete'
  BY NoneAssumption DEF ReadyIsComplete, Ready, Rows, Holding, Generating, Deletions,
     Active, Ended, Deleters, TypeOK, Uploading, Finalizing
<1> QED
  BY <1>1, <1>2, <1>3, <1>4, <1>5, <1>6, <1>7

\* The storage fails, and the row stays.
LEMMA ErrorDeletionFailsStep ==
    ASSUME IInv, NEW j \in Jobs, ErrorDeletionFails(j)
    PROVE  IInv'
<1> USE DEF IInv, ErrorDeletionFails, Up, Fault, shared, rpcVars
<1>1. TypeOK'
  BY BoundsAssumption DEF TypeOK, Active, Deleters, Ended, Generating, Uploading,
     Finalizing
<1>2. Entries'
  BY DEF Entries, InPipeline, Rows, Holding, Generating, TypeOK, Active, Deleters,
     Ended, Uploading, Finalizing
<1>3. Rows'
  BY NoneAssumption DEF Rows, Holding, Generating, Entries, InPipeline, TypeOK,
     Active, Deleters, Ended, Uploading, Finalizing
<1>4. Deletions'
  BY NoneAssumption DEF Deletions, Holding, Active, Ended, Deleters, Entries,
     InPipeline, Rows, Generating, TypeOK, Uploading, Finalizing
<1>5. CallsInStage'
  BY RpcFacts DEF CallsInStage, TypeOK, Active, Deleters, Ended, Generating,
     Uploading, Finalizing
<1>6. Progress'
  BY RpcFacts DEF Progress, Stored, CallsInStage, TypeOK, Active, Deleters, Ended,
     Generating, Uploading, Finalizing
<1>7. ReadyIsComplete'
  BY DEF ReadyIsComplete, Ready
<1> QED
  BY <1>1, <1>2, <1>3, <1>4, <1>5, <1>6, <1>7

\* The row that goes is the one of the job that failed.
LEMMA ErrorDeletesRowStep ==
    ASSUME IInv, NEW j \in Jobs, ErrorDeletesRow(j)
    PROVE  IInv'
<1> USE DEF IInv, ErrorDeletesRow, Up, rpcVars, counters
<1>1. TypeOK'
  BY DEF TypeOK, Active, Deleters, Ended, Generating, Uploading, Finalizing
<1>2. Entries'
  BY DEF Entries, InPipeline, Rows, Holding, Generating, TypeOK, Active, Deleters,
     Ended, Uploading, Finalizing
<1>3. Rows'
  BY NoneAssumption DEF Rows, Holding, Generating, Entries, InPipeline, TypeOK,
     Active, Deleters, Ended, Uploading, Finalizing
<1>4. Deletions'
  BY NoneAssumption DEF Deletions, Holding, Active, Ended, Deleters, Entries,
     InPipeline, Rows, Generating, TypeOK, Uploading, Finalizing
<1>5. CallsInStage'
  BY RpcFacts DEF CallsInStage, TypeOK, Active, Deleters, Ended, Generating,
     Uploading, Finalizing
<1>6. Progress'
  BY RpcFacts DEF Progress, Stored, CallsInStage, TypeOK, Active, Deleters, Ended,
     Generating, Uploading, Finalizing
<1>7. ReadyIsComplete'
  BY NoneAssumption DEF ReadyIsComplete, Ready, Rows, Holding, Generating, Deletions,
     Active, Ended, Deleters, TypeOK, Uploading, Finalizing
<1> QED
  BY <1>1, <1>2, <1>3, <1>4, <1>5, <1>6, <1>7

\* A job that failed is over.
LEMMA ErrorCleanupStep ==
    ASSUME IInv, NEW j \in Jobs, ErrorCleanup(j)
    PROVE  IInv'
<1> USE DEF IInv, ErrorCleanup, Up, ClearLocal, Fault, shared, counters
<1>1. TypeOK'
  <2>1. row' \in [job : Jobs, ready : BOOLEAN] \union {NoRow} /\ objects' \subseteq Parts
    BY DEF TypeOK
  <2>2. /\ coordinator' \in {"starting", "cleaning", "up", "down"}
        /\ checked' \in 0..MaxRequests /\ entry' \in Jobs \union {NoJob}
    BY DEF TypeOK
  <2>3. stage' \in [Jobs -> Ended \union Generating \union Uploading \union Finalizing
                            \union {"queued", "merge"}]
    BY DEF TypeOK, Ended, Generating, Uploading, Finalizing
  <2>4. /\ errorStep' \in [Jobs -> {"none", "objects", "row", "cleanup"}]
        /\ \A k \in Jobs : errorStep'[k] # "none" => Active(k)'
        /\ cleanups' \subseteq Jobs
    BY DEF TypeOK, Active, Ended
  <2>5. calls' \subseteq running' /\ running' \subseteq Rpcs /\ missing' \subseteq Rpcs
    <3>1. ASSUME NEW c \in calls PROVE c[1] # j
      BY DEF CallsInStage
    <3> QED
      BY <3>1 DEF TypeOK
  <2>6. /\ deleter' \in [Deleters -> {"idle", "selected", "marked", "cleaned"}]
        /\ requests' \in 0..MaxRequests /\ adminDeletes' \in 0..MaxAdminDeletes
        /\ crashes' \in 0..MaxCrashes /\ faults' \in 0..MaxFaults
    BY BoundsAssumption DEF TypeOK, Deleters
  <2> QED
    BY <2>1, <2>2, <2>3, <2>4, <2>5, <2>6 DEF TypeOK
<1>2. Entries'
  BY DEF Entries, InPipeline, Rows, Holding, Generating, TypeOK, Active, Deleters,
     Ended, Uploading, Finalizing
<1>3. Rows'
  BY NoneAssumption DEF Rows, Holding, Generating, Entries, InPipeline, TypeOK,
     Active, Deleters, Ended, Uploading, Finalizing
<1>4. Deletions'
  BY NoneAssumption DEF Deletions, Holding, Active, Ended, Deleters, Entries,
     InPipeline, Rows, Generating, TypeOK, Uploading, Finalizing
<1>5. CallsInStage'
  BY RpcFacts DEF CallsInStage, TypeOK, Active, Deleters, Ended, Generating,
     Uploading, Finalizing
<1>6. Progress'
  BY RpcFacts DEF Progress, Stored, CallsInStage, TypeOK, Active, Deleters, Ended,
     Generating, Uploading, Finalizing
<1>7. ReadyIsComplete'
  BY DEF ReadyIsComplete, Ready
<1> QED
  BY <1>1, <1>2, <1>3, <1>4, <1>5, <1>6, <1>7

-----------------------------------------------------------------------------
(* Deletions. *)

\* No job holds a row that is ready.
LEMMA SelectStep ==
    ASSUME IInv, MaxAdminDeletes = 0, NEW d \in Deleters, Select(d)
    PROVE  IInv'
<1> USE DEF IInv, Select, Selectable, Up, shared, jobVars, rpcVars
<1>1. TypeOK'
  <2>1. row' \in [job : Jobs, ready : BOOLEAN] \union {NoRow} /\ objects' \subseteq Parts
    BY DEF TypeOK
  <2>2. /\ coordinator' \in {"starting", "cleaning", "up", "down"}
        /\ checked' \in 0..MaxRequests /\ entry' \in Jobs \union {NoJob}
    BY DEF TypeOK
  <2>3. stage' \in [Jobs -> Ended \union Generating \union Uploading \union Finalizing
                            \union {"queued", "merge"}]
    BY DEF TypeOK, Ended, Generating, Uploading, Finalizing
  <2>4. /\ errorStep' \in [Jobs -> {"none", "objects", "row", "cleanup"}]
        /\ \A k \in Jobs : errorStep'[k] # "none" => Active(k)'
        /\ cleanups' \subseteq Jobs
    BY DEF TypeOK, Active, Ended
  <2>5. calls' \subseteq running' /\ running' \subseteq Rpcs /\ missing' \subseteq Rpcs
    BY DEF TypeOK
  <2>6. /\ deleter' \in [Deleters -> {"idle", "selected", "marked", "cleaned"}]
        /\ requests' \in 0..MaxRequests /\ adminDeletes' \in 0..MaxAdminDeletes
        /\ crashes' \in 0..MaxCrashes /\ faults' \in 0..MaxFaults
    <3>1. d # "admin"
      BY SelectableFacts
    <3>2. adminDeletes' = adminDeletes
      BY <3>1
    <3> QED
      BY <3>2 DEF TypeOK, Deleters
  <2> QED
    BY <2>1, <2>2, <2>3, <2>4, <2>5, <2>6 DEF TypeOK
<1>2. Deletions'
  <2>1. CASE d = "housekeeping" /\ Up /\ row # NoRow /\ row.ready
    <3>1. \A j \in Jobs : ~Holding(j)
      BY <2>1 DEF Rows
    <3> QED
      BY <2>1, <3>1 DEF Deletions, Holding, Active, TypeOK, Deleters
  <2>2. CASE d = "startup" /\ coordinator = "starting" /\ row # NoRow /\ ~row.ready
    BY <2>2 DEF Deletions, Holding, Active, TypeOK, Deleters
  <2> QED
    BY <2>1, <2>2, SelectableFacts
<1>3. Entries' /\ Rows' /\ CallsInStage' /\ Progress' /\ ReadyIsComplete'
  BY DEF Entries, InPipeline, Rows, Holding, CallsInStage, Progress, Stored,
     ReadyIsComplete, Ready
<1> QED
  BY <1>1, <1>2, <1>3

\* From now on the row is not ready.
LEMMA MarkStep ==
    ASSUME IInv, NEW d \in Deleters, Mark(d)
    PROVE  IInv'
<1> USE DEF IInv, Mark, jobVars, rpcVars, counters
<1>1. TypeOK'
  <2>1. row' \in [job : Jobs, ready : BOOLEAN] \union {NoRow} /\ objects' \subseteq Parts
    BY DEF TypeOK
  <2>2. /\ coordinator' \in {"starting", "cleaning", "up", "down"}
        /\ checked' \in 0..MaxRequests /\ entry' \in Jobs \union {NoJob}
    BY DEF TypeOK
  <2>3. stage' \in [Jobs -> Ended \union Generating \union Uploading \union Finalizing
                            \union {"queued", "merge"}]
    BY DEF TypeOK, Ended, Generating, Uploading, Finalizing
  <2>4. /\ errorStep' \in [Jobs -> {"none", "objects", "row", "cleanup"}]
        /\ \A k \in Jobs : errorStep'[k] # "none" => Active(k)'
        /\ cleanups' \subseteq Jobs
    BY DEF TypeOK, Active, Ended
  <2>5. calls' \subseteq running' /\ running' \subseteq Rpcs /\ missing' \subseteq Rpcs
    BY DEF TypeOK
  <2>6. /\ deleter' \in [Deleters -> {"idle", "selected", "marked", "cleaned"}]
        /\ requests' \in 0..MaxRequests /\ adminDeletes' \in 0..MaxAdminDeletes
        /\ crashes' \in 0..MaxCrashes /\ faults' \in 0..MaxFaults
    BY DEF TypeOK, Deleters
  <2> QED
    BY <2>1, <2>2, <2>3, <2>4, <2>5, <2>6 DEF TypeOK
<1>2. Entries'
  BY DEF Entries, InPipeline, Rows, Holding, Generating, TypeOK, Active, Deleters,
     Ended, Uploading, Finalizing
<1>3. Rows'
  BY NoneAssumption DEF Rows, Holding, Generating, Entries, InPipeline, TypeOK,
     Active, Deleters, Ended, Uploading, Finalizing
<1>4. Deletions'
  <2>1. d \in {"housekeeping", "startup"} /\ \A j \in Jobs : ~Holding(j)
    BY DeletionFacts
  <2>2. CASE row = NoRow
    BY <2>2, <2>1 DEF Deletions, Holding, Active, TypeOK, Deleters
  <2>3. CASE row # NoRow
    <3>1. row' = [row EXCEPT !.ready = FALSE] /\ row \in [job : Jobs, ready : BOOLEAN]
      BY <2>3 DEF TypeOK
    <3>2. row' # NoRow /\ row'.ready = FALSE
      BY <3>1, NoneAssumption
    <3> HIDE DEF Mark
    <3>3. /\ deleter' = [deleter EXCEPT ![d] = "marked"] /\ deleter[d] = "selected"
          /\ UNCHANGED <<coordinator, checked, stage, errorStep, entry, cleanups, calls>>
      BY <2>3 DEF Mark
    <3> QED
      BY <2>1, <3>2, <3>3 DEF Deletions, Holding, Active, TypeOK, Deleters
  <2> QED
    BY <2>2, <2>3
<1>5. ReadyIsComplete'
  BY NoneAssumption DEF ReadyIsComplete, Ready, Rows, Holding, Generating, Deletions,
     Active, Ended, Deleters, TypeOK, Uploading, Finalizing
<1>6. CallsInStage' /\ Progress'
  BY DEF CallsInStage, Progress, Stored
<1> QED
  BY <1>1, <1>2, <1>3, <1>4, <1>5, <1>6

\* The objects of a row that is not ready go.
LEMMA DeleteObjectsStep ==
    ASSUME IInv, NEW d \in Deleters, DeleteObjects(d)
    PROVE  IInv'
<1> USE DEF IInv, DeleteObjects, jobVars, rpcVars, counters
<1>1. TypeOK'
  BY DEF TypeOK, Active, Deleters, Ended, Generating, Uploading, Finalizing
<1>2. Deletions'
  BY NoneAssumption DEF Deletions, Holding, Active, Ended, Deleters, Entries,
     InPipeline, Rows, Generating, TypeOK, Uploading, Finalizing
<1>3. Progress'
  <2>1. \A j \in Jobs : ~Holding(j)
    BY DeletionFacts
  <2> QED
    BY <2>1 DEF Progress, Holding
<1>4. ReadyIsComplete'
  BY NoneAssumption DEF ReadyIsComplete, Ready, Rows, Holding, Generating, Deletions,
     Active, Ended, Deleters, TypeOK, Uploading, Finalizing
<1>5. Entries' /\ Rows' /\ CallsInStage'
  BY DEF Entries, InPipeline, Rows, Holding, CallsInStage
<1> QED
  BY <1>1, <1>2, <1>3, <1>4, <1>5

\* The storage fails, and the row stays as it is.
LEMMA DeletionFailsStep ==
    ASSUME IInv, NEW d \in Deleters, DeletionFails(d)
    PROVE  IInv'
<1> USE DEF IInv, DeletionFails, Fault, shared, jobVars, rpcVars
<1>1. TypeOK'
  BY BoundsAssumption DEF TypeOK, Active, Deleters, Ended, Generating, Uploading,
     Finalizing
<1>2. Deletions'
  BY NoneAssumption DEF Deletions, Holding, Active, Ended, Deleters, Entries,
     InPipeline, Rows, Generating, TypeOK, Uploading, Finalizing
<1>3. Entries' /\ Rows' /\ CallsInStage' /\ Progress' /\ ReadyIsComplete'
  BY DEF Entries, InPipeline, Rows, Holding, CallsInStage, Progress, Stored,
     ReadyIsComplete, Ready
<1> QED
  BY <1>1, <1>2, <1>3

\* The row goes; no job holds it.
LEMMA DeleteRowStep ==
    ASSUME IInv, NEW d \in Deleters, DeleteRow(d)
    PROVE  IInv'
<1> USE DEF IInv, DeleteRow, jobVars, rpcVars, counters
<1>1. TypeOK'
  BY DEF TypeOK, Active, Deleters, Ended, Generating, Uploading, Finalizing
<1>2. Entries'
  BY DEF Entries, InPipeline, Rows, Holding, Generating, TypeOK, Active, Deleters,
     Ended, Uploading, Finalizing
<1>3. Rows'
  <2>1. \A j \in Jobs : ~Holding(j)
    BY DeletionFacts
  <2> QED
    BY <2>1 DEF Rows, Holding
<1>4. Deletions'
  BY NoneAssumption DEF Deletions, Holding, Active, Ended, Deleters, Entries,
     InPipeline, Rows, Generating, TypeOK, Uploading, Finalizing
<1>5. ReadyIsComplete'
  BY NoneAssumption DEF ReadyIsComplete, Ready, Rows, Holding, Generating, Deletions,
     Active, Ended, Deleters, TypeOK, Uploading, Finalizing
<1>6. CallsInStage' /\ Progress'
  BY DEF CallsInStage, Progress, Stored
<1> QED
  BY <1>1, <1>2, <1>3, <1>4, <1>5, <1>6

-----------------------------------------------------------------------------
(* The process of the coordinator. *)

\* Everything in the memory of the coordinator is gone.
LEMMA CrashStep ==
    ASSUME IInv, Crash
    PROVE  IInv'
<1> USE DEF IInv, Crash, Active, shared
<1>1. TypeOK'
  BY BoundsAssumption DEF TypeOK, Active, Deleters, Ended, Generating, Uploading,
     Finalizing
<1>2. Entries'
  BY DEF Entries, InPipeline, Rows, Holding, Generating, TypeOK, Active, Deleters,
     Ended, Uploading, Finalizing
<1>3. Rows'
  BY NoneAssumption DEF Rows, Holding, Generating, Entries, InPipeline, TypeOK,
     Active, Deleters, Ended, Uploading, Finalizing
<1>4. Deletions'
  BY NoneAssumption DEF Deletions, Holding, Active, Ended, Deleters, Entries,
     InPipeline, Rows, Generating, TypeOK, Uploading, Finalizing
<1>5. CallsInStage'
  BY RpcFacts DEF CallsInStage, TypeOK, Active, Deleters, Ended, Generating,
     Uploading, Finalizing
<1>6. Progress'
  BY RpcFacts DEF Progress, Stored, CallsInStage, TypeOK, Active, Deleters, Ended,
     Generating, Uploading, Finalizing
<1>7. ReadyIsComplete'
  BY DEF ReadyIsComplete, Ready
<1> QED
  BY <1>1, <1>2, <1>3, <1>4, <1>5, <1>6, <1>7

\* The coordinator starts again.
LEMMA RestartStep ==
    ASSUME IInv, Restart
    PROVE  IInv'
<1> USE DEF IInv, Restart, shared, jobVars, rpcVars, counters
<1>1. TypeOK'
  BY DEF TypeOK, Active, Deleters, Ended, Generating, Uploading, Finalizing
<1>2. Deletions'
  BY NoneAssumption DEF Deletions, Holding, Active, Ended, Deleters, Entries,
     InPipeline, Rows, Generating, TypeOK, Uploading, Finalizing
<1>3. Entries' /\ Rows' /\ CallsInStage' /\ Progress' /\ ReadyIsComplete'
  BY DEF Entries, InPipeline, Rows, Holding, CallsInStage, Progress, Stored,
     ReadyIsComplete, Ready
<1> QED
  BY <1>1, <1>2, <1>3

\* It takes requests when no row is left that is not ready.
LEMMA StartedStep ==
    ASSUME IInv, Started
    PROVE  IInv'
<1> USE DEF IInv, Started, Selectable, Up, shared, jobVars, rpcVars, counters
<1>1. TypeOK'
  BY DEF TypeOK, Active, Deleters, Ended, Generating, Uploading, Finalizing
<1>2. Deletions'
  BY NoneAssumption DEF Deletions, Holding, Active, Ended, Deleters, Entries,
     InPipeline, Rows, Generating, TypeOK, Uploading, Finalizing
<1>3. Entries' /\ Rows' /\ CallsInStage' /\ Progress' /\ ReadyIsComplete'
  BY DEF Entries, InPipeline, Rows, Holding, CallsInStage, Progress, Stored,
     ReadyIsComplete, Ready
<1> QED
  BY <1>1, <1>2, <1>3

-----------------------------------------------------------------------------
(* The specification. *)

\* There is nothing yet.
LEMMA InitIInv == Init => IInv
<1> SUFFICES ASSUME Init PROVE IInv
  OBVIOUS
<1> USE DEF Init
<1>1. TypeOK
  BY BoundsAssumption DEF TypeOK, Active, Ended, Deleters
<1>2. Entries
  BY BoundsAssumption DEF Entries, InPipeline
<1>3. Rows
  BY DEF Rows, Holding, Generating
<1>4. Deletions
  BY DEF Deletions, Deleters
<1>5. CallsInStage /\ Progress
  BY DEF CallsInStage, Progress
<1>6. ReadyIsComplete
  BY DEF ReadyIsComplete, Ready
<1> QED
  BY <1>1, <1>2, <1>3, <1>4, <1>5, <1>6 DEF IInv

\* A step of something else.
LEMMA UnchangedIInv ==
    ASSUME IInv, UNCHANGED vars
    PROVE  IInv'
BY DEF IInv, TypeOK, Entries, Rows, Deletions, CallsInStage, Progress, ReadyIsComplete, Ready,
       InPipeline, Holding, Active, Stored, vars, shared, jobVars, rpcVars, counters

\* Jobs do not get in each other's way as long as a request takes less time than
\* a job and the admin page deletes nothing.
LEMMA StepIInv ==
    ASSUME IInv, ~SlowRequests, MaxAdminDeletes = 0, [Next]_vars
    PROVE  IInv'
<1>1. ASSUME Check PROVE IInv'
  BY <1>1, CheckStep
<1>2. ASSUME Crash PROVE IInv'
  BY <1>2, CrashStep
<1>3. ASSUME Restart PROVE IInv'
  BY <1>3, RestartStep
<1>4. ASSUME Started PROVE IInv'
  BY <1>4, StartedStep
<1>5. ASSUME NEW j \in Jobs, Push(j) PROVE IInv'
  BY <1>5, PushStep
<1>6. ASSUME NEW j \in Jobs, EnterGenerate(j) PROVE IInv'
  BY <1>6, EnterGenerateStep
<1>7. ASSUME NEW j \in Jobs, CreateRecord(j) PROVE IInv'
  BY <1>7, CreateRecordStep
<1>8. ASSUME NEW j \in Jobs, Generate(j) PROVE IInv'
  BY <1>8, GenerateStep
<1>9. ASSUME NEW j \in Jobs, StartUploadTiles(j) PROVE IInv'
  BY <1>9, StartUploadTilesStep
<1>10. ASSUME NEW j \in Jobs, StartUploadHeaders(j) PROVE IInv'
  BY <1>10, StartUploadHeadersStep
<1>11. ASSUME NEW j \in Jobs, PutMetadata(j) PROVE IInv'
  BY <1>11, PutMetadataStep
<1>12. ASSUME NEW j \in Jobs, MarkReady(j) PROVE IInv'
  BY <1>12, MarkReadyStep
<1>13. ASSUME NEW j \in Jobs, PutProfile(j) PROVE IInv'
  BY <1>13, PutProfileStep
<1>14. ASSUME NEW j \in Jobs, PutProfileFails(j) PROVE IInv'
  BY <1>14, PutProfileFailsStep
<1>15. ASSUME NEW j \in Jobs, UpdateRecord(j) PROVE IInv'
  BY <1>15, UpdateRecordStep
<1>16. ASSUME NEW j \in Jobs, Cleanup(j) PROVE IInv'
  BY <1>16, CleanupStep
<1>17. ASSUME NEW j \in Jobs, FailStage(j) PROVE IInv'
  BY <1>17, FailStageStep
<1>18. ASSUME NEW j \in Jobs, DelayedCleanup(j) PROVE IInv'
  BY <1>18, DelayedCleanupStep
<1>19. ASSUME NEW j \in Jobs, ErrorDeletesObjects(j) PROVE IInv'
  BY <1>19, ErrorDeletesObjectsStep
<1>20. ASSUME NEW j \in Jobs, ErrorDeletionFails(j) PROVE IInv'
  BY <1>20, ErrorDeletionFailsStep
<1>21. ASSUME NEW j \in Jobs, ErrorDeletesRow(j) PROVE IInv'
  BY <1>21, ErrorDeletesRowStep
<1>22. ASSUME NEW j \in Jobs, ErrorCleanup(j) PROVE IInv'
  BY <1>22, ErrorCleanupStep
<1>23. ASSUME NEW r \in Rpcs, Upload(r) PROVE IInv'
  BY <1>23, UploadStep
<1>24. ASSUME NEW r \in Rpcs, UploadFails(r) PROVE IInv'
  BY <1>24, UploadFailsStep
<1>25. ASSUME NEW r \in Rpcs, LoseCall(r) PROVE IInv'
  BY <1>25, LoseCallStep
<1>26. ASSUME NEW d \in Deleters, Select(d) PROVE IInv'
  BY <1>26, SelectStep
<1>27. ASSUME NEW d \in Deleters, Mark(d) PROVE IInv'
  BY <1>27, MarkStep
<1>28. ASSUME NEW d \in Deleters, DeleteObjects(d) PROVE IInv'
  BY <1>28, DeleteObjectsStep
<1>29. ASSUME NEW d \in Deleters, DeletionFails(d) PROVE IInv'
  BY <1>29, DeletionFailsStep
<1>30. ASSUME NEW d \in Deleters, DeleteRow(d) PROVE IInv'
  BY <1>30, DeleteRowStep
<1>31. ASSUME UNCHANGED vars PROVE IInv'
  BY <1>31, UnchangedIInv
<1> QED
  BY <1>1, <1>2, <1>3, <1>4, <1>5, <1>6, <1>7, <1>8, <1>9, <1>10, <1>11, <1>12, <1>13,
     <1>14, <1>15, <1>16, <1>17, <1>18, <1>19, <1>20, <1>21, <1>22, <1>23, <1>24,
     <1>25, <1>26, <1>27, <1>28, <1>29, <1>30, <1>31 DEF Next, StageStep, DeletionStep

\* The inductive invariant holds in every reachable state.
THEOREM InductiveInvariant ==
    ASSUME ~SlowRequests, MaxAdminDeletes = 0
    PROVE  Spec => []IInv
<1>1. Init => IInv
  BY InitIInv
<1>2. IInv /\ [Next]_vars => IInv'
  BY StepIInv
<1> QED
  BY <1>1, <1>2, PTL DEF Spec

\* A job that is about to make its row and one that has made it cannot both be.
LEMMA OwnersAreOne ==
    ASSUME IInv, NEW j \in Jobs, NEW k \in Jobs, Owning(j), Owning(k)
    PROVE  j = k
<1> USE DEF IInv
<1>1. ASSUME NEW i \in Jobs, Owning(i) PROVE stage[i] = "record" \/ Holding(i)
  BY <1>1 DEF Owning, Holding, Generating, Uploading
<1>2. ASSUME NEW i \in Jobs, Holding(i)
      PROVE  row = [job |-> i, ready |-> FALSE] /\ row # NoRow
  BY <1>2, NewRowFacts DEF Rows
<1>3. ASSUME NEW i \in Jobs, stage[i] = "record" PROVE row = NoRow
  BY <1>3 DEF Rows
<1>4. CASE stage[j] = "record"
  <2>1. stage[k] = "record"
    BY <1>1, <1>2, <1>3, <1>4
  <2> QED
    BY <1>4, <2>1 DEF Rows, Generating
<1>5. CASE stage[j] # "record"
  <2>1. Holding(j) /\ Holding(k)
    BY <1>1, <1>2, <1>3, <1>5
  <2>2. [job |-> j, ready |-> FALSE] = [job |-> k, ready |-> FALSE]
    BY <1>2, <2>1
  <2> QED
    BY <2>2
<1> QED
  BY <1>4, <1>5

\* So the set of owners has no two elements.
LEMMA OneJob == IInv => OneJobAtATime
<1> SUFFICES ASSUME IInv PROVE OneJobAtATime
  OBVIOUS
<1> DEFINE Owners == {j \in Jobs : Owning(j)}
<1>1. CASE Owners = {}
  BY <1>1, FS_EmptySet DEF OneJobAtATime
<1>2. CASE Owners # {}
  <2>1. PICK j \in Jobs : Owning(j)
    BY <1>2
  <2>2. Owners = {j}
    BY <2>1, OwnersAreOne
  <2>3. Cardinality({j}) = 1
    BY FS_Singleton
  <2>4. Cardinality(Owners) = 1
    BY <2>2, <2>3
  <2> QED
    BY <2>4 DEF OneJobAtATime
<1> QED
  BY <1>1, <1>2

\* At most one job of the visit is at its row and its objects (_quicklook_pipeline,
\* jobs), and a row that says ready has all of its objects, but for uploads whose
\* RPC failed: for any number of requests, jobs, generators, crashes and faults.
THEOREM LifecycleIsSafe ==
    ASSUME ~SlowRequests, MaxAdminDeletes = 0
    PROVE  Spec => []LifecycleInv
<1>1. IInv => LifecycleInv
  BY OneJob DEF IInv, LifecycleInv
<1> QED
  BY <1>1, InductiveInvariant, PTL

\* Nothing but the update of the row ends the stage "update" like that.
LEMMA OnlyUpdateRecordSucceeds ==
    ASSUME IInv, Next, NEW j \in Jobs, stage[j] = "update", stage'[j] = "cleanup"
    PROVE  UpdateRecord(j)
<1> USE DEF IInv
<1>1. ASSUME Check PROVE UpdateRecord(j)
  BY <1>1 DEF TypeOK, Check, jobVars
<1>2. ASSUME NEW k \in Jobs, Push(k) PROVE UpdateRecord(j)
  BY <1>2 DEF TypeOK, Push
<1>3. ASSUME NEW k \in Jobs, EnterGenerate(k) PROVE UpdateRecord(j)
  BY <1>3 DEF TypeOK, EnterGenerate, Advance
<1>4. ASSUME NEW k \in Jobs, CreateRecord(k) PROVE UpdateRecord(j)
  BY <1>4 DEF TypeOK, CreateRecord, Advance
<1>5. ASSUME NEW k \in Jobs, Generate(k) PROVE UpdateRecord(j)
  BY <1>5 DEF TypeOK, Generate, Advance
<1>6. ASSUME NEW k \in Jobs, StartUploadTiles(k) PROVE UpdateRecord(j)
  BY <1>6 DEF TypeOK, StartUploadTiles, Advance
<1>7. ASSUME NEW k \in Jobs, StartUploadHeaders(k) PROVE UpdateRecord(j)
  BY <1>7 DEF TypeOK, StartUploadHeaders, Advance
<1>8. ASSUME NEW k \in Jobs, PutMetadata(k) PROVE UpdateRecord(j)
  BY <1>8 DEF TypeOK, PutMetadata, Advance
<1>9. ASSUME NEW k \in Jobs, MarkReady(k) PROVE UpdateRecord(j)
  BY <1>9 DEF TypeOK, MarkReady, Advance
<1>10. ASSUME NEW k \in Jobs, PutProfile(k) PROVE UpdateRecord(j)
  BY <1>10 DEF TypeOK, PutProfile, Advance
<1>11. ASSUME NEW k \in Jobs, PutProfileFails(k) PROVE UpdateRecord(j)
  BY <1>11 DEF TypeOK, PutProfileFails, Advance
<1>12. ASSUME NEW k \in Jobs, UpdateRecord(k) PROVE UpdateRecord(j)
  <2>1. k = j
    BY <1>12 DEF TypeOK, UpdateRecord, Advance
  <2> QED
    BY <1>12, <2>1
<1>13. ASSUME NEW k \in Jobs, Cleanup(k) PROVE UpdateRecord(j)
  BY <1>13 DEF TypeOK, Cleanup, Advance
<1>14. ASSUME NEW r \in Rpcs, Upload(r) PROVE UpdateRecord(j)
  BY <1>14 DEF TypeOK, Upload, jobVars
<1>15. ASSUME NEW r \in Rpcs, UploadFails(r) PROVE UpdateRecord(j)
  BY <1>15 DEF TypeOK, UploadFails, jobVars
<1>16. ASSUME NEW r \in Rpcs, LoseCall(r) PROVE UpdateRecord(j)
  BY <1>16 DEF TypeOK, LoseCall, jobVars
<1>17. ASSUME NEW k \in Jobs, FailStage(k) PROVE UpdateRecord(j)
  BY <1>17 DEF TypeOK, FailStage, jobVars
<1>18. ASSUME NEW k \in Jobs, DelayedCleanup(k) PROVE UpdateRecord(j)
  BY <1>18 DEF TypeOK, DelayedCleanup, jobVars
<1>19. ASSUME NEW k \in Jobs, ErrorDeletesObjects(k) PROVE UpdateRecord(j)
  BY <1>19 DEF TypeOK, ErrorDeletesObjects, jobVars
<1>20. ASSUME NEW k \in Jobs, ErrorDeletionFails(k) PROVE UpdateRecord(j)
  BY <1>20 DEF TypeOK, ErrorDeletionFails
<1>21. ASSUME NEW k \in Jobs, ErrorDeletesRow(k) PROVE UpdateRecord(j)
  BY <1>21 DEF TypeOK, ErrorDeletesRow, jobVars
<1>22. ASSUME NEW k \in Jobs, ErrorCleanup(k) PROVE UpdateRecord(j)
  BY <1>22 DEF TypeOK, ErrorCleanup
<1>23. ASSUME NEW d \in Deleters, Select(d) PROVE UpdateRecord(j)
  BY <1>23 DEF TypeOK, Select, jobVars
<1>24. ASSUME NEW d \in Deleters, Mark(d) PROVE UpdateRecord(j)
  BY <1>24 DEF TypeOK, Mark, jobVars
<1>25. ASSUME NEW d \in Deleters, DeleteObjects(d) PROVE UpdateRecord(j)
  BY <1>25 DEF TypeOK, DeleteObjects, jobVars
<1>26. ASSUME NEW d \in Deleters, DeletionFails(d) PROVE UpdateRecord(j)
  BY <1>26 DEF TypeOK, DeletionFails, jobVars
<1>27. ASSUME NEW d \in Deleters, DeleteRow(d) PROVE UpdateRecord(j)
  BY <1>27 DEF TypeOK, DeleteRow, jobVars
<1>28. ASSUME Crash PROVE UpdateRecord(j)
  BY <1>28 DEF TypeOK, Crash, Active, Ended
<1>29. ASSUME Restart PROVE UpdateRecord(j)
  BY <1>29 DEF TypeOK, Restart, jobVars
<1>30. ASSUME Started PROVE UpdateRecord(j)
  BY <1>30 DEF TypeOK, Started, jobVars
<1> QED
  BY <1>1, <1>2, <1>3, <1>4, <1>5, <1>6, <1>7, <1>8, <1>9, <1>10, <1>11, <1>12, <1>13,
     <1>14, <1>15, <1>16, <1>17, <1>18, <1>19, <1>20, <1>21, <1>22, <1>23, <1>24,
     <1>25, <1>26, <1>27, <1>28, <1>29, <1>30 DEF Next, StageStep, DeletionStep

\* The row that _finalize_success makes ready is the row of the job that succeeds,
\* and not one that another job has made meanwhile, or none.
THEOREM SuccessMakesReady ==
    ASSUME ~SlowRequests, MaxAdminDeletes = 0
    PROVE  Spec => SuccessIsReady
<1> DEFINE A == \A j \in Jobs : stage[j] = "update" /\ stage'[j] = "cleanup" =>
                     row' = [job |-> j, ready |-> TRUE]
<1>1. ASSUME IInv, Next PROVE A
  <2> SUFFICES ASSUME NEW j \in Jobs, stage[j] = "update", stage'[j] = "cleanup"
               PROVE  row' = [job |-> j, ready |-> TRUE]
    OBVIOUS
  <2>1. UpdateRecord(j)
    BY <1>1, OnlyUpdateRecordSucceeds
  <2>2. row = [job |-> j, ready |-> FALSE] /\ row # NoRow
    BY <1>1, <2>1, NewRowFacts DEF IInv, Rows, Holding, UpdateRecord, Advance, Working
  <2> QED
    BY <2>1, <2>2 DEF UpdateRecord
<1>2. IInv /\ [Next]_vars => [A]_vars
  BY <1>1
<1> HIDE DEF A
<1>3. Spec => [][A]_vars
  BY <1>2, InductiveInvariant, PTL DEF Spec
<1> QED
  BY <1>3 DEF SuccessIsReady, A


-----------------------------------------------------------------------------
(* A row that is not ready, if no storage error and no lost connection stops *)
(* what works on it.                                                         *)

\* A row that is not ready has its job, which will make it ready or delete it, or
\* is being deleted; while the coordinator cleans up at startup, the row is there
\* until its deletion is over.
InHand ==
    /\ Up /\ row # NoRow /\ ~row.ready => Holding(row.job) \/ InDeletion
    /\ coordinator = "cleaning" /\ deleter["startup"] = "idle" => row = NoRow

\* Without faults, none happens.
LEMMA NoFault == ASSUME TypeOK, MaxFaults = 0, Fault PROVE FALSE
BY DEF TypeOK, Fault

\* Every step leaves such a row in hand.
LEMMA InHandStep ==
    ASSUME IInv, InHand, ~SlowRequests, MaxAdminDeletes = 0, MaxFaults = 0, [Next]_vars
    PROVE  InHand'
<1> USE DEF IInv, InHand, InDeletion, Up
<1>1. ASSUME Check PROVE InHand'
  BY <1>1 DEF Check, shared, jobVars, Holding
<1>2. ASSUME NEW j \in Jobs, Push(j) PROVE InHand'
  BY <1>2 DEF Push, shared, rpcVars, TypeOK, Holding
<1>3. ASSUME NEW j \in Jobs, EnterGenerate(j) PROVE InHand'
  BY <1>3 DEF EnterGenerate, Advance, Working, Free, shared, rpcVars, TypeOK, Holding
<1>4. ASSUME NEW j \in Jobs, CreateRecord(j) PROVE InHand'
  BY <1>4 DEF CreateRecord, Advance, Working, rpcVars, TypeOK, Holding
<1>5. ASSUME NEW j \in Jobs, Generate(j) PROVE InHand'
  BY <1>5 DEF Generate, Advance, Working, shared, rpcVars, TypeOK, Holding
<1>6. ASSUME NEW j \in Jobs, StartUploadTiles(j) PROVE InHand'
  BY <1>6 DEF StartUploadTiles, Advance, Working, shared, TypeOK, Holding
<1>7. ASSUME NEW j \in Jobs, StartUploadHeaders(j) PROVE InHand'
  BY <1>7 DEF StartUploadHeaders, Advance, Working, CallsOf, shared, TypeOK, Holding
<1>8. ASSUME NEW j \in Jobs, PutMetadata(j) PROVE InHand'
  BY <1>8 DEF PutMetadata, Advance, Working, CallsOf, rpcVars, TypeOK, Holding
<1>9. ASSUME NEW j \in Jobs, MarkReady(j) PROVE InHand'
  BY <1>9 DEF MarkReady, Advance, Working, Prompt, Free, shared, rpcVars, TypeOK,
     Holding
<1>10. ASSUME NEW j \in Jobs, PutProfile(j) PROVE InHand'
  BY <1>10 DEF PutProfile, Advance, Working, rpcVars, TypeOK, Holding
<1>11. ASSUME NEW j \in Jobs, PutProfileFails(j) PROVE InHand'
  BY <1>11, NoFault DEF PutProfileFails
<1>12. ASSUME NEW j \in Jobs, UpdateRecord(j) PROVE InHand'
  BY <1>12 DEF UpdateRecord, Advance, Working, rpcVars, TypeOK, Holding
<1>13. ASSUME NEW j \in Jobs, Cleanup(j) PROVE InHand'
  BY <1>13 DEF Cleanup, Advance, Working, ClearLocal, shared, TypeOK, Holding
<1>14. ASSUME NEW r \in Rpcs, Upload(r) PROVE InHand'
  BY <1>14 DEF Upload, jobVars, Holding
<1>15. ASSUME NEW r \in Rpcs, UploadFails(r) PROVE InHand'
  BY <1>15 DEF UploadFails, shared, jobVars, Holding
<1>16. ASSUME NEW r \in Rpcs, LoseCall(r) PROVE InHand'
  BY <1>16, NoFault DEF LoseCall
<1>17. ASSUME NEW j \in Jobs, FailStage(j) PROVE InHand'
  BY <1>17 DEF FailStage, Working, CallsOf, Fails, shared, TypeOK, Holding
<1>18. ASSUME NEW j \in Jobs, DelayedCleanup(j) PROVE InHand'
  BY <1>18 DEF DelayedCleanup, shared, Holding
<1>19. ASSUME NEW j \in Jobs, ErrorDeletesObjects(j) PROVE InHand'
  BY <1>19 DEF ErrorDeletesObjects, rpcVars, TypeOK, Holding
<1>20. ASSUME NEW j \in Jobs, ErrorDeletionFails(j) PROVE InHand'
  BY <1>20, NoFault DEF ErrorDeletionFails
<1>21. ASSUME NEW j \in Jobs, ErrorDeletesRow(j) PROVE InHand'
  BY <1>21 DEF ErrorDeletesRow, rpcVars, TypeOK, Holding
<1>22. ASSUME NEW j \in Jobs, ErrorCleanup(j) PROVE InHand'
  BY <1>22 DEF ErrorCleanup, ClearLocal, shared, TypeOK, Holding
<1>23. ASSUME NEW d \in Deleters, Select(d) PROVE InHand'
  BY <1>23 DEF Select, Selectable, shared, jobVars, rpcVars, TypeOK, Holding, Deleters
<1>24. ASSUME NEW d \in Deleters, Mark(d) PROVE InHand'
  BY <1>24 DEF Mark, jobVars, rpcVars, TypeOK, Holding, Deleters
<1>25. ASSUME NEW d \in Deleters, DeleteObjects(d) PROVE InHand'
  BY <1>25 DEF DeleteObjects, jobVars, rpcVars, TypeOK, Holding, Deleters
<1>26. ASSUME NEW d \in Deleters, DeletionFails(d) PROVE InHand'
  BY <1>26, NoFault DEF DeletionFails
<1>27. ASSUME NEW d \in Deleters, DeleteRow(d) PROVE InHand'
  BY <1>27 DEF DeleteRow, jobVars, rpcVars, TypeOK, Holding, Deleters
<1>28. ASSUME Crash PROVE InHand'
  BY <1>28 DEF Crash, Active, shared, TypeOK, Holding
<1>29. ASSUME Restart PROVE InHand'
  BY <1>29 DEF Restart, shared, jobVars, rpcVars, TypeOK, Holding
<1>30. ASSUME Started PROVE InHand'
  BY <1>30 DEF Started, Selectable, shared, jobVars, rpcVars, TypeOK, Holding
<1>31. ASSUME UNCHANGED vars PROVE InHand'
  BY <1>31 DEF Holding, vars, shared, jobVars
<1> QED
  BY <1>1, <1>2, <1>3, <1>4, <1>5, <1>6, <1>7, <1>8, <1>9, <1>10, <1>11, <1>12, <1>13,
     <1>14, <1>15, <1>16, <1>17, <1>18, <1>19, <1>20, <1>21, <1>22, <1>23, <1>24,
     <1>25, <1>26, <1>27, <1>28, <1>29, <1>30, <1>31 DEF Next, StageStep, DeletionStep

\* A row that is not ready, which makes the frontend refuse its visit, is never left
\* behind: a job or a deletion is at it, after any crash of the coordinator too.
THEOREM UnreadyInHand ==
    ASSUME ~SlowRequests, MaxAdminDeletes = 0, MaxFaults = 0
    PROVE  Spec => []UnreadyIsInHand
<1>1. Init => InHand
  BY DEF Init, InHand
<1>2. IInv /\ InHand /\ [Next]_vars => InHand'
  BY InHandStep
<1>3. InHand => UnreadyIsInHand
  BY DEF InHand, UnreadyIsInHand, Up, Holding, Active, Ended
<1> QED
  BY <1>1, <1>2, <1>3, InductiveInvariant, PTL DEF Spec

=============================================================================
