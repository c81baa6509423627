---------------------------- MODULE MCLiveParts ----------------------------
(* PipelineQueue, CcdPipeline, CcdSession, GenerateTiles with no fault but a crash, *)
(* and DeployBroker, whose liveness is checked in one run: as in MCParts, a         *)
(* behaviour is one of one part, which its initial state chooses.  PipelineQueue    *)
(* has its own variables, the others take turns in using v1, v2, ...; what a part   *)
(* does not need stays as it is.  Each part has the fairness of its module, as a    *)
(* hypothesis of what it promises.                                                  *)
EXTENDS PipelineQueue

VARIABLES part, v1, v2, v3, v4, v5, v6, v7, v8, v9, v10, v11, v12, v13, v14, v15, v16,
          v17, v18, v19, v20, v21, v22, v23, v24, v25, v26

w == <<v1, v2, v3, v4, v5, v6, v7, v8, v9, v10, v11, v12, v13, v14, v15, v16,
       v17, v18, v19, v20, v21, v22, v23, v24, v25, v26>>

Unused(n) ==
    /\ n < 1 => v1 = 0
    /\ n < 2 => v2 = 0
    /\ n < 3 => v3 = 0
    /\ n < 4 => v4 = 0
    /\ n < 5 => v5 = 0
    /\ n < 6 => v6 = 0
    /\ n < 7 => v7 = 0
    /\ n < 8 => v8 = 0
    /\ n < 9 => v9 = 0
    /\ n < 10 => v10 = 0
    /\ n < 11 => v11 = 0
    /\ n < 12 => v12 = 0
    /\ n < 13 => v13 = 0
    /\ n < 14 => v14 = 0
    /\ n < 15 => v15 = 0
    /\ n < 16 => v16 = 0
    /\ n < 17 => v17 = 0
    /\ n < 18 => v18 = 0
    /\ n < 19 => v19 = 0
    /\ n < 20 => v20 = 0
    /\ n < 21 => v21 = 0
    /\ n < 22 => v22 = 0
    /\ n < 23 => v23 = 0
    /\ n < 24 => v24 = 0
    /\ n < 25 => v25 = 0
    /\ n < 26 => v26 = 0

Kept(n) ==
    /\ n < 1 => v1' = v1
    /\ n < 2 => v2' = v2
    /\ n < 3 => v3' = v3
    /\ n < 4 => v4' = v4
    /\ n < 5 => v5' = v5
    /\ n < 6 => v6' = v6
    /\ n < 7 => v7' = v7
    /\ n < 8 => v8' = v8
    /\ n < 9 => v9' = v9
    /\ n < 10 => v10' = v10
    /\ n < 11 => v11' = v11
    /\ n < 12 => v12' = v12
    /\ n < 13 => v13' = v13
    /\ n < 14 => v14' = v14
    /\ n < 15 => v15' = v15
    /\ n < 16 => v16' = v16
    /\ n < 17 => v17' = v17
    /\ n < 18 => v18' = v18
    /\ n < 19 => v19' = v19
    /\ n < 20 => v20' = v20
    /\ n < 21 => v21' = v21
    /\ n < 22 => v22' = v22
    /\ n < 23 => v23' = v23
    /\ n < 24 => v24' = v24
    /\ n < 25 => v25' = v25
    /\ n < 26 => v26' = v26

TwoThenOne == <<2, 1>>
Ccds == {"c1", "c2"}
Copies == {"c1", "c2"}
Generators == {"g1", "g2"}
Requests == {"r1", "r2"}

-----------------------------------------------------------------------------
Pipeline == INSTANCE CcdPipeline WITH
        given <- v1, ended <- v2, refilling <- v3, exhausted <- v4, place <- v5,
        attempt <- v6, ccdFile <- v7, permits <- v8, pathFeeder <- v9, main <- v10,
        progressQueue <- v11, drained <- v12, emitted <- v13, saved <- v14,
        outcome <- v15, pipelineFaults <- v16,
        Ccds <- Ccds, DownloadThreads <- 2, PoolProcesses <- 2, Slots <- 2, Permits <- 2,
        MaxPipelineFaults <- 2

Session == INSTANCE CcdSession WITH
        assigned <- v1, endSent <- v2, connected <- v3, inbox <- v4, receiver <- v5,
        ccdQueue <- v6, feeder <- v7, getters <- v8, stalls <- v9, pipeline <- v10,
        inPipeline <- v11, resultQueue <- v12, reported <- v13, sender <- v14,
        sending <- v15, cancel <- v16, closed <- v17, completed <- v18,
        errorSeen <- v19,
        Copies <- Copies, End <- "end", AllowFailure <- TRUE, MaxStalls <- 1

Tiles == INSTANCE GenerateTiles WITH
        remainingIndex <- v1, submitted <- v2, owner <- v3, phase2Index <- v4,
        attempts <- v5, activeGenerators <- v6, allCompleted <- v7, outcome <- v8,
        workerError <- v9, pc <- v10, slots <- v11, batchSent <- v12, pending <- v13,
        failures <- v14, waits <- v15, returning <- v16, available <- v17,
        lostTasks <- v18, saved <- v19, alive <- v20, session <- v21, working <- v22,
        results <- v23, zombies <- v24, tiles <- v25, faults <- v26,
        NumCcds <- 2, Generators <- Generators, NoGenerator <- "none", NoCcd <- 0,
        MaxAttempts <- 2, MaxConcurrent <- 1, MaxConnectRetries <- 2, MaxCrashes <- 1,
        MaxFaults <- 0, AllowErrors <- FALSE, AllowTimeout <- FALSE

Deploy == INSTANCE DeployBroker WITH
        commit <- v1, bundled <- v2, pc <- v3, status <- v4, tag <- v5, written <- v6,
        clear <- v7, events <- v8, branch <- v9, runs <- v10, spec <- v11,
        deployed <- v12, viewer <- v13, upToDate <- v14,
        Requests <- Requests, Commits <- {"k1"}, NoTag <- -1, Watched <- {"r1"}, MaxEvents <- 1

-----------------------------------------------------------------------------
LiveInit ==
    /\ Init
    /\ \/ part = "queue" /\ Unused(0)
       \/ part = "pipeline" /\ Pipeline!PipelineInit /\ Unused(16)
       \/ part = "session" /\ Session!Init /\ Unused(19)
       \/ part = "tiles" /\ Tiles!Init /\ Unused(26)
       \/ part = "deploy" /\ Deploy!DeployInit /\ Unused(14)

LiveNext ==
    /\ part' = part
    /\ \/ part = "queue" /\ Next /\ UNCHANGED w
       \/ part = "pipeline" /\ Pipeline!PipelineNext /\ UNCHANGED vars /\ Kept(16)
       \/ part = "session" /\ Session!Next /\ UNCHANGED vars /\ Kept(19)
       \/ part = "tiles" /\ Tiles!Next /\ UNCHANGED vars /\ Kept(26)
       \/ part = "deploy" /\ Deploy!DeployNext /\ UNCHANGED vars /\ Kept(14)

\* In the behaviours of a part its actions have the fairness of its module.
InQueue == part = "queue"
InPipeline == part = "pipeline"
InSession == part = "session"
InTiles == part = "tiles"
InDeploy == part = "deploy"
pipelineVars == Pipeline!pipeVars
sessionVars == Session!vars
deployVars == Deploy!deployVars
tilesVars == Tiles!vars

QueueFairness == \A t \in Tasks : WF_vars(InQueue /\ TaskStep(t))

PipelineFairness ==
    /\ WF_pipelineVars(InPipeline /\ Pipeline!Refill)
    /\ WF_pipelineVars(InPipeline /\ Pipeline!Exhaust)
    /\ WF_pipelineVars(InPipeline /\ Pipeline!PathFeederStep)
    /\ WF_pipelineVars(InPipeline /\ Pipeline!MainStep)
    /\ WF_pipelineVars(InPipeline /\ Pipeline!Drain)
    /\ WF_pipelineVars(InPipeline /\ Pipeline!FinishPipeline)
    /\ \A c \in Ccds :
          /\ WF_pipelineVars(InPipeline /\ (Pipeline!Download(c) \/ Pipeline!TimeOut(c)))
          /\ WF_pipelineVars(InPipeline /\ Pipeline!Process(c))

SessionFairness ==
    /\ WF_sessionVars(InSession /\ Session!ReceiverStep)
    /\ WF_sessionVars(InSession /\ Session!FeederStep)
    /\ WF_sessionVars(InSession /\ Session!SenderStep)
    /\ WF_sessionVars(InSession /\ Session!AbandonedGetEnds)
    /\ WF_sessionVars(InSession /\ Session!PipelineEnds)
    /\ WF_sessionVars(InSession /\ Session!Close)
    /\ \A c \in Copies :
          /\ WF_sessionVars(InSession /\ Session!ReportProgress(c))
          /\ WF_sessionVars(InSession /\ Session!FinishCopy(c))

TilesFairness ==
    /\ WF_tilesVars(InTiles /\ Tiles!Start)
    /\ WF_tilesVars(InTiles /\ Tiles!Complete)
    /\ WF_tilesVars(InTiles /\ Tiles!Fail)
    /\ \A g \in Generators :
         /\ WF_tilesVars(InTiles /\ Tiles!WorkerStep(g))
         /\ WF_tilesVars(InTiles /\ Tiles!WaitTask(g))
         /\ WF_tilesVars(InTiles /\ Tiles!LostTask(g))
         /\ WF_tilesVars(InTiles /\ Tiles!Register(g))
         /\ WF_tilesVars(InTiles /\ g \notin v20 /\ Tiles!RemoveGenerator(g))
         /\ WF_tilesVars(InTiles /\ Tiles!SaveDistConfig(g))
         /\ \A c \in 1 .. 2 :
               /\ WF_tilesVars(InTiles /\ Tiles!FinishCcd(g, c))
               /\ WF_tilesVars(InTiles /\ Tiles!WaitTaskReturns(g, c))
    /\ \A c \in 1 .. 2 : WF_tilesVars(InTiles /\ Tiles!TimePasses(c))

DeployFairness ==
    /\ \A r \in Requests :
          /\ WF_deployVars(InDeploy /\ Deploy!ThreadStep(r))
          /\ WF_deployVars(InDeploy /\ (Deploy!Poll(r) \/ Deploy!Deadline(r)))
          /\ WF_deployVars(InDeploy /\ Deploy!Deadline(r))
    /\ WF_deployVars(InDeploy /\ Deploy!ClearSyncs)
    /\ WF_deployVars(InDeploy /\ Deploy!WorkflowEnds)

LiveSpec == LiveInit /\ [][LiveNext]_<<part, vars, w>>

-----------------------------------------------------------------------------
(* Properties: those of the modules, each with its comment there.           *)

\* Every job leaves the pipeline of the coordinator: it becomes ready or fails.
QueueJobsLeave == QueueFairness => JobsLeave

\* After the end signal the pipeline of a generator ends, whichever download
\* hangs and whatever fails.
PipelineEnds ==
    PipelineFairness => (InPipeline /\ Pipeline!EndGiven ~> InPipeline /\ Pipeline!Over)

\* A CCD that arrives late is processed, unless the session ends, a CCD fails or
\* the event loop stalled (no idle timeout).
AssignedIsCompleted ==
    SessionFairness =>
        \A c \in Copies :
            InSession /\ Session!Expected(c) ~> InSession /\ Session!CompletedOrNot(c)

\* The end of the pipeline ends the handler of the session, and so does the end
\* signal or the loss of the connection while the event loop keeps pace.
SessionEnds ==
    SessionFairness =>
        /\ InSession /\ Session!PipelineOver ~> InSession /\ Session!Closed
        /\ InSession /\ Session!HasToEnd
              ~> InSession /\ (Session!Closed \/ Session!Stalled)

\* When a generator crashes, the others take over its CCDs and the job ends
\* without the timeout.
TilesJobEnds ==
    TilesFairness => (InTiles /\ Tiles!Running ~> InTiles /\ ~Tiles!Running)

\* A request ends, and its record says so, unless the daemon is restarted
\* meanwhile.
RequestEnds ==
    DeployFairness =>
        \A r \in Requests : InDeploy /\ Deploy!Taken(r) ~> InDeploy /\ Deploy!DeployEnded(r)

\* Who waits for a request is told of its end, or at least of the deadline.
ViewerEnds ==
    DeployFairness =>
        \A r \in Requests : InDeploy /\ Deploy!Waits(r) ~> InDeploy /\ ~Deploy!Waits(r)

\* When the pipeline of a generator is over, none of its threads and processes
\* goes on.
OverIsOver == [][InPipeline => Pipeline!StaysOver]_<<part, w>>

\* No part is stuck: each of these processes ends what it has begun.
PartsEnd ==
    /\ QueueJobsLeave
    /\ PipelineEnds /\ OverIsOver
    /\ AssignedIsCompleted /\ SessionEnds
    /\ TilesJobEnds
    /\ RequestEnds /\ ViewerEnds
=============================================================================
