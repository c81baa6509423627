---------------------------- MODULE CcdPipeline ----------------------------
(***************************************************************************)
(* The pipeline of one session on a generator                              *)
(* (generate_single_fits_tiles_pipeline): refs come from the coordinator,  *)
(* DownloadThreads threads download them, a pool of PoolProcesses makes    *)
(* their tiles, and the results are yielded to the session.                *)
(*                                                                         *)
(* The threads of the pipeline are pathFeeder, which is the thread of the  *)
(* pool that runs ccd_paths() and imap_unordered_threadpool; its refill    *)
(* thread; main(); and drain_progress_queue().  q is FIFO, and what is put *)
(* before the second _QUEUE_DONE is yielded: putting is emitting.          *)
(***************************************************************************)
EXTENDS Naturals, Sequences, FiniteSets

CONSTANTS
    Ccds,
    DownloadThreads,  \* download threads, and downloads in flight
    PoolProcesses,    \* processes of the pool
    Slots,            \* CCDs the coordinator has given and not seen completed
    Permits,          \* of download_sem; not fewer than Slots (in the code two more)
    MaxPipelineFaults \* bound: timeouts and errors

ASSUME PipelineAssumption ==
    /\ Slots \in Nat /\ Permits \in Nat /\ Permits >= Slots
    /\ MaxPipelineFaults \in Nat

VARIABLES
    given,        \* refs the session has yielded
    ended,        \* it got the end signal
    refilling,    \* the refill thread is in next(it)
    exhausted,    \* next(it) said that there are no more refs
    place,        \* of each CCD
    attempt,      \* of its download
    ccdFile,      \* "none", "part" or "whole"
    permits,      \* of download_sem that are free
    pathFeeder,   \* "running", "failing", "closing" (both leave their executors),
                  \* "raised" or "done"
    main,         \* "running", "terminating", "raised" or "returned"
    progressQueue,
    drained,      \* drain_progress_queue() is over
    emitted,      \* messages that were put into q
    saved,        \* CCDs with tiles and FITS header in the local storage
    outcome,      \* of the pipeline: "running", "returned" or "raised"
    pipelineFaults

pathFeederVars == <<given, ended, refilling, exhausted, pathFeeder>>
downloadVars == <<attempt, ccdFile, permits>>
resultVars == <<progressQueue, drained, emitted, saved, outcome>>
pipeVars == <<pathFeederVars, place, downloadVars, main, resultVars, pipelineFaults>>

CcdPlaces == {"none", "waiting", "downloading", "downloaded", "failed", "pooled",
              "processing", "tiling", "error", "result", "completed", "dropped"}
At(places) == {c \in Ccds : place[c] \in places}
InFlight == At({"waiting", "downloading", "downloaded", "failed"})
InPool == At({"pooled", "processing", "tiling", "error", "result"})

\* The progress that download() and _process_ccd report (1/4 to 4/4), and the metadata.
Reports == {"started", "downloaded", "preprocessed", "saved", "metadata"}
Emit(c, what) == emitted' = emitted \union {<<c, what>>}
MoveCcd(c, to) == place' = [place EXCEPT ![c] = to]
Fault == pipelineFaults < MaxPipelineFaults /\ pipelineFaults' = pipelineFaults + 1

PipelineInit ==
    /\ given = {} /\ ended = FALSE /\ refilling = FALSE /\ exhausted = FALSE
    /\ place = [c \in Ccds |-> "none"]
    /\ attempt = [c \in Ccds |-> 1] /\ ccdFile = [c \in Ccds |-> "none"]
    /\ permits = Permits
    /\ pathFeeder = "running" /\ main = "running"
    /\ progressQueue = <<>> /\ drained = FALSE /\ emitted = {} /\ saved = {}
    /\ outcome = "running" /\ pipelineFaults = 0

-----------------------------------------------------------------------------
(* The refs and the refill thread.                                         *)

EndSignal ==
    /\ ~ended /\ ended' = TRUE
    /\ UNCHANGED <<given, refilling, exhausted, pathFeeder, place, downloadVars, main,
                   resultVars, pipelineFaults>>

Refill ==
    /\ pathFeeder = "running" /\ ~refilling /\ ~exhausted
    /\ Cardinality(InFlight) < DownloadThreads
    /\ refilling' = TRUE
    /\ UNCHANGED <<given, ended, exhausted, pathFeeder, place, downloadVars, main,
                   resultVars, pipelineFaults>>

\* A ref that arrives when the feeder is leaving is not looked at any more.
Give(c) ==
    /\ refilling /\ ~ended /\ c \notin given
    /\ Cardinality(given \ At({"completed"})) < Slots
    /\ given' = given \union {c}
    /\ refilling' = FALSE
    /\ MoveCcd(c, IF pathFeeder = "running" THEN "waiting" ELSE "dropped")
    /\ UNCHANGED <<ended, exhausted, pathFeeder, downloadVars, main, resultVars,
                   pipelineFaults>>

Exhaust ==
    /\ refilling /\ ended
    /\ refilling' = FALSE /\ exhausted' = TRUE
    /\ UNCHANGED <<given, ended, pathFeeder, place, downloadVars, main, resultVars,
                   pipelineFaults>>

-----------------------------------------------------------------------------
(* download() and download_ccd_to_path().                                  *)

Acquire(c) ==
    /\ place[c] = "waiting" /\ permits > 0
    /\ permits' = permits - 1
    /\ Emit(c, "started")
    /\ MoveCcd(c, "downloading")
    /\ UNCHANGED <<pathFeederVars, attempt, ccdFile, main, progressQueue, drained, saved,
                   outcome, pipelineFaults>>

\* ccd_download_worker, a process of its own, writes the file and exits.
Write(c) ==
    /\ place[c] = "downloading" /\ ccdFile[c] # "whole"
    /\ ccdFile' = [ccdFile EXCEPT ![c] = IF @ = "none" THEN "part" ELSE "whole"]
    /\ UNCHANGED <<pathFeederVars, place, attempt, permits, main, resultVars,
                   pipelineFaults>>

Downloaded(c) ==
    /\ place[c] = "downloading" /\ ccdFile[c] = "whole"
    /\ Emit(c, "downloaded")
    /\ MoveCcd(c, "downloaded")
    /\ UNCHANGED <<pathFeederVars, downloadVars, main, progressQueue, drained, saved,
                   outcome, pipelineFaults>>

\* Also when the process ended after it was looked at.
TimeOut(c) ==
    /\ place[c] = "downloading" /\ Fault
    /\ ccdFile' = [ccdFile EXCEPT ![c] = "none"]
    /\ IF attempt[c] = 1
       THEN attempt' = [attempt EXCEPT ![c] = 2] /\ UNCHANGED place
       ELSE MoveCcd(c, "failed") /\ UNCHANGED attempt
    /\ UNCHANGED <<pathFeederVars, permits, main, resultVars>>

\* The process exits with an error: that is not tried again.
DownloadFails(c) ==
    /\ place[c] = "downloading" /\ Fault
    /\ MoveCcd(c, "failed")
    /\ UNCHANGED <<pathFeederVars, downloadVars, main, resultVars>>

-----------------------------------------------------------------------------
(* The feeder.                                                             *)

\* The pool takes the path, unless it was terminated meanwhile.
Feed(c) ==
    /\ pathFeeder = "running" /\ place[c] = "downloaded"
    /\ IF main = "running"
       THEN MoveCcd(c, "pooled") /\ UNCHANGED pathFeeder
       ELSE MoveCcd(c, "dropped") /\ pathFeeder' = "closing"
    /\ UNCHANGED <<given, ended, refilling, exhausted, downloadVars, main, resultVars,
                   pipelineFaults>>

FeedFails(c) ==
    /\ pathFeeder = "running" /\ place[c] = "failed"
    /\ MoveCcd(c, "dropped")
    /\ pathFeeder' = "failing"
    /\ UNCHANGED <<given, ended, refilling, exhausted, downloadVars, main, resultVars,
                   pipelineFaults>>

\* The executors of the refill thread and of the downloads wait for their threads.
FeederEnds ==
    /\ \/ pathFeeder \in {"failing", "closing"}
          /\ ~refilling /\ At({"waiting", "downloading"}) = {}
       \/ pathFeeder = "running" /\ exhausted /\ InFlight = {}
    /\ pathFeeder' = IF pathFeeder = "failing" THEN "raised" ELSE "done"
    /\ UNCHANGED <<given, ended, refilling, exhausted, place, downloadVars, main,
                   resultVars, pipelineFaults>>

-----------------------------------------------------------------------------
(* The pool: _process_ccd().                                               *)

StartProcess(c) ==
    /\ main = "running" /\ place[c] = "pooled"
    /\ Cardinality(At({"processing", "tiling"})) < PoolProcesses
    /\ MoveCcd(c, "processing")
    /\ UNCHANGED <<pathFeederVars, downloadVars, main, resultVars, pipelineFaults>>

\* Mutant: the permit is not released.
PreprocessKeepsPermit(c) ==
    /\ place[c] = "processing"
    /\ ccdFile' = [ccdFile EXCEPT ![c] = "none"]
    /\ progressQueue' = Append(progressQueue, <<c, "preprocessed">>)
    /\ MoveCcd(c, "tiling")
    /\ UNCHANGED <<pathFeederVars, attempt, permits, main, drained, emitted, saved,
                   outcome, pipelineFaults>>

Preprocess(c) ==
    /\ place[c] = "processing"
    /\ ccdFile' = [ccdFile EXCEPT ![c] = "none"]
    /\ permits' = permits + 1
    /\ progressQueue' = Append(progressQueue, <<c, "preprocessed">>)
    /\ MoveCcd(c, "tiling")
    /\ UNCHANGED <<pathFeederVars, attempt, main, drained, emitted, saved, outcome,
                   pipelineFaults>>

SaveTiles(c) ==
    /\ place[c] = "tiling"
    /\ saved' = saved \union {c}
    /\ progressQueue' = Append(progressQueue, <<c, "saved">>)
    /\ MoveCcd(c, "result")
    /\ UNCHANGED <<pathFeederVars, downloadVars, main, drained, emitted, outcome,
                   pipelineFaults>>

ProcessFails(c) ==
    /\ place[c] \in {"processing", "tiling"} /\ Fault
    /\ MoveCcd(c, "error")
    /\ ccdFile' = [ccdFile EXCEPT ![c] = "none"]
    /\ permits' = IF place[c] = "processing" THEN permits + 1 ELSE permits
    /\ UNCHANGED <<pathFeederVars, attempt, main, resultVars>>

-----------------------------------------------------------------------------
(* main(), drain_progress_queue() and the loop that yields.                *)

Result(c) ==
    /\ main = "running" /\ place[c] = "result"
    /\ Emit(c, "metadata")
    /\ MoveCcd(c, "completed")
    /\ UNCHANGED <<pathFeederVars, downloadVars, main, progressQueue, drained, saved,
                   outcome, pipelineFaults>>

\* The exception of a process, or of the feeder: the pool is terminated, and its
\* processes are killed with what they hold.
MainFails ==
    /\ main = "running"
    /\ At({"error"}) # {} \/ pathFeeder = "raised"
    /\ main' = "terminating"
    /\ place' = [c \in Ccds |-> IF c \in InPool THEN "dropped" ELSE place[c]]
    /\ UNCHANGED <<pathFeederVars, downloadVars, resultVars, pipelineFaults>>

\* Without exception there is one result for every path; pool.terminate() joins the
\* feeder.
MainEnds ==
    /\ \/ main = "running" /\ pathFeeder = "done" /\ InPool = {}
       \/ main = "terminating" /\ pathFeeder \in {"done", "raised"}
    /\ main' = IF main = "running" THEN "returned" ELSE "raised"
    /\ progressQueue' = Append(progressQueue, <<"done">>)
    /\ UNCHANGED <<pathFeederVars, place, downloadVars, drained, emitted, saved, outcome,
                   pipelineFaults>>

Drain ==
    /\ progressQueue # <<>>
    /\ progressQueue' = Tail(progressQueue)
    /\ IF Head(progressQueue) = <<"done">>
       THEN drained' = TRUE /\ UNCHANGED emitted
       ELSE emitted' = emitted \union {Head(progressQueue)} /\ UNCHANGED drained
    /\ UNCHANGED <<pathFeederVars, place, downloadVars, main, saved, outcome,
                   pipelineFaults>>

\* The second _QUEUE_DONE.
FinishPipeline ==
    /\ outcome = "running" /\ main \in {"raised", "returned"} /\ drained
    /\ outcome' = main
    /\ UNCHANGED <<pathFeederVars, place, downloadVars, main, progressQueue, drained,
                   emitted, saved, pipelineFaults>>

Download(c) == Acquire(c) \/ Write(c) \/ Downloaded(c)
Process(c) == StartProcess(c) \/ Preprocess(c) \/ SaveTiles(c)
PathFeederStep == FeederEnds \/ \E c \in Ccds : Feed(c) \/ FeedFails(c)
MainStep == MainFails \/ MainEnds \/ \E c \in Ccds : Result(c)

PipelineNext ==
    \/ EndSignal \/ Refill \/ Exhaust
    \/ PathFeederStep \/ MainStep \/ Drain \/ FinishPipeline
    \/ \E c \in Ccds :
           \/ Give(c) \/ Download(c) \/ Process(c)
           \/ TimeOut(c) \/ DownloadFails(c) \/ ProcessFails(c)

\* The threads and processes run; a download that hangs is ended by its timeout.
\* Nobody need send a ref or the end signal.
PipelineFairness ==
    /\ WF_pipeVars(Refill) /\ WF_pipeVars(Exhaust)
    /\ WF_pipeVars(PathFeederStep) /\ WF_pipeVars(MainStep)
    /\ WF_pipeVars(Drain) /\ WF_pipeVars(FinishPipeline)
    /\ \A c \in Ccds : WF_pipeVars(Download(c) \/ TimeOut(c)) /\ WF_pipeVars(Process(c))

PipelineSpec == PipelineInit /\ [][PipelineNext]_pipeVars /\ PipelineFairness

-----------------------------------------------------------------------------
PipelineTypeOK ==
    /\ given \subseteq Ccds /\ saved \subseteq given
    /\ {ended, refilling, exhausted, drained} \subseteq BOOLEAN
    /\ place \in [Ccds -> CcdPlaces] /\ attempt \in [Ccds -> 1..2]
    /\ ccdFile \in [Ccds -> {"none", "part", "whole"}]
    /\ permits \in 0..Permits
    /\ pathFeeder \in {"running", "failing", "closing", "raised", "done"}
    /\ main \in {"running", "terminating", "raised", "returned"}
    /\ progressQueue \in Seq((Ccds \X {"preprocessed", "saved"}) \union {<<"done">>})
    /\ emitted \subseteq Ccds \X Reports
    /\ outcome \in {"running", "returned", "raised"}
    /\ pipelineFaults \in 0..MaxPipelineFaults

\* A pipeline that returns has yielded all progress and the metadata of every CCD it
\* was given, and their tiles are saved: no failure of a download or of a process is
\* swallowed on its way through three threads and two queues.
ReturnedIsComplete ==
    outcome = "returned" =>
        \A c \in given : c \in saved /\ \A k \in Reports : <<c, k>> \in emitted

\* While neither the feeder nor main() fails, no download waits for the semaphore: the CCDs
\* that a session has at once, on whatever stage, leave a permit for each of them, also
\* when one of them has failed and nobody has noticed.
NoWaitForPermit ==
    \A c \in Ccds :
        place[c] = "waiting" /\ pathFeeder = "running" /\ main = "running" => permits > 0

\* What the run checks of the pipeline: the types, and the two properties.
PipelineInv == PipelineTypeOK /\ ReturnedIsComplete /\ NoWaitForPermit

StaysOver == outcome # "running" => UNCHANGED <<place, ccdFile, emitted, saved>>
EndGiven == ended
Over == outcome # "running"

\* When the pipeline is over, none of its threads and processes goes on: what it has
\* downloaded, saved and reported stays as it is.
OverIsOver == [][StaysOver]_pipeVars

\* After the end signal the pipeline comes to its end, whichever download hangs and
\* whatever fails: no executor is left waiting for a permit that a killed process or a
\* failed download kept, nor for a ref that never comes.
PipelineComesToEnd == EndGiven ~> Over
=============================================================================
