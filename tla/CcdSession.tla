----------------------------- MODULE CcdSession -----------------------------
(***************************************************************************)
(* The generator's side of one session (websocket_generate_tiles_raw):     *)
(* receive_assignments fills ccd_queue, ccd_generator polls it from the    *)
(* pipeline's thread, the pipeline processes CCDs in any order, and        *)
(* send_results empties result_queue.  cancel_event ends all of them.      *)
(*                                                                         *)
(* Every copy of a CCD that is assigned is a value of its own.  Fewer      *)
(* copies than the pipeline may download at once (8) are in flight, so it  *)
(* always asks for the next one.  The coordinator never sends a            *)
(* CancelMessage.                                                          *)
(***************************************************************************)
EXTENDS Naturals, Sequences, SequencesExt

CONSTANTS
    Copies,        \* copies the coordinator may assign
    End,           \* the end signal: None in inbox and ccd_queue; no copy
    AllowFailure,  \* whether processing a CCD may raise
    MaxStalls      \* bound: stalls of the event loop of 2 s

ASSUME SessionAssumption == MaxStalls \in Nat /\ End \notin Copies

VARIABLES
    assigned,     \* copies the coordinator sent
    endSent,      \* the coordinator sent the end signal
    connected,    \* the connection is up
    inbox,        \* messages on their way to the generator
    receiver,     \* receive_assignments: "receiving" or "done"
    ccdQueue,
    feeder,       \* ccd_generator: "polling" or "done"
    getters,      \* ccd_queue.get() calls that nobody waits for any more
    stalls,
    pipeline,     \* "running", "failing" (joins its feeder), "failed",
                  \* "closing" (leaves the results), "done"
    inPipeline,
    resultQueue,  \* messages: <<"progress", c>>, <<"completed", c>>, <<"error">>, <<"end">>
    reported,     \* bound: a copy reports its progress once
    sender,       \* send_results: "check", "get", "send" or "done"
    sending,      \* the message that is being sent
    cancel,       \* cancel_event
    closed,       \* the generator closed the WebSocket
    completed,    \* CompletedMessages the coordinator got
    errorSeen     \* it got an ErrorMessage

coordinatorVars == <<assigned, endSent, completed, errorSeen>>
feederVars == <<feeder, getters, stalls>>
pipelineVars == <<pipeline, inPipeline, reported>>
senderVars == <<sender, sending>>
vars == <<coordinatorVars, connected, inbox, receiver, ccdQueue, feederVars,
          pipelineVars, resultQueue, senderVars, cancel, closed>>

Failure == pipeline \in {"failing", "failed"}
Messages == ({"progress", "completed"} \X Copies) \union {<<"error">>, <<"end">>}

Init ==
    /\ assigned = {} /\ endSent = FALSE /\ completed = {} /\ errorSeen = FALSE
    /\ connected = TRUE
    /\ inbox = <<>> /\ receiver = "receiving"
    /\ ccdQueue = <<>>
    /\ feeder = "polling" /\ getters = 0 /\ stalls = 0
    /\ pipeline = "running" /\ inPipeline = {} /\ reported = {}
    /\ resultQueue = <<>>
    /\ sender = "get" /\ sending = <<"end">>
    /\ cancel = FALSE /\ closed = FALSE

-----------------------------------------------------------------------------
(* The coordinator and the network.                                        *)

Assign(c) ==
    /\ connected /\ ~closed /\ ~endSent /\ c \notin assigned
    /\ assigned' = assigned \union {c}
    /\ inbox' = Append(inbox, c)
    /\ UNCHANGED <<endSent, completed, errorSeen, connected, receiver, ccdQueue, feederVars,
                   pipelineVars, resultQueue, senderVars, cancel, closed>>

SendEnd ==
    /\ connected /\ ~closed /\ ~endSent
    /\ endSent' = TRUE
    /\ inbox' = Append(inbox, End)
    /\ UNCHANGED <<assigned, completed, errorSeen, connected, receiver, ccdQueue, feederVars,
                   pipelineVars, resultQueue, senderVars, cancel, closed>>

Disconnect ==
    /\ connected /\ ~closed
    /\ connected' = FALSE
    /\ UNCHANGED <<coordinatorVars, inbox, receiver, ccdQueue, feederVars, pipelineVars,
                   resultQueue, senderVars, cancel, closed>>

-----------------------------------------------------------------------------
(* receive_assignments.                                                    *)

\* Mutant: only the last assignment is kept for the pipeline.
ReceiveKeepsLast ==
    /\ receiver = "receiving" /\ inbox # <<>>
    /\ inbox' = Tail(inbox)
    /\ ccdQueue' = <<Head(inbox)>>
    /\ receiver' = IF Head(inbox) = End THEN "done" ELSE "receiving"
    /\ UNCHANGED <<coordinatorVars, connected, feederVars, pipelineVars, resultQueue,
                   senderVars, cancel, closed>>

Receive ==
    /\ receiver = "receiving" /\ inbox # <<>>
    /\ inbox' = Tail(inbox)
    /\ ccdQueue' = Append(ccdQueue, Head(inbox))
    /\ receiver' = IF Head(inbox) = End THEN "done" ELSE "receiving"
    /\ UNCHANGED <<coordinatorVars, connected, feederVars, pipelineVars, resultQueue,
                   senderVars, cancel, closed>>

\* cancel_event is set, or the connection is closed.
ReceiverStops ==
    /\ receiver = "receiving" /\ (cancel \/ ~connected)
    /\ receiver' = "done"
    /\ cancel' = TRUE
    /\ ccdQueue' = Append(ccdQueue, End)
    /\ UNCHANGED <<coordinatorVars, connected, inbox, feederVars, pipelineVars,
                   resultQueue, senderVars, closed>>

-----------------------------------------------------------------------------
(* ccd_generator: a poll takes the next item, or times out and looks at    *)
(* cancel_event again.                                                     *)

\* A pipeline that failed takes no more CCDs, but it may have to be asked twice
\* until it notices.
Pull ==
    /\ feeder = "polling" /\ ccdQueue # <<>>
    /\ ccdQueue' = Tail(ccdQueue)
    /\ IF Head(ccdQueue) = End
       THEN feeder' = "done" /\ UNCHANGED <<pipeline, inPipeline>>
       ELSE /\ UNCHANGED feeder
            /\ IF pipeline = "running"
               THEN inPipeline' = inPipeline \union {Head(ccdQueue)} /\ UNCHANGED pipeline
               ELSE /\ pipeline' \in {pipeline, IF Failure THEN "failed" ELSE pipeline}
                    /\ UNCHANGED inPipeline
    /\ UNCHANGED <<coordinatorVars, connected, inbox, receiver, getters, stalls, reported,
                   resultQueue, senderVars, cancel, closed>>

FeederStops ==
    /\ feeder = "polling" /\ cancel
    /\ feeder' = "done"
    /\ UNCHANGED <<coordinatorVars, connected, inbox, receiver, ccdQueue, getters, stalls,
                   pipelineVars, resultQueue, senderVars, cancel, closed>>

\* The event loop stalls: future.result(timeout=2.0) gives up, ccd_generator
\* polls again, and the first get() is still to come.
AbandonGet ==
    /\ feeder = "polling" /\ stalls < MaxStalls
    /\ stalls' = stalls + 1
    /\ getters' = getters + 1
    /\ UNCHANGED <<coordinatorVars, connected, inbox, receiver, ccdQueue, feeder,
                   pipelineVars, resultQueue, senderVars, cancel, closed>>

\* Its wait_for(1.0) takes an item that nobody gets, or times out.
AbandonedGetEnds ==
    /\ getters > 0
    /\ getters' = getters - 1
    /\ ccdQueue' = IF ccdQueue = <<>> THEN <<>> ELSE Tail(ccdQueue)
    /\ UNCHANGED <<coordinatorVars, connected, inbox, receiver, feeder, stalls,
                   pipelineVars, resultQueue, senderVars, cancel, closed>>

-----------------------------------------------------------------------------
(* The pipeline and run_pipeline.                                          *)

ReportProgress(c) ==
    /\ pipeline = "running" /\ c \in inPipeline \ reported
    /\ reported' = reported \union {c}
    /\ IF cancel
       THEN pipeline' = "closing" /\ UNCHANGED resultQueue
       ELSE resultQueue' = Append(resultQueue, <<"progress", c>>) /\ UNCHANGED pipeline
    /\ UNCHANGED <<coordinatorVars, connected, inbox, receiver, ccdQueue, feederVars,
                   inPipeline, senderVars, cancel, closed>>

FinishCopy(c) ==
    /\ pipeline = "running" /\ c \in inPipeline \intersect reported
    /\ inPipeline' = inPipeline \ {c}
    /\ resultQueue' = Append(resultQueue, <<"completed", c>>)
    /\ UNCHANGED <<coordinatorVars, connected, inbox, receiver, ccdQueue, feederVars,
                   pipeline, reported, senderVars, cancel, closed>>

\* The pool is terminated, but its feeder thread is joined, and that thread is in
\* ccd_generator.
FailCopy(c) ==
    /\ AllowFailure
    /\ pipeline = "running" /\ c \in inPipeline
    /\ pipeline' = "failing"
    /\ inPipeline' = {}
    /\ UNCHANGED <<coordinatorVars, connected, inbox, receiver, ccdQueue, feederVars,
                   reported, resultQueue, senderVars, cancel, closed>>

\* The end of run_pipeline, with its except and finally.
PipelineEnds ==
    /\ \/ pipeline = "running" /\ feeder = "done" /\ inPipeline = {}
       \/ pipeline \in {"failing", "closing"} /\ feeder = "done"
       \/ pipeline = "failed"
    /\ pipeline' = "done"
    /\ inPipeline' = {}
    /\ resultQueue' = resultQueue \o
           (IF Failure THEN <<<<"error">>, <<"end">>>> ELSE <<<<"end">>>>)
    /\ cancel' = TRUE
    /\ feeder' = "done"
    /\ UNCHANGED <<coordinatorVars, connected, inbox, receiver, ccdQueue, getters, stalls,
                   reported, senderVars, closed>>

-----------------------------------------------------------------------------
(* send_results.                                                           *)

SenderChecks ==
    /\ sender = "check"
    /\ sender' = IF cancel THEN "done" ELSE "get"
    /\ UNCHANGED <<coordinatorVars, connected, inbox, receiver, ccdQueue, feederVars,
                   pipelineVars, resultQueue, sending, cancel, closed>>

SenderGets ==
    /\ sender = "get" /\ resultQueue # <<>>
    /\ resultQueue' = Tail(resultQueue)
    /\ sending' = Head(resultQueue)
    /\ sender' = IF Head(resultQueue) = <<"end">> THEN "done" ELSE "send"
    /\ UNCHANGED <<coordinatorVars, connected, inbox, receiver, ccdQueue, feederVars,
                   pipelineVars, cancel, closed>>

\* Without a connection the message is dropped, or the send raises.
SenderSends ==
    /\ sender = "send"
    /\ IF connected
       THEN /\ sender' = "check"
            /\ completed' = IF sending[1] = "completed"
                            THEN completed \union {sending[2]} ELSE completed
            /\ errorSeen' = (errorSeen \/ sending = <<"error">>)
       ELSE sender' \in {"check", "done"} /\ UNCHANGED <<completed, errorSeen>>
    /\ sending' = <<"end">>
    /\ UNCHANGED <<assigned, endSent, connected, inbox, receiver, ccdQueue, feederVars,
                   pipelineVars, resultQueue, cancel, closed>>

Close ==
    /\ receiver = "done" /\ sender = "done" /\ pipeline = "done" /\ ~closed
    /\ closed' = TRUE
    /\ UNCHANGED <<coordinatorVars, connected, inbox, receiver, ccdQueue, feederVars,
                   pipelineVars, resultQueue, senderVars, cancel>>

ReceiverStep == Receive \/ ReceiverStops
FeederStep == Pull \/ FeederStops
SenderStep == SenderChecks \/ SenderGets \/ SenderSends

Next ==
    \/ SendEnd \/ Disconnect
    \/ ReceiverStep \/ FeederStep \/ SenderStep
    \/ AbandonGet \/ AbandonedGetEnds
    \/ PipelineEnds \/ Close
    \/ \E c \in Copies : Assign(c) \/ ReportProgress(c) \/ FinishCopy(c) \/ FailCopy(c)

Spec == Init /\ [][Next]_vars

\* The event loop and the threads run; the coordinator need not do anything.
Fairness ==
    /\ WF_vars(ReceiverStep) /\ WF_vars(FeederStep) /\ WF_vars(SenderStep)
    /\ WF_vars(AbandonedGetEnds) /\ WF_vars(PipelineEnds) /\ WF_vars(Close)
    /\ \A c \in Copies : WF_vars(ReportProgress(c)) /\ WF_vars(FinishCopy(c))

FairSpec == Spec /\ Fairness

-----------------------------------------------------------------------------
TypeOK ==
    /\ assigned \subseteq Copies /\ completed \subseteq Copies
    /\ {endSent, errorSeen, connected, cancel, closed} \subseteq BOOLEAN
    /\ inbox \in Seq(Copies \union {End})
    /\ ccdQueue \in Seq(Copies \union {End})
    /\ receiver \in {"receiving", "done"}
    /\ feeder \in {"polling", "done"}
    /\ stalls \in 0..MaxStalls /\ getters \in 0..stalls
    /\ pipeline \in {"running", "failing", "failed", "closing", "done"}
    /\ inPipeline \subseteq Copies /\ reported \subseteq Copies
    /\ resultQueue \in Seq(Messages)
    /\ sender \in {"check", "get", "send", "done"} /\ sending \in Messages

\* Where a copy may be.
Places(c) == <<
    c \in ToSet(inbox), c \in ToSet(ccdQueue), c \in inPipeline,
    <<"completed", c>> \in ToSet(resultQueue), sending = <<"completed", c>>,
    c \in completed >>

\* A copy is never processed or reported twice within a session, and nothing is
\* reported that was not assigned.
AtMostOnePlace ==
    \A c \in Copies : \A i \in 1..6 :
        Places(c)[i] => c \in assigned /\ \A j \in 1..6 : Places(c)[j] => i = j

\* While the session is up and the event loop keeps pace, every CCD the
\* coordinator counts on is queued, processed, reported or completed: no copy
\* is lost between the receiver, the polling feeder, the pipeline and the sender.
NothingLost ==
    connected /\ ~cancel /\ pipeline = "running" /\ stalls = 0 =>
        \A c \in assigned : \E i \in 1..6 : Places(c)[i]

\* The state of a session has its types, a copy is in one place at most, processed and
\* reported once, and none is lost between the tasks of the session.
SessionInv == TypeOK /\ AtMostOnePlace /\ NothingLost

Expected(c) == c \in assigned /\ pipeline = "running"
CompletedOrNot(c) == c \in completed \/ ~connected \/ Failure \/ endSent \/ stalls > 0

\* The feeder has no idle timeout (its docstring): a CCD that arrives late is
\* processed, unless the session ends, a CCD fails or the event loop stalled.
AssignedIsCompleted == \A c \in Copies : Expected(c) ~> CompletedOrNot(c)

PipelineOver == pipeline = "done"
HasToEnd == endSent \/ ~connected
Closed == closed
Stalled == stalls > 0

\* The end of the pipeline ends the whole handler, and while the event loop keeps
\* pace so does the end signal or the loss of the connection: no part of it waits
\* for another one forever, whatever failed.
SessionEnds ==
    /\ PipelineOver ~> Closed
    /\ HasToEnd ~> Closed \/ Stalled
=============================================================================
