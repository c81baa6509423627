---------------------------- MODULE StatusRelay ----------------------------
(***************************************************************************)
(* How a browser learns what became of its visit.  The coordinator keeps   *)
(* the jobs by visit and broadcasts the list of their statuses at every    *)
(* change, and the metadata of all CCDs once; the frontend's relay keeps   *)
(* both and broadcasts the lists to the viewers' websockets.               *)
(*                                                                         *)
(* A message holds the live status of each job, and is pickled when it is  *)
(* sent.  Both Broadcasts set the last value at once and hand the values   *)
(* out later; a subscriber starts with the last value.                     *)
(*                                                                         *)
(* One frontend, one viewer of one visit, whose jobs are told apart; of    *)
(* the other visits, whether any is listed.  "merge" stands for the two    *)
(* stages that the viewer does not tell apart.                             *)
(***************************************************************************)
EXTENDS Naturals, Sequences, SequencesExt

CONSTANTS
    NoValue,
    MaxQueueSize,  \* of a viewer's queue
    SlowRelay,     \* whether delivery may take longer than the 5 s of _cleanup_delay
    MaxUnderWay,   \* bound: of the messages and lists that nobody has taken yet
    MaxJobs, MaxTraffic,
    MaxFaults      \* bounds; an HTTP request for the list counts as a fault

ASSUME QueueAssumption == MaxQueueSize \in Nat \ {0}
ASSUME BoundsAssumption == MaxJobs \in Nat /\ MaxTraffic \in Nat /\ MaxFaults \in Nat

Job == 1..MaxJobs

VARIABLES   \* of the coordinator
    stage,     \* of each job; "shared": generating, its large status was put
    entry,     \* the visit's job in the dictionary, or NoJob
    others,    \* whether the dictionary holds jobs of other visits
    removal,   \* whether _cleanup_delay will remove the entry
    row,       \* of the visit, in the DB
    last, upstream,  \* of the Broadcast
    queue      \* of the frontend's subscription

VARIABLES connected, wire  \* the websocket and what is under way in it

VARIABLES   \* of the frontend
    list, lists,  \* _job_status_dict: the last value and the upstream
    large, recent,
    poll       \* GET /api/quicklooks/*/status: "none", what it was answered, "put"

VARIABLES   \* of the viewer
    viewer, items, seen, shown

VARIABLES traffic, faults  \* so far

coordinatorVars == <<stage, entry, others, removal, row, last, upstream>>
connection == <<queue, connected, wire>>
frontendVars == <<list, lists, large, recent, poll>>
viewerVars == <<viewer, items, seen, shown>>
counters == <<traffic, faults>>
vars == <<coordinatorVars, connection, frontendVars, viewerVars, counters>>

Stages == {"queued", "generate", "shared", "merge", "ready", "stored", "error"}
JobStage == {"queued", "generate", "merge", "ready", "error"}

\* What the status of a job says.
StageOf(j) ==
    CASE stage[j] = "shared" -> "generate"
      [] stage[j] = "stored" -> "ready"
      [] OTHER               -> stage[j]

NoJob == 0

Init ==
    /\ stage = [j \in Job |-> "unborn"]
    /\ entry = NoJob /\ others = FALSE /\ removal = FALSE
    /\ row = "none"
    /\ last = NoValue /\ upstream = <<>>
    /\ queue = <<>> /\ connected = TRUE /\ wire = <<>>
    /\ list = NoValue /\ lists = <<>> /\ large = FALSE /\ recent = FALSE /\ poll = <<"none">>
    /\ viewer = "away" /\ items = <<>> /\ seen = "none" /\ shown = "none"
    /\ traffic = 0  /\ faults = 0

-----------------------------------------------------------------------------
(* The coordinator.                                                        *)

JobList(j, o) == [type |-> "list", job |-> j, others |-> o]
Large(j) == [type |-> "large", job |-> j]

Put(msgs) ==
    /\ Len(upstream) + Len(queue) + Len(wire) + Len(lists) + Len(msgs) <= MaxUnderWay
    /\ upstream' = upstream \o msgs
    /\ last' = Last(msgs)

NotifyProgress == Put(<<JobList(entry', others')>>)

\* A job is listed at once and announced with its first change of status.
Push(j) ==
    /\ row = "none" /\ entry = NoJob
    /\ stage[j] = "unborn" /\ \A k \in 1..(j - 1) : stage[k] # "unborn"
    /\ stage' = [stage EXCEPT ![j] = "queued"]
    /\ entry' = j
    /\ UNCHANGED <<others, removal, row, last, upstream, connection, frontendVars, viewerVars,
                   counters>>

Fault == faults < MaxFaults /\ faults' = faults + 1 /\ UNCHANGED traffic

Enter(j, from, to) ==
    /\ stage[j] = from
    /\ stage' = [stage EXCEPT ![j] = to]

Generate(j) ==
    /\ Enter(j, "queued", "generate")
    /\ row' = "unready"
    /\ UNCHANGED <<entry, others, removal, connection, frontendVars, viewerVars, counters>>
    /\ NotifyProgress

\* Progress of the job, or any change of another one.
Traffic ==
    /\ traffic < MaxTraffic
    /\ traffic' = traffic + 1
    /\ others' \in BOOLEAN
    /\ UNCHANGED <<stage, entry, removal, row, connection, frontendVars, viewerVars,
                   faults>>
    /\ NotifyProgress

Share(j) ==
    /\ Enter(j, "generate", "shared")
    /\ Put(<<Large(j)>>)
    /\ UNCHANGED <<entry, others, removal, row, connection, frontendVars, viewerVars, counters>>

Merge(j) ==
    /\ Enter(j, "shared", "merge")
    /\ UNCHANGED <<entry, others, removal, row, connection, frontendVars, viewerVars, counters>>
    /\ NotifyProgress

\* The first watcher announces the status, the second removes the job.
Ready(j) ==
    /\ Enter(j, "merge", "ready")
    /\ Put(<<JobList(j, others), JobList(NoJob, others)>>)
    /\ entry' = NoJob
    /\ UNCHANGED <<others, removal, row, connection, frontendVars, viewerVars, counters>>

Store(j) ==
    /\ Enter(j, "ready", "stored")
    /\ row' = "ready"
    /\ UNCHANGED <<entry, others, removal, last, upstream, connection, frontendVars, viewerVars,
                   counters>>

\* Mutant: a job that failed is removed at once, as one that is ready.
FailAndRemove(j) ==
    /\ stage[j] \in {"queued", "generate", "shared", "merge"}
    /\ stage' = [stage EXCEPT ![j] = "error"]
    /\ entry' = NoJob
    /\ row' = "none"
    /\ UNCHANGED <<others, removal, connection, frontendVars, viewerVars, counters>>
    /\ NotifyProgress

Fail(j) ==
    /\ stage[j] \in {"queued", "generate", "shared", "merge"}
    /\ stage' = [stage EXCEPT ![j] = "error"]
    /\ removal' = TRUE
    /\ row' = "none"
    /\ UNCHANGED <<entry, others, connection, frontendVars, viewerVars, counters>>
    /\ NotifyProgress

Delivered == upstream = <<>> /\ queue = <<>> /\ wire = <<>>

RemoveFailed ==
    /\ removal
    /\ SlowRelay \/ (Delivered /\ lists = <<>> /\ items = <<>>)
    /\ removal' = FALSE
    /\ entry' = NoJob
    /\ UNCHANGED <<stage, others, row, connection, frontendVars, viewerVars, counters>>
    /\ NotifyProgress

\* The task of the Broadcast.
Distribute ==
    /\ upstream # <<>>
    /\ upstream' = Tail(upstream)
    /\ queue' = IF connected THEN Append(queue, Head(upstream)) ELSE queue
    /\ UNCHANGED <<stage, entry, others, removal, row, last, connected, wire,
                   frontendVars, viewerVars, counters>>

\* cleanup_at_startup deletes the rows that are not ready.
Crash ==
    /\ Fault
    /\ stage' = [j \in Job |-> IF stage[j] = "unborn" THEN "unborn" ELSE "dead"]
    /\ entry' = NoJob /\ others' = FALSE /\ removal' = FALSE
    /\ row' = IF row = "ready" THEN "ready" ELSE "none"
    /\ last' = NoValue /\ upstream' = <<>>
    /\ queue' = <<>> /\ connected' = FALSE /\ wire' = <<>>
    /\ UNCHANGED <<frontendVars, viewerVars>>

-----------------------------------------------------------------------------
(* The websocket between the two.                                          *)

\* Mutant: a subscriber gets nothing before the next value.
ConnectToTheNext ==
    /\ ~connected
    /\ connected' = TRUE
    /\ queue' = <<>>
    /\ UNCHANGED <<coordinatorVars, wire, frontendVars, viewerVars, counters>>

Connect ==
    /\ ~connected
    /\ connected' = TRUE
    /\ queue' = IF last = NoValue THEN <<>> ELSE <<last>>
    /\ UNCHANGED <<coordinatorVars, wire, frontendVars, viewerVars, counters>>

Pickled(msg) ==
    IF msg.type = "large" THEN msg
    ELSE [type |-> "list", json |-> FALSE, others |-> msg.others,
          stage |-> IF msg.job = NoJob THEN "absent" ELSE StageOf(msg.job)]

Send ==
    /\ queue # <<>>
    /\ wire' = Append(wire, Pickled(Head(queue)))
    /\ queue' = Tail(queue)
    /\ UNCHANGED <<coordinatorVars, connected, frontendVars, viewerVars, counters>>

Disconnect == connected' = FALSE /\ queue' = <<>> /\ wire' = <<>>

Drop ==
    /\ connected
    /\ Fault
    /\ Disconnect
    /\ UNCHANGED <<coordinatorVars, frontendVars, viewerVars>>

-----------------------------------------------------------------------------
(* The frontend: _apply_shared_status_message, its Broadcast and the HTTP  *)
(* request for the list.                                                   *)

Lists(l) == l # NoValue /\ l.stage # "absent"

\* A visit of the list is not in the new one.
Vanished(l, data) ==
    l # NoValue /\ ((Lists(l) /\ ~Lists(data)) \/ (l.others /\ ~data.others))

PutList(data) ==
    /\ list' = data
    /\ lists' = Append(lists, data)

ReceiveList(data) ==
    /\ large' = (large /\ Lists(data))
    /\ recent' = (recent \/ (large /\ Lists(list) /\ list.stage = "ready" /\ ~Lists(data)))
    /\ PutList(data)
    /\ poll' = IF poll = <<"put">> THEN <<"none">> ELSE poll

\* It is kept unless the frontend's list is not empty and lacks the visit.
ReceiveLarge ==
    /\ recent' = FALSE
    /\ large' = (list = NoValue \/ Lists(list) \/ ~list.others)
    /\ UNCHANGED <<list, lists, poll>>

\* The list that came from the HTTP request holds JSON objects: to ask one that
\* vanished for its stage raises.
Raises(msg) == msg.type = "list" /\ Vanished(list, msg) /\ list.json

Receive ==
    /\ wire # <<>>
    /\ ~Raises(Head(wire))
    /\ IF Head(wire).type = "large" THEN ReceiveLarge ELSE ReceiveList(Head(wire))
    /\ wire' = Tail(wire)
    /\ UNCHANGED <<coordinatorVars, queue, connected, viewerVars, counters>>

\* The exception ends the connection; the list stays.
ReceiveFails ==
    /\ wire # <<>>
    /\ Raises(Head(wire))
    /\ large' = (large /\ Lists(Head(wire)))
    /\ Disconnect
    /\ UNCHANGED <<coordinatorVars, list, lists, recent, poll, viewerVars, counters>>

\* _RECENT_READY_METADATA_TTL_SECONDS have passed.
Expire ==
    /\ recent
    /\ recent' = FALSE
    /\ UNCHANGED <<coordinatorVars, connection, list, lists, large, poll, viewerVars, counters>>

\* The frontend knows no list and asks the coordinator for it.
Poll ==
    /\ list = NoValue /\ poll = <<"none">>
    /\ Fault
    /\ poll' = <<"asked", [Pickled(JobList(entry, others)) EXCEPT !.json = TRUE]>>
    /\ UNCHANGED <<coordinatorVars, connection, list, lists, large, recent, viewerVars>>

\* The answer may be older than a list that was received in the meantime.
PollAnswered ==
    /\ poll[1] = "asked"
    /\ PutList(poll[2])
    /\ poll' = <<"put">>
    /\ UNCHANGED <<coordinatorVars, connection, large, recent, viewerVars, counters>>

\* Mutant: a list for which the queue has no room is dropped.
EnqueueIfRoom(q, item) == IF Len(q) < MaxQueueSize THEN Append(q, item) ELSE q

\* The oldest is dropped.
Enqueue(q, item) == Append(IF Len(q) < MaxQueueSize THEN q ELSE Tail(q), item)

DistributeList ==
    /\ lists # <<>>
    /\ lists' = Tail(lists)
    /\ items' = IF viewer = "watching" THEN Enqueue(items, Head(lists)) ELSE items
    /\ UNCHANGED <<coordinatorVars, connection, list, large, recent, poll,
                   viewer, seen, shown, counters>>

RestartFrontend ==
    /\ Fault
    /\ Disconnect
    /\ list' = NoValue /\ lists' = <<>> /\ large' = FALSE /\ recent' = FALSE /\ poll' = <<"none">>
    /\ viewer' = "away" /\ items' = <<>> /\ seen' = "none" /\ shown' = "none"
    /\ UNCHANGED coordinatorVars

-----------------------------------------------------------------------------
(* The viewer's websocket: once the DB, then the lists.                    *)

Look ==
    /\ viewer = "away"
    /\ IF row = "ready" THEN viewer' = "answered" /\ shown' = "ready"
                                ELSE viewer' = "looked" /\ UNCHANGED shown
    /\ UNCHANGED <<coordinatorVars, connection, frontendVars, items, seen, counters>>

Subscribe ==
    /\ viewer = "looked"
    /\ viewer' = "watching"
    /\ items' = IF list = NoValue THEN <<>> ELSE <<list>>
    /\ UNCHANGED <<coordinatorVars, connection, frontendVars, seen, shown, counters>>

\* _get_ccd_metadata_list_for_shared_status finds none and raises.
MetadataMissing(s) ==
    \/ s = "merge" /\ ~large
    \/ s = "ready" /\ ~large /\ ~recent

QuicklookMetadata == {"pending", "progress", "ready", "error"}

View(s) ==
    CASE s \in {"none", "queued"}   -> "pending"
      [] s = "generate"             -> "progress"
      [] s \in {"merge", "ready"}   -> "ready"
      [] s = "error"                -> "error"

\* jobs.get(visit, job_status)
Seen(item) == IF Lists(item) THEN item.stage ELSE seen

Take ==
    /\ viewer = "watching" /\ items # <<>>
    /\ LET s == Seen(Head(items)) IN
       IF MetadataMissing(s) \/ (Lists(Head(items)) /\ Head(items).json)
       THEN /\ viewer' = "away"
            /\ items' = <<>> /\ seen' = "none" /\ shown' = "none"
       ELSE /\ items' = Tail(items)
            /\ seen' = s
            /\ shown' = View(s)
            /\ UNCHANGED viewer
    /\ UNCHANGED <<coordinatorVars, connection, frontendVars, counters>>

Leave ==
    /\ viewer \in {"watching", "answered"}
    /\ viewer' = "away"
    /\ items' = <<>> /\ seen' = "none" /\ shown' = "none"
    /\ UNCHANGED <<coordinatorVars, connection, frontendVars, counters>>

-----------------------------------------------------------------------------
Next ==
    \/ \E j \in Job :
        Push(j) \/ Generate(j) \/ Share(j) \/ Merge(j) \/ Ready(j) \/ Store(j) \/ Fail(j)
    \/ Traffic \/ RemoveFailed \/ Distribute \/ Crash
    \/ Connect \/ Send \/ Drop \/ Receive \/ ReceiveFails
    \/ Expire \/ Poll \/ PollAnswered \/ DistributeList \/ RestartFrontend
    \/ Look \/ Subscribe \/ Take \/ Leave

Spec == Init /\ [][Next]_vars

\* The event loops run and the relay connects again.
Fairness ==
    /\ WF_vars(Distribute) /\ WF_vars(Connect) /\ WF_vars(Send)
    /\ WF_vars(Receive \/ ReceiveFails)
    /\ WF_vars(DistributeList) /\ WF_vars(Take)

FairSpec == Spec /\ Fairness

-----------------------------------------------------------------------------
Messages == [type : {"list"}, job : Job \union {NoJob}, others : BOOLEAN]
            \union [type : {"large"}, job : Job]
JobLists == [type : {"list"}, json : BOOLEAN, others : BOOLEAN, stage : JobStage \union {"absent"}]

ASSUME NoValueAssumption == NoValue \notin Messages \union JobLists

TypeOK ==
    /\ stage \in [Job -> Stages \union {"unborn", "dead"}]
    /\ entry \in Job \union {NoJob} /\ others \in BOOLEAN /\ removal \in BOOLEAN
    /\ removal => entry # NoJob
    /\ row \in {"none", "unready", "ready"}
    /\ last \in Messages \union {NoValue}
    /\ upstream \in Seq(Messages) /\ queue \in Seq(Messages)
    /\ connected \in BOOLEAN /\ wire \in Seq(JobLists \union Messages)
    /\ list \in JobLists \union {NoValue} /\ lists \in Seq(JobLists)
    /\ large \in BOOLEAN /\ recent \in BOOLEAN
    /\ poll \in {<<"none">>, <<"put">>} \union ({"asked"} \X JobLists)
    /\ viewer \in {"away", "looked", "watching", "answered"}
    /\ items \in Seq(JobLists) /\ Len(items) <= MaxQueueSize
    /\ seen \in JobStage \union {"none"}
    /\ shown \in QuicklookMetadata \union {"none"}
    /\ traffic \in 0..MaxTraffic /\ faults \in 0..MaxFaults

\* Once a relay that is connected has received everything, the frontend's list
\* says of the job what the coordinator knows, however often the connection was
\* lost: unless the last message was a large status, which a new subscriber gets
\* instead of a list, or the list came from the HTTP request.  A job that is
\* still queued may not have been announced.
FrontendIsCurrent ==
    connected /\ Delivered /\ last # NoValue /\ last.type = "list" /\ poll # <<"put">> =>
        /\ list # NoValue
        /\ Lists(list) => entry # NoJob /\ list.stage = StageOf(entry)
        /\ entry # NoJob /\ ~Lists(list) => stage[entry] = "queued"

\* Then too, the frontend has the metadata of the CCDs of the visit it lists in
\* a stage that needs them: if no connection was lost, as they are sent once, to a
\* fault or to the list that an HTTP request brought.
MetadataIsThere ==
    connected /\ Delivered /\ faults = 0 =>
        (Lists(list) /\ list.stage \in {"merge", "ready"} => large)

\* The state has its types; a frontend that is connected knows what the coordinator
\* knows, and has what it needs to show it.
RelayInv == TypeOK /\ FrontendIsCurrent /\ MetadataIsThere

\* A viewer that has taken all its lists shows what the last list says of its
\* visit: its queue may have lost lists, but never the newest.
ViewerIsCurrent ==
    viewer = "watching" /\ items = <<>> /\ lists = <<>> /\ Lists(list) =>
        shown = View(list.stage)

\* What was shown to a viewer is taken back only for something the coordinator
\* said: a visit that vanishes from the list leaves what the viewer shows.
VanishingIsNoNews == [][
    viewer = "watching" /\ viewer' = "watching" /\ shown # "none" /\ shown' # shown
    => Lists(Head(items))]_vars

\* A viewer that is shown the progress of a job that has failed is shown the
\* error, before the job vanishes from the list after 5 s: unless the visit is
\* tried again, or a connection was lost, which may take longer than that.
FailedLast == \E j \in Job : stage[j] = "error" /\ \A k \in Job : k > j => stage[k] = "unborn"

ErrorIsShown ==
    FailedLast /\ viewer = "watching" /\ shown = "progress" /\ faults = 0
        ~> shown = "error" \/ viewer # "watching" \/ faults > 0 \/ ~FailedLast

\* A viewer is told of an error in the 5 s it is there for, and takes its
\* disappearance for no news.
NewsAreShown == VanishingIsNoNews /\ ErrorIsShown
=============================================================================
