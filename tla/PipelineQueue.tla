--------------------------- MODULE PipelineQueue ---------------------------
(***************************************************************************)
(* The pipeline of the coordinator (utils/pipeline) as the quicklook jobs  *)
(* use it: stages of parallel tasks, a buffer in front of each stage,      *)
(* which may be bounded and of which a stage may pick the job with the     *)
(* most users.  Jobs are requested and votes arrive at any time; who sends *)
(* them is in JobVotes.                                                    *)
(*                                                                         *)
(* The event loop runs one task at a time, from one await that really      *)
(* suspends to the next: each action is such a section.  A buffer has two  *)
(* asyncio.Events, and set() wakes every task that waits on it; the tasks  *)
(* run again later and find the buffer as it is then.                      *)
(***************************************************************************)
EXTENDS Integers, Sequences, FiniteSets, SequencesExt

CONSTANTS
    Visits,
    NumStages,
    Parallel,     \* tasks of each stage
    Bounded,      \* stages with a queue_capacity
    Capacity,     \* of them
    Prioritised,  \* stages with select_next_result
    Checked,      \* stages that want a user and clean up after an error
    MaxEvents     \* bound: votes, unvotes and stages that raise

Stages == 1 .. NumStages
Tasks == {t \in Stages \X (1 .. 9) : t[2] <= Parallel[t[1]]}
StageOf(t) == t[1]
NoVisit == 0

\* push() answers 503 to a full first buffer, which has no capacity.
ASSUME StagesAssumption ==
    /\ NumStages \in Nat \ {0}
    /\ Parallel \in [Stages -> 1 .. 9]
    /\ Bounded \subseteq Stages \ {1}
    /\ Capacity \in Nat \ {0}
    /\ NoVisit \notin Visits
    /\ MaxEvents \in Nat

VARIABLES
    items,        \* of each buffer
    ev, notFull,  \* its events
    pc,           \* of each task: "get", "idle", "work", "push" or "blocked"
    held,         \* the job of each task
    jobs,         \* visits of the dictionary
    users, seq,   \* priority of each job
    created,      \* jobs so far
    failed,       \* jobs that raised, for 5 s more in the dictionary
    ready,        \* visits with a row that is ready
    events        \* votes, unvotes and errors so far

bufferVars == <<items, ev, notFull, pc, held>>
jobVars == <<jobs, users, seq, created, failed, ready>>
vars == <<bufferVars, jobVars, events>>

\* The state has its types; a task has a job while it works on it or hands it on,
\* and a job that failed is in the dictionary until it is forgotten.
TypeOK ==
    /\ items \in [Stages -> Seq(Visits)]
    /\ ev \in [Stages -> BOOLEAN] /\ notFull \in [Stages -> BOOLEAN]
    /\ pc \in [Tasks -> {"get", "idle", "work", "push", "blocked"}]
    /\ held \in [Tasks -> Visits \union {NoVisit}]
    /\ \A t \in Tasks : (held[t] = NoVisit) <=> (pc[t] \in {"get", "idle"})
    /\ jobs \subseteq Visits /\ failed \subseteq jobs
    /\ ready \subseteq Visits \ jobs
    /\ users \in [Visits -> Nat] /\ seq \in [Visits -> Nat] /\ created \in Nat
    /\ events \in 0 .. MaxEvents

Init ==
    /\ items = [s \in Stages |-> <<>>]
    /\ ev = [s \in Stages |-> FALSE] /\ notFull = [s \in Stages |-> TRUE]
    /\ pc = [t \in Tasks |-> "get"] /\ held = [t \in Tasks |-> NoVisit]
    /\ jobs = {} /\ failed = {} /\ ready = {}
    /\ users = [v \in Visits |-> 0] /\ seq = [v \in Visits |-> 0] /\ created = 0
    /\ events = 0

-----------------------------------------------------------------------------
(* Buffers. *)

FullWith(s, q) == s \in Bounded /\ Len(q) >= Capacity
Full(s) == FullWith(s, items[s])

\* The tasks that wait for something to get from buffer s, or for room in it.
Idle(s) == {t \in Tasks : StageOf(t) = s /\ pc[t] = "idle"}
Blocked(s) == {t \in Tasks : StageOf(t) + 1 = s /\ pc[t] = "blocked"}

\* The tail of push(): the item is appended and the tasks of the stage wake up.
Put(s, v) ==
    LET q == Append(items[s], v) IN
    /\ items' = [items EXCEPT ![s] = q]
    /\ ev' = [ev EXCEPT ![s] = TRUE]
    /\ notFull' = [notFull EXCEPT ![s] = @ /\ ~FullWith(s, q)]

Wake(s, t) == IF t \in Idle(s) THEN "get" ELSE pc[t]

\* select_next_result: most users first, then the oldest; the default is FIFO.
Precedes(a, b) == users[a] > users[b] \/ (users[a] = users[b] /\ seq[a] < seq[b])
Picked(s) ==
    IF s \notin Prioritised THEN 1
    ELSE CHOOSE i \in DOMAIN items[s] :
            \A j \in DOMAIN items[s] : ~Precedes(items[s][j], items[s][i])

\* _Buf.get() finds nothing and waits.
GetNothing(t) ==
    LET s == StageOf(t) IN
    /\ pc[t] = "get" /\ items[s] = <<>>
    /\ ev' = [ev EXCEPT ![s] = FALSE]
    /\ pc' = [pc EXCEPT ![t] = "idle"]
    /\ UNCHANGED <<items, notFull, held, jobVars, events>>

\* Mutant: the tasks that wait for room are not woken.
TakeSilently(s, t) ==
    LET q == RemoveAt(items[s], Picked(s))
        wanted == s \in Checked => users[items[s][Picked(s)]] > 0
    IN
    /\ items' = [items EXCEPT ![s] = q]
    /\ ev' = [ev EXCEPT ![s] = @ /\ q # <<>>]
    /\ notFull' = [notFull EXCEPT ![s] = @ \/ ~FullWith(s, q)]
    /\ pc' = [pc EXCEPT ![t] = IF wanted THEN "work" ELSE "get"]

\* The rest of get() when there is something: the item leaves, and tasks that
\* wait for room wake up when the buffer was full.
Take(s, t) ==
    LET q == RemoveAt(items[s], Picked(s))
        roomNow == Full(s) /\ ~FullWith(s, q)
        wanted == s \in Checked => users[items[s][Picked(s)]] > 0
    IN
    /\ items' = [items EXCEPT ![s] = q]
    /\ ev' = [ev EXCEPT ![s] = @ /\ q # <<>>]
    /\ notFull' = [notFull EXCEPT ![s] = @ \/ roomNow]
    /\ pc' = [x \in Tasks |->
                 IF x = t THEN IF wanted THEN "work" ELSE "get"
                 ELSE IF roomNow /\ x \in Blocked(s) THEN "push" ELSE pc[x]]

\* A task gets a job, and its stage starts.
Get(t) ==
    LET s == StageOf(t)  v == items[s][Picked(s)] IN
    /\ pc[t] = "get" /\ items[s] # <<>>
    /\ s \in Checked => users[v] > 0
    /\ Take(s, t)
    /\ held' = [held EXCEPT ![t] = v]
    /\ UNCHANGED <<jobVars, events>>

\* _ensure_users_exist_for_job raises, and the job ends in error.
GetUnwanted(t) ==
    LET s == StageOf(t)  v == items[s][Picked(s)] IN
    /\ pc[t] = "get" /\ items[s] # <<>>
    /\ s \in Checked /\ users[v] <= 0
    /\ Take(s, t)
    /\ failed' = failed \union {v}
    /\ UNCHANGED <<held, jobs, users, seq, created, ready, events>>

\* The process of the stage returns, and its result is to be pushed on.
WorkEnds(t) ==
    /\ pc[t] = "work" /\ StageOf(t) < NumStages
    /\ pc' = [pc EXCEPT ![t] = "push"]
    /\ UNCHANGED <<items, ev, notFull, held, jobVars, events>>

\* finalize_success: the job leaves the dictionary and its row is ready.
JobEnds(t) ==
    LET v == held[t] IN
    /\ pc[t] = "work" /\ StageOf(t) = NumStages
    /\ jobs' = jobs \ {v} /\ ready' = ready \union {v}
    /\ pc' = [pc EXCEPT ![t] = "get"] /\ held' = [held EXCEPT ![t] = NoVisit]
    /\ UNCHANGED <<items, ev, notFull, users, seq, created, failed>>
    /\ UNCHANGED events

\* Mutant: the result of a stage that raised is pushed on.
WorkFailsAndGoesOn(t) ==
    /\ pc[t] = "work" /\ StageOf(t) \in Checked /\ events < MaxEvents
    /\ failed' = failed \union {held[t]} /\ events' = events + 1
    /\ pc' = [pc EXCEPT ![t] = IF StageOf(t) < NumStages THEN "push" ELSE "work"]
    /\ UNCHANGED <<items, ev, notFull, held, jobs, users, seq, created, ready>>

\* The stage raises or times out: _task logs it and gets the next job.
WorkFails(t) ==
    /\ pc[t] = "work" /\ StageOf(t) \in Checked /\ events < MaxEvents
    /\ failed' = failed \union {held[t]} /\ events' = events + 1
    /\ pc' = [pc EXCEPT ![t] = "get"] /\ held' = [held EXCEPT ![t] = NoVisit]
    /\ UNCHANGED <<items, ev, notFull, jobs, users, seq, created, ready>>

\* push() into a buffer with room.
Push(t) ==
    LET s == StageOf(t) + 1 IN
    /\ pc[t] = "push" /\ ~Full(s)
    /\ Put(s, held[t])
    /\ pc' = [x \in Tasks |-> IF x = t THEN "get" ELSE Wake(s, x)]
    /\ held' = [held EXCEPT ![t] = NoVisit]
    /\ UNCHANGED <<jobVars, events>>

\* push() into a full buffer waits.  (Were _not_full_ev set, wait() would return
\* at once and the loop would never let another task run.)
PushWaits(t) ==
    LET s == StageOf(t) + 1 IN
    /\ pc[t] = "push" /\ Full(s) /\ ~notFull[s]
    /\ pc' = [pc EXCEPT ![t] = "blocked"]
    /\ UNCHANGED <<items, ev, notFull, held, jobVars, events>>

-----------------------------------------------------------------------------
(* The dictionary of jobs. *)

\* 5 s after the error.
Forget(v) ==
    /\ v \in failed
    /\ jobs' = jobs \ {v} /\ failed' = failed \ {v}
    /\ UNCHANGED <<users, seq, created, ready, bufferVars, events>>

\* POST /quicklooks: a job, unless there is one or the visit is ready.
Create(v) ==
    /\ v \notin jobs \union ready
    /\ jobs' = jobs \union {v}
    /\ users' = [users EXCEPT ![v] = 1]
    /\ created' = created + 1 /\ seq' = [seq EXCEPT ![v] = created]
    /\ Put(1, v) /\ pc' = [t \in Tasks |-> Wake(1, t)]
    /\ UNCHANGED <<held, failed, ready, events>>

\* route_vote_quicklook and route_unvote_quicklook
Vote(v) ==
    /\ v \in jobs /\ events < MaxEvents /\ events' = events + 1
    /\ \/ users' = [users EXCEPT ![v] = @ + 1]
       \/ users[v] > 0 /\ users' = [users EXCEPT ![v] = @ - 1]
    /\ UNCHANGED <<bufferVars, jobs, seq, created, failed, ready>>

TaskStep(t) ==
    \/ GetNothing(t) \/ Get(t) \/ GetUnwanted(t)
    \/ WorkEnds(t) \/ JobEnds(t) \/ WorkFails(t)
    \/ Push(t) \/ PushWaits(t)

Next ==
    \/ \E t \in Tasks : TaskStep(t)
    \/ \E v \in Visits : Create(v) \/ Vote(v) \/ Forget(v)

\* The event loop runs every task that can run, and a stage has a timeout.
Fairness == \A t \in Tasks : WF_vars(TaskStep(t))
Spec == Init /\ [][Next]_vars /\ Fairness

-----------------------------------------------------------------------------
(* Properties. *)

\* A bounded buffer never holds more than its capacity, however many tasks were
\* woken by the same free place (_Buf.push, the while around the wait).
BufferBounded == \A s \in Bounded : Len(items[s]) <= Capacity

\* No wake-up is lost: a task waits for an item only while its buffer is empty,
\* and for room only while the next buffer is full; and a full buffer is never
\* taken for one with room, which would spin the event loop (_Buf, both events).
NobodyWaitsInVain ==
    /\ \A t \in Tasks : pc[t] = "idle" => items[StageOf(t)] = <<>>
    /\ \A t \in Tasks : pc[t] = "blocked" => Full(StageOf(t) + 1)
    /\ \A s \in Stages : Full(s) <=> ~notFull[s]

\* The state has its types, and a buffer neither overflows nor lets a task sleep.
QueueInv == TypeOK /\ BufferBounded /\ NobodyWaitsInVain

\* The places of the pipeline that a job is in: tasks, and places of the buffers.
Holders(v) == {t \in Tasks : held[t] = v}
Queuings(v) == {p \in UNION {{s} \X DOMAIN items[s] : s \in Stages} : items[p[1]][p[2]] = v}
Occurrences(v) == Cardinality(Holders(v)) + Cardinality(Queuings(v))

\* A job of the dictionary that has not raised is in exactly one place of the
\* pipeline, and a job that raised is in none: no stage loses a job, hands it on
\* twice or goes on with one that its viewers were told has failed.
JobIsInOnePlace ==
    \A v \in Visits : Occurrences(v) = IF v \in jobs \ failed THEN 1 ELSE 0

\* Every job leaves the pipeline: it becomes ready or fails.
JobsLeave == \A v \in Visits : (v \in jobs \ failed) ~> (v \notin jobs \/ v \in failed)
=============================================================================
