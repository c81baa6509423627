---------------------------- MODULE CommRegistry ----------------------------
(***************************************************************************)
(* Who works for whom (comm/coordinator.py, comm/generator.py,             *)
(* frontend/comm.py).  Generators register again and again; the            *)
(* coordinator checks those it has registered and forgets the ones that    *)
(* fail; generators and frontends end when they meet another coordinator   *)
(* than the one they know.                                                 *)
(*                                                                         *)
(* A coordinator's id is the number of its start.  Ids of generators are   *)
(* drawn when a process starts, so a process that ended never comes back.  *)
(* A request belongs to a connection: it ends with the coordinator.        *)
(* Frontends do not fail here, because nobody keeps a list of them.        *)
(* What a coordinator's jobs have a generator do may outlive the           *)
(* coordinator: a call's function runs to its end in its own process.      *)
(***************************************************************************)
EXTENDS Naturals

CONSTANTS
    Generators, Frontends,
    MaxRestarts,   \* bound: crashes and shutdowns of the coordinator
    MaxFaults      \* bound: timeouts, network errors and crashes of the others

Peers == Generators \union Frontends

ASSUME PeersAssumption == Generators \intersect Frontends = {}
ASSUME BoundsAssumption == MaxRestarts \in Nat /\ MaxFaults \in Nat

VARIABLES   \* of the coordinator
    coordinator,  \* "up", "stopping" (POST /comm/shutdown) or "down"
    id,           \* _coordinator_id
    registry,     \* _available_generators
    checks,       \* of the heartbeat: "none", "asked", "ok" or "failed"
    kills,        \* kill_generator: "none", "posting" or "posted"
    registrations,     \* POST /comm/register, not handled yet
    workers       \* the generators that its jobs know, whether still registered or not

VARIABLES   \* of the peers
    process,      \* "running", "stopping" (graceful_shutdown) or "gone"
    known,        \* the peer's _coordinator_id
    answer,       \* the coordinator that answered, while the answer is on its way
    serving       \* per generator: the coordinators whose calls it has not ended

\* History variable: the coordinators whose answer the generator gave up before it
\* knew any.  No action reads it.
VARIABLE unheard

VARIABLES restarts, faults   \* so far

coordinatorVars == <<coordinator, id, registry, checks, kills, registrations, workers>>
peerVars == <<process, known, answer, serving, unheard>>
vars == <<coordinatorVars, peerVars, restarts, faults>>

NoId == 0
Up == coordinator \in {"up", "stopping"}

AwaitedOf(g) == {r \in registrations : r.from = g /\ r.awaited}
Waiting(p) == answer[p] # NoId \/ AwaitedOf(p) # {}

Init ==
    /\ coordinator = "up" /\ id = 1
    /\ registry = {} /\ registrations = {} /\ workers = {}
    /\ checks = [g \in Generators |-> "none"]
    /\ kills = [g \in Generators |-> "none"]
    /\ process = [p \in Peers |-> "running"]
    /\ known = [p \in Peers |-> NoId]
    /\ answer = [p \in Peers |-> NoId]
    /\ serving = [g \in Generators |-> {}]
    /\ unheard = [g \in Generators |-> {}]
    /\ restarts = 0 /\ faults = 0

Fault == faults < MaxFaults /\ faults' = faults + 1
NoFault == UNCHANGED faults

-----------------------------------------------------------------------------
(* Generators register, frontends ask for the id.                          *)

\* One round of _registration_loop.  Without a coordinator it tries again later.
Ask(g) ==
    /\ process[g] = "running" /\ Up /\ ~Waiting(g)
    /\ registrations' = registrations
          \union {[from |-> g, asks |-> known[g], awaited |-> TRUE]}
    /\ UNCHANGED <<coordinator, id, registry, checks, kills, workers, peerVars, restarts,
                   faults>>

\* Mutant: the coordinator does not look at the id it is asked for.
HandleAnyId(r) ==
    /\ Up /\ r \in registrations
    /\ registrations' = registrations \ {r}
    /\ registry' = registry \union {r.from}
    /\ answer' = IF r.awaited THEN [answer EXCEPT ![r.from] = id] ELSE answer
    /\ UNCHANGED <<coordinator, id, checks, kills, workers, process, known, serving,
                   unheard, restarts, faults>>

\* The coordinator does not know whether the generator still waits, or lives.  An
\* answer 409 and one with another id mean the same to the generator.
Handle(r) ==
    /\ Up /\ r \in registrations
    /\ registrations' = registrations \ {r}
    /\ registry' = IF r.asks \in {NoId, id} THEN registry \union {r.from} ELSE registry
    /\ answer' = IF r.awaited THEN [answer EXCEPT ![r.from] = id] ELSE answer
    /\ UNCHANGED <<coordinator, id, checks, kills, workers, process, known, serving,
                   unheard, restarts, faults>>

Fetch(f) ==
    /\ process[f] = "running" /\ Up /\ ~Waiting(f)
    /\ answer' = [answer EXCEPT ![f] = id]
    /\ UNCHANGED <<coordinatorVars, process, known, serving, unheard, restarts, faults>>

\* Mutant: the peer follows a new coordinator.
GetAnswerFollows(p) ==
    /\ process[p] # "gone" /\ answer[p] # NoId
    /\ answer' = [answer EXCEPT ![p] = NoId]
    /\ known' = [known EXCEPT ![p] = IF @ = NoId THEN answer[p] ELSE @]
    /\ UNCHANGED <<coordinatorVars, process, serving, unheard, restarts, faults>>

\* The first answer is adopted; another id means that the coordinator restarted.
GetAnswer(p) ==
    /\ process[p] # "gone" /\ answer[p] # NoId
    /\ answer' = [answer EXCEPT ![p] = NoId]
    /\ IF known[p] = NoId
       THEN known' = [known EXCEPT ![p] = answer[p]] /\ UNCHANGED process
       ELSE /\ process' = IF answer[p] # known[p]
                          THEN [process EXCEPT ![p] = "stopping"] ELSE process
            /\ UNCHANGED known
    /\ UNCHANGED <<coordinatorVars, serving, unheard, restarts, faults>>

\* The client's timeout.  The coordinator handles the request all the same.
GiveUp(g) ==
    /\ process[g] = "running" /\ Waiting(g)
    /\ Fault
    /\ registrations' = {IF r \in AwaitedOf(g) THEN [r EXCEPT !.awaited = FALSE] ELSE r :
                            r \in registrations}
    /\ answer' = [answer EXCEPT ![g] = NoId]
    /\ unheard' = IF known[g] = NoId
                  THEN [unheard EXCEPT ![g] = @ \union
                           {IF answer[g] = NoId THEN id ELSE answer[g]}]
                  ELSE unheard
    /\ UNCHANGED <<coordinator, id, registry, checks, kills, workers, process, known,
                   serving, restarts>>

\* A process takes with it what it was doing.
Gone(g) == serving' = [h \in Generators |-> IF h = g THEN {} ELSE serving[h]]

Exit(p) ==
    /\ process[p] = "stopping"
    /\ process' = [process EXCEPT ![p] = "gone"]
    /\ Gone(p)
    /\ UNCHANGED <<coordinatorVars, known, answer, unheard, restarts, faults>>

\* A crash, or an error that _is_fatal_registration_error takes for fatal.
ProcessFails(g) ==
    /\ process[g] = "running"
    /\ Fault
    /\ \/ process' = [process EXCEPT ![g] = "gone"] /\ Gone(g)
       \/ process' = [process EXCEPT ![g] = "stopping"] /\ UNCHANGED serving
    /\ UNCHANGED <<coordinatorVars, known, answer, unheard, restarts>>

-----------------------------------------------------------------------------
(* What the coordinator's jobs have the generators do.                     *)

\* A job meets a generator in the registry.  It keeps it when the registry forgets it.
JobTakes(g) ==
    /\ Up /\ g \in registry
    /\ workers' = workers \union {g}
    /\ UNCHANGED <<coordinator, id, registry, checks, kills, registrations, peerVars,
                   restarts, faults>>

\* A session, or a call of an RPC function.
JobCalls(g) ==
    /\ Up /\ g \in workers /\ process[g] # "gone"
    /\ serving' = [serving EXCEPT ![g] = @ \union {id}]
    /\ UNCHANGED <<coordinatorVars, process, known, answer, unheard, restarts, faults>>

\* All that coordinator c had g do has come to its end, maybe long after c itself.
WorkEnds(g, c) ==
    /\ c \in serving[g]
    /\ serving' = [serving EXCEPT ![g] = @ \ {c}]
    /\ UNCHANGED <<coordinatorVars, process, known, answer, unheard, restarts, faults>>

-----------------------------------------------------------------------------
(* _heartbeat_check.                                                       *)

HeartbeatStarts ==
    /\ Up /\ registry # {}
    /\ \A g \in Generators : checks[g] = "none"
    /\ checks' = [g \in Generators |-> IF g \in registry THEN "asked" ELSE "none"]
    /\ UNCHANGED <<coordinator, id, registry, kills, registrations, workers, peerVars,
                   restarts, faults>>

\* A generator that is stopping may answer or not.
Check(g) ==
    /\ checks[g] = "asked"
    /\ \/ process[g] # "gone" /\ NoFault /\ checks' = [checks EXCEPT ![g] = "ok"]
       \/ /\ IF process[g] = "running" THEN Fault ELSE NoFault
          /\ checks' = [checks EXCEPT ![g] = "failed"]
    /\ UNCHANGED <<coordinator, id, registry, kills, registrations, workers, peerVars,
                   restarts>>

\* After all of them answered.  A generator that was killed meanwhile, and has
\* registered again, goes too.
HeartbeatEnds ==
    /\ \A g \in Generators : checks[g] # "asked"
    /\ \E g \in Generators : checks[g] # "none"
    /\ registry' = {g \in registry : checks[g] # "failed"}
    /\ checks' = [g \in Generators |-> "none"]
    /\ UNCHANGED <<coordinator, id, kills, registrations, workers, peerVars, restarts,
                   faults>>

-----------------------------------------------------------------------------
(* The coordinator's life.                                                 *)

\* shutdown_all_generators kills those that are registered now.
Shutdown ==
    /\ coordinator = "up" /\ restarts < MaxRestarts
    /\ restarts' = restarts + 1
    /\ coordinator' = "stopping"
    /\ kills' = [g \in Generators |-> IF g \in registry THEN "posting" ELSE "none"]
    /\ UNCHANGED <<id, registry, checks, registrations, workers, peerVars, faults>>

\* The request to shut down arrives, or fails, which is only logged.
Post(g) ==
    /\ kills[g] = "posting"
    /\ kills' = [kills EXCEPT ![g] = "posted"]
    /\ \/ /\ process' = [process EXCEPT ![g] = IF @ = "running" THEN "stopping" ELSE @]
          /\ NoFault
       \/ Fault /\ UNCHANGED process
    /\ UNCHANGED <<coordinator, id, registry, checks, registrations, workers, known, answer,
                   serving, unheard, restarts>>

RemoveGenerator(g) ==
    /\ kills[g] = "posted"
    /\ kills' = [kills EXCEPT ![g] = "none"]
    /\ registry' = registry \ {g}
    /\ UNCHANGED <<coordinator, id, checks, registrations, workers, peerVars, restarts,
                   faults>>

\* What the process has in memory, and its connections, are gone.
GoDown ==
    /\ coordinator' = "down"
    /\ registry' = {} /\ registrations' = {} /\ workers' = {}
    /\ checks' = [g \in Generators |-> "none"]
    /\ kills' = [g \in Generators |-> "none"]
    /\ UNCHANGED <<id, peerVars, faults>>

ShutdownEnds ==
    /\ coordinator = "stopping"
    /\ \A g \in Generators : kills[g] = "none"
    /\ GoDown
    /\ UNCHANGED restarts

Crash ==
    /\ Up /\ restarts < MaxRestarts
    /\ restarts' = restarts + 1
    /\ GoDown

RestartCoordinator ==
    /\ coordinator = "down"
    /\ coordinator' = "up"
    /\ id' = id + 1
    /\ UNCHANGED <<registry, checks, kills, registrations, workers, peerVars, restarts,
                   faults>>

HandleOf(g) == \E r \in registrations : r.from = g /\ Handle(r)

Next ==
    \/ \E g \in Generators :
         \/ Ask(g) \/ HandleOf(g) \/ GiveUp(g) \/ ProcessFails(g)
         \/ Check(g) \/ Post(g) \/ RemoveGenerator(g)
         \/ JobTakes(g) \/ JobCalls(g) \/ \E c \in serving[g] : WorkEnds(g, c)
    \/ \E f \in Frontends : Fetch(f)
    \/ \E p \in Peers : GetAnswer(p) \/ Exit(p)
    \/ HeartbeatStarts \/ HeartbeatEnds
    \/ Shutdown \/ ShutdownEnds \/ Crash \/ RestartCoordinator

Spec == Init /\ [][Next]_vars

\* The loops of all processes run, and the coordinator's pod is restarted.  Nothing
\* says that a job calls, or that what it called comes to an end.
Fairness ==
    /\ \A g \in Generators :
         /\ WF_vars(Ask(g)) /\ WF_vars(HandleOf(g))
         /\ WF_vars(Check(g)) /\ WF_vars(Post(g)) /\ WF_vars(RemoveGenerator(g))
    /\ \A f \in Frontends : WF_vars(Fetch(f))
    /\ \A p \in Peers : WF_vars(GetAnswer(p)) /\ WF_vars(Exit(p))
    /\ WF_vars(HeartbeatStarts) /\ WF_vars(HeartbeatEnds)
    /\ WF_vars(ShutdownEnds) /\ WF_vars(RestartCoordinator)

FairSpec == Spec /\ Fairness

-----------------------------------------------------------------------------
Registrations == [from : Generators, asks : Nat, awaited : BOOLEAN]

\* A generator waits for one answer at a time, and no coordinator is known before
\* its start.
TypeOK ==
    /\ coordinator \in {"up", "stopping", "down"}
    /\ id \in Nat \ {NoId}
    /\ registry \subseteq Generators
    /\ checks \in [Generators -> {"none", "asked", "ok", "failed"}]
    /\ kills \in [Generators -> {"none", "posting", "posted"}]
    /\ registrations \subseteq Registrations
    /\ process \in [Peers -> {"running", "stopping", "gone"}]
    /\ known \in [Peers -> 0..id] /\ answer \in [Peers -> 0..id]
    /\ workers \subseteq Generators
    /\ serving \in [Generators -> SUBSET (1..id)]
    /\ unheard \in [Generators -> SUBSET (1..id)]
    /\ \A r \in registrations : r.awaited =>
         /\ answer[r.from] = NoId
         /\ \A s \in registrations : s.awaited /\ s.from = r.from => s = r
    /\ restarts \in 0..MaxRestarts /\ faults \in 0..MaxFaults

\* A generator that is registered knows no other coordinator, and all it still does
\* is for the one that registered it.  This holds although a request may be handled
\* when its sender has given it up, an answer may arrive when the coordinator has
\* restarted, and a job may call a generator that the registry has forgotten.
\* There is one way around it, and the code takes it: a generator whose first answer
\* was lost knows no coordinator, so the next one registers it with whatever the
\* earlier one has it do.
SameCoordinator == \A g \in registry :
    /\ known[g] \in {NoId, id}
    /\ serving[g] \subseteq {id} \union unheard[g]

\* What the run checks of the registry: the types, and the property.
RegistryInv == TypeOK /\ SameCoordinator

\* A process that ended leaves the registry for good, although a registration of
\* its may be handled later.
DeadIsRemoved == \A g \in Generators : process[g] = "gone" ~> [](g \notin registry)

\* After faults and restarts everything settles: a process that is neither ended
\* nor about to end knows the coordinator, and is registered if it is a generator.
Settles == \A p \in Peers : <>[](
    process[p] = "running" => known[p] = id /\ (p \in Generators => p \in registry))

\* The registry comes to agree with the processes, those that run and those that
\* have ended.
EverythingSettles == Settles /\ DeadIsRemoved
=============================================================================
