--------------------------- MODULE ServicesProofs ---------------------------
(***************************************************************************)
(* Proofs about what surrounds the jobs: the registry, housekeeping, the   *)
(* votes of the users and the versions of the cache of the coordinator,    *)
(* the tokens, the requests and the bundles of the deploy broker, the      *)
(* memories of resolved visits, and the options of the query form; each    *)
(* for all values of the constants of its module.                          *)
(***************************************************************************)
EXTENDS CommRegistry, Housekeeping, JobVotes, CacheVersions, BrokerTokens, DeployBroker,
        VisitResolution, QueryOptions, DirtyWorktree, SequenceTheorems, FiniteSetTheorems,
        FunctionTheorems, WellFoundedInduction, TLAPS

-----------------------------------------------------------------------------
(* The registry of generators and frontends. *)

\* Type correctness of every reachable state.
THEOREM TypeCorrect == Spec => []TypeOK
<1> USE PeersAssumption, BoundsAssumption DEF Peers, NoId, Registrations
<1>1. Init => TypeOK
  BY DEF Init, TypeOK
<1>2. TypeOK /\ [Next]_vars => TypeOK'
  <2> SUFFICES ASSUME TypeOK, [Next]_vars
               PROVE  TypeOK'
    OBVIOUS
  <2> USE DEF TypeOK
  <2>1. ASSUME NEW g \in Generators, Ask(g)
        PROVE  TypeOK'
    <3> DEFINE new == [from |-> g, asks |-> known[g], awaited |-> TRUE]
    <3>1. known[g] \in Nat /\ answer[g] = NoId
      BY <2>1 DEF Ask, Waiting
    <3>2. registrations' = registrations \union {new} /\ new \in Registrations
      BY <2>1, <3>1 DEF Ask
    <3>3. \A r \in registrations : r.awaited => r.from # g
      BY <2>1 DEF Ask, Waiting, AwaitedOf
    <3>4. new.from = g
      OBVIOUS
    <3> HIDE DEF new
    <3>5. \A r \in registrations' : r.awaited =>
            answer[r.from] = NoId /\ \A s \in registrations' : s.awaited /\ s.from = r.from => s = r
      BY <3>1, <3>2, <3>3, <3>4
    <3> QED
      BY <2>1, <3>2, <3>5 DEF Ask, peerVars
  <2>2. ASSUME NEW g \in Generators, HandleOf(g)
        PROVE  TypeOK'
    <3>1. PICK r \in registrations : r.from = g /\ Handle(r)
      BY <2>2 DEF HandleOf
    <3>2. registrations' \subseteq registrations /\ registry' \subseteq Generators
      BY <3>1 DEF Handle
    <3>3. answer' \in [Peers -> 0..id]
      BY <3>1 DEF Handle
    <3>4. \A s \in registrations' : s.awaited => answer'[s.from] = NoId
      BY <3>1 DEF Handle
    <3> QED
      BY <3>1, <3>2, <3>3, <3>4 DEF Handle
  <2>3. ASSUME NEW g \in Generators, Check(g)
        PROVE  TypeOK'
    BY <2>3 DEF Check, Fault, NoFault, peerVars
  <2>4. ASSUME NEW g \in Generators, Post(g) \/ RemoveGenerator(g)
        PROVE  TypeOK'
    BY <2>4 DEF Post, RemoveGenerator, Fault, NoFault, peerVars
  <2>5. ASSUME NEW f \in Frontends, Fetch(f)
        PROVE  TypeOK'
    BY <2>5 DEF Fetch, coordinatorVars
  <2>6. ASSUME NEW p \in Peers, GetAnswer(p) \/ Exit(p)
        PROVE  TypeOK'
    <3>1. CASE GetAnswer(p)
      <4>1. answer' \in [Peers -> 0..id] /\ \A q \in Peers : answer[q] = NoId => answer'[q] = NoId
        BY <3>1 DEF GetAnswer
      <4>2. known' \in [Peers -> 0..id] /\ process' \in [Peers -> {"running", "stopping", "gone"}]
        BY <3>1 DEF GetAnswer
      <4>3. \A r \in registrations : r.from \in Peers
        OBVIOUS
      <4> QED
        BY <3>1, <4>1, <4>2, <4>3 DEF GetAnswer, coordinatorVars
    <3>2. CASE Exit(p)
      BY <3>2 DEF Exit, Gone, coordinatorVars
    <3> QED
      BY <2>6, <3>1, <3>2
  <2>7. ASSUME NEW g \in Generators, GiveUp(g)
        PROVE  TypeOK'
    <3>1. registrations' \subseteq Registrations
      <4>1. registrations' = {IF r \in AwaitedOf(g) THEN [r EXCEPT !.awaited = FALSE] ELSE r :
                                 r \in registrations}
        BY <2>7 DEF GiveUp
      <4> SUFFICES ASSUME NEW r \in registrations
                   PROVE  r \in Registrations /\ [r EXCEPT !.awaited = FALSE] \in Registrations
        BY <4>1
      <4> QED
        OBVIOUS
    <3>2. \A r \in registrations' : r.awaited => r \in registrations /\ r.from # g
      BY <2>7 DEF GiveUp, AwaitedOf
    <3>3. answer' = [answer EXCEPT ![g] = NoId] /\ answer' \in [Peers -> 0..id]
      BY <2>7 DEF GiveUp
    <3>4. \A r \in registrations' : r.awaited =>
            /\ answer'[r.from] = NoId
            /\ \A s \in registrations' : s.awaited /\ s.from = r.from => s = r
      BY <3>2, <3>3
    <3>5. unheard' \in [Generators -> SUBSET (1..id)]
      BY <2>7 DEF GiveUp
    <3> QED
      BY <2>7, <3>1, <3>3, <3>4, <3>5 DEF GiveUp, Fault
  <2>8. ASSUME NEW g \in Generators, ProcessFails(g)
        PROVE  TypeOK'
    BY <2>8 DEF ProcessFails, Gone, Fault, coordinatorVars
  <2>9. CASE HeartbeatStarts \/ HeartbeatEnds
    BY <2>9 DEF HeartbeatStarts, HeartbeatEnds, peerVars
  <2>10. CASE Shutdown \/ ShutdownEnds \/ Crash \/ RestartCoordinator
    BY <2>10 DEF Shutdown, ShutdownEnds, Crash, RestartCoordinator, GoDown, peerVars
  <2>11. CASE UNCHANGED vars
    BY <2>11 DEF vars, coordinatorVars, peerVars
  <2>12. ASSUME NEW g \in Generators, JobTakes(g) \/ JobCalls(g)
         PROVE  TypeOK'
    BY <2>12 DEF JobTakes, JobCalls, coordinatorVars, peerVars
  <2>13. ASSUME NEW g \in Generators, NEW c \in serving[g], WorkEnds(g, c)
         PROVE  TypeOK'
    BY <2>13 DEF WorkEnds, coordinatorVars
  <2> HIDE DEF TypeOK, Peers, NoId, Registrations
  <2> QED
    BY <2>1, <2>2, <2>3, <2>4, <2>5, <2>6, <2>7, <2>8, <2>9, <2>10, <2>11, <2>12, <2>13
       DEF Next
<1> QED
  BY <1>1, <1>2, PTL DEF Spec

\* What is on its way between a generator and the coordinator was sent in the
\* coordinator's life: answers, registrations, and what a request says its sender knows.
Current(g) == known[g] \in {NoId, id}

\* Who is registered, is answered or is about to be knows no coordinator but this one.
Fresh ==
    /\ coordinator = "down" => registry = {} /\ registrations = {}
    /\ \A g \in registry : Current(g) /\ answer[g] \in {NoId, id}
    /\ \A r \in registrations :
         /\ answer[r.from] \in {NoId, id}
         /\ r.asks \in {NoId, id} => Current(r.from)

\* SameCoordinator is not inductive: an answer or a request that is on its way
\* could make a registered generator know another coordinator, or register one
\* that does.  Fresh says why there is none: the connections to a coordinator end
\* with it, and a generator asks only when no answer is on its way.
LEMMA FreshInvariant == Spec => []Fresh
<1> USE PeersAssumption, BoundsAssumption DEF Peers, NoId, Registrations, Current
<1>1. Init => Fresh
  BY DEF Init, Fresh
<1>2. TypeOK /\ Fresh /\ [Next]_vars => Fresh'
  <2> SUFFICES ASSUME TypeOK, Fresh, [Next]_vars
               PROVE  Fresh'
    OBVIOUS
  <2> USE DEF TypeOK, Fresh
  <2>1. ASSUME NEW g \in Generators, Ask(g)
        PROVE  Fresh'
    <3> DEFINE new == [from |-> g, asks |-> known[g], awaited |-> TRUE]
    <3>1. registrations' = registrations \union {new} /\ answer[g] = NoId
      BY <2>1 DEF Ask, Waiting
    <3>2. new.from = g /\ new.asks = known[g]
      OBVIOUS
    <3>3. UNCHANGED <<registry, known, answer, id, coordinator>> /\ coordinator # "down"
      BY <2>1 DEF Ask, Up, peerVars
    <3> HIDE DEF new
    <3> QED
      BY <3>1, <3>2, <3>3
  <2>2. ASSUME NEW g \in Generators, HandleOf(g)
        PROVE  Fresh'
    <3>1. PICK r \in registrations : r.from = g /\ Handle(r)
      BY <2>2 DEF HandleOf
    <3>2. /\ UNCHANGED <<known, id, coordinator>> /\ coordinator # "down"
          /\ registrations' \subseteq registrations
      BY <3>1 DEF Handle, Up
    <3>3. \A p \in Peers : answer[p] \in {NoId, id} => answer'[p] \in {NoId, id}
      BY <3>1 DEF Handle
    <3>4. \A p \in registry' : Current(p) /\ answer[p] \in {NoId, id}
      BY <3>1 DEF Handle
    <3> QED
      BY <3>2, <3>3, <3>4, <3>1 DEF Handle
  <2>3. ASSUME NEW g \in Generators, Check(g)
        PROVE  Fresh'
    BY <2>3 DEF Check, peerVars
  <2>4. ASSUME NEW g \in Generators, Post(g) \/ RemoveGenerator(g)
        PROVE  Fresh'
    BY <2>4 DEF Post, RemoveGenerator, peerVars
  <2>5. ASSUME NEW f \in Frontends, Fetch(f)
        PROVE  Fresh'
    BY <2>5 DEF Fetch, coordinatorVars
  <2>6. ASSUME NEW p \in Peers, GetAnswer(p) \/ Exit(p)
        PROVE  Fresh'
    BY <2>6 DEF GetAnswer, Exit, coordinatorVars
  <2>7. ASSUME NEW g \in Generators, GiveUp(g)
        PROVE  Fresh'
    <3>1. \A r \in registrations' : \E s \in registrations : r.from = s.from /\ r.asks = s.asks
      BY <2>7 DEF GiveUp, AwaitedOf
    <3>2. UNCHANGED <<registry, known, id,
                      coordinator>> /\ answer' = [answer EXCEPT ![g] = NoId]
      BY <2>7 DEF GiveUp
    <3> QED
      BY <3>1, <3>2
  <2>8. ASSUME NEW g \in Generators, ProcessFails(g)
        PROVE  Fresh'
    BY <2>8 DEF ProcessFails, coordinatorVars
  <2>9. CASE HeartbeatStarts \/ HeartbeatEnds
    BY <2>9 DEF HeartbeatStarts, HeartbeatEnds, peerVars
  <2>10. CASE Shutdown
    BY <2>10 DEF Shutdown, peerVars
  <2>11. CASE ShutdownEnds \/ Crash
    BY <2>11 DEF ShutdownEnds, Crash, GoDown, peerVars
  <2>12. CASE RestartCoordinator
    BY <2>12 DEF RestartCoordinator, peerVars
  <2>13. CASE UNCHANGED vars
    BY <2>13 DEF vars, coordinatorVars, peerVars
  <2>14. ASSUME NEW g \in Generators, JobTakes(g) \/ JobCalls(g)
         PROVE  Fresh'
    BY <2>14 DEF JobTakes, JobCalls, coordinatorVars, peerVars
  <2>15. ASSUME NEW g \in Generators, NEW c \in serving[g], WorkEnds(g, c)
         PROVE  Fresh'
    BY <2>15 DEF WorkEnds, coordinatorVars
  <2> HIDE DEF TypeOK, Fresh, Peers, NoId, Registrations, Current
  <2> QED
    BY <2>1, <2>2, <2>3, <2>4, <2>5, <2>6, <2>7, <2>8, <2>9, <2>10, <2>11, <2>12, <2>13,
       <2>14, <2>15 DEF Next
<1> QED
  BY <1>1, <1>2, TypeCorrect, PTL DEF Spec

\* Generator g knows coordinator c, or is about to, or has given up c's first answer.
Heard(g, c) ==
    \/ known[g] = c
    \/ known[g] = NoId /\ answer[g] = c
    \/ c \in unheard[g]

\* Whoever has a generator do something, or may begin to, is a coordinator that the
\* generator has heard of; so is the one that a request given up may yet reach.
Served ==
    /\ coordinator = "down" => workers = {}
    /\ \A g \in Generators : \A c \in serving[g] : Heard(g, c)
    /\ \A g \in registry \union workers : Heard(g, id)
    /\ \A r \in registrations : ~r.awaited => known[r.from] # NoId \/ id \in unheard[r.from]

\* Fresh alone says only what a registered generator knows, not for whom it works:
\* its work must be traced to the registration that made a job know it.
LEMMA ServedInvariant == Spec => []Served
<1> USE PeersAssumption, BoundsAssumption DEF Peers, NoId, Registrations
<1>1. Init => Served
  BY DEF Init, Served
<1>2. TypeOK /\ Fresh /\ Served /\ [Next]_vars => Served'
  <2> SUFFICES ASSUME TypeOK, Fresh, Served, [Next]_vars
               PROVE  Served'
    OBVIOUS
  <2> USE DEF TypeOK
  <2>1. ASSUME UNCHANGED <<id, coordinator, registry, workers, registrations, known, answer,
                           unheard>>,
               \A g \in Generators : serving'[g] \subseteq serving[g]
        PROVE  Served'
    BY <2>1 DEF Served, Heard
  <2>2. ASSUME NEW g \in Generators, Ask(g)
        PROVE  Served'
    <3>1. \A r \in registrations' : ~r.awaited => r \in registrations
      BY <2>2 DEF Ask
    <3> QED
      BY <2>2, <3>1 DEF Ask, Served, Heard, peerVars
  <2>3. ASSUME NEW g \in Generators, HandleOf(g)
        PROVE  Served'
    <3>1. PICK r \in registrations : r.from = g /\ Handle(r)
      BY <2>3 DEF HandleOf
    <3>2. /\ UNCHANGED <<id, coordinator, workers, serving, known, unheard>>
          /\ registrations' \subseteq registrations
      BY <3>1 DEF Handle
    <3>3. ASSUME NEW h \in Generators, NEW c \in 1..id, Heard(h, c)
          PROVE  Heard(h, c)'
      <4>1. answer'[h] = answer[h] \/ answer[h] = NoId
        BY <3>1 DEF Handle
      <4> QED
        BY <3>2, <3>3, <4>1 DEF Heard
    <3>4. g \in registry' => g \in registry \/ Heard(g, id)'
      <4>1. SUFFICES ASSUME g \notin registry, g \in registry'
                     PROVE  Heard(g, id)'
        OBVIOUS
      <4>2. known[g] \in {NoId, id}
        BY <3>1, <4>1 DEF Handle, Fresh, Current
      <4>3. r.awaited => answer'[g] = id
        BY <3>1 DEF Handle
      <4>4. ~r.awaited => known[g] # NoId \/ id \in unheard[g]
        BY <3>1 DEF Served
      <4> QED
        BY <3>2, <4>2, <4>3, <4>4 DEF Heard
    <3>5. registry' \subseteq registry \union {g}
      BY <3>1 DEF Handle
    <3>6. \A h \in registry' \union workers' : Heard(h, id)'
      BY <3>2, <3>3, <3>4, <3>5 DEF Served
    <3>7. \A h \in Generators : \A c \in serving'[h] : Heard(h, c)'
      BY <3>2, <3>3 DEF Served
    <3> QED
      BY <3>2, <3>6, <3>7 DEF Served
  <2>4. ASSUME NEW g \in Generators, Check(g)
        PROVE  Served'
    BY <2>1, <2>4 DEF Check, peerVars
  <2>5. ASSUME NEW g \in Generators, Post(g) \/ RemoveGenerator(g)
        PROVE  Served'
    <3>1. CASE Post(g)
      BY <2>1, <3>1 DEF Post
    <3>2. CASE RemoveGenerator(g)
      BY <3>2 DEF RemoveGenerator, Served, Heard, peerVars
    <3> QED
      BY <2>5, <3>1, <3>2
  <2>6. ASSUME NEW f \in Frontends, Fetch(f)
        PROVE  Served'
    <3>1. \A g \in Generators : answer'[g] = answer[g]
      BY <2>6 DEF Fetch
    <3> QED
      BY <2>6, <3>1 DEF Fetch, Served, Heard, coordinatorVars
  <2>7. ASSUME NEW p \in Peers, GetAnswer(p)
        PROVE  Served'
    <3>1. UNCHANGED <<id, coordinator, registry, workers, registrations, serving, unheard>>
      BY <2>7 DEF GetAnswer, coordinatorVars
    <3>2. \A q \in Peers : \/ known'[q] = known[q] /\ (answer'[q] = answer[q] \/ known[q] # NoId)
                           \/ known[q] = NoId /\ known'[q] = answer[q]
      BY <2>7 DEF GetAnswer
    <3>3. ASSUME NEW h \in Generators, NEW c \in 1..id, Heard(h, c)
          PROVE  Heard(h, c)'
      BY <3>1, <3>2, <3>3 DEF Heard
    <3>4. \A h \in registry' \union workers' : Heard(h, id)'
      BY <3>1, <3>3 DEF Served
    <3>5. \A h \in Generators : \A c \in serving'[h] : Heard(h, c)'
      BY <3>1, <3>3 DEF Served
    <3>6. \A r \in registrations : r.from \in Peers
      OBVIOUS
    <3> QED
      BY <3>1, <3>2, <3>4, <3>5, <3>6 DEF Served
  <2>8. ASSUME NEW p \in Peers, Exit(p)
        PROVE  Served'
    BY <2>1, <2>8 DEF Exit, Gone, coordinatorVars
  <2>9. ASSUME NEW g \in Generators, GiveUp(g)
        PROVE  Served'
    <3>1. /\ UNCHANGED <<id, coordinator, registry, workers, serving, known>>
          /\ answer' = [answer EXCEPT ![g] = NoId]
      BY <2>9 DEF GiveUp
    <3>2. \A h \in Generators : unheard[h] \subseteq unheard'[h]
      BY <2>9 DEF GiveUp
    <3>3. known[g] = NoId /\ answer[g] # NoId => answer[g] \in unheard'[g]
      BY <2>9 DEF GiveUp
    <3>4. known[g] = NoId /\ answer[g] = NoId => id \in unheard'[g]
      BY <2>9 DEF GiveUp
    <3>5. ASSUME NEW h \in Generators, NEW c \in 1..id, Heard(h, c)
          PROVE  Heard(h, c)'
      BY <3>1, <3>2, <3>3, <3>5 DEF Heard
    <3>6. ASSUME NEW s \in registrations', ~s.awaited
          PROVE  known'[s.from] # NoId \/ id' \in unheard'[s.from]
      <4>1. CASE s \in registrations
        BY <3>1, <3>2, <3>6, <4>1 DEF Served
      <4>2. CASE s \notin registrations
        <5>1. s.from = g /\ \E r \in registrations : r.from = g /\ r.awaited
          BY <2>9, <4>2 DEF GiveUp, AwaitedOf
        <5>2. answer[g] = NoId
          BY <5>1
        <5> QED
          BY <3>1, <3>4, <5>1, <5>2
      <4> QED
        BY <4>1, <4>2
    <3>7. \A h \in registry' \union workers' : Heard(h, id)'
      BY <3>1, <3>5 DEF Served
    <3>8. \A h \in Generators : \A c \in serving'[h] : Heard(h, c)'
      BY <3>1, <3>5 DEF Served
    <3> QED
      BY <3>1, <3>6, <3>7, <3>8 DEF Served
  <2>10. ASSUME NEW g \in Generators, ProcessFails(g)
         PROVE  Served'
    BY <2>1, <2>10 DEF ProcessFails, Gone, coordinatorVars
  <2>11. ASSUME NEW g \in Generators, JobTakes(g)
         PROVE  Served'
    BY <2>11 DEF JobTakes, Up, Served, Heard, peerVars
  <2>12. ASSUME NEW g \in Generators, JobCalls(g)
         PROVE  Served'
    BY <2>12 DEF JobCalls, Served, Heard, coordinatorVars
  <2>13. ASSUME NEW g \in Generators, NEW c \in serving[g], WorkEnds(g, c)
         PROVE  Served'
    BY <2>1, <2>13 DEF WorkEnds, coordinatorVars
  <2>14. CASE HeartbeatStarts \/ HeartbeatEnds
    <3>1. CASE HeartbeatStarts
      BY <2>1, <3>1 DEF HeartbeatStarts, peerVars
    <3>2. CASE HeartbeatEnds
      BY <3>2 DEF HeartbeatEnds, Served, Heard, peerVars
    <3> QED
      BY <2>14, <3>1, <3>2
  <2>15. CASE Shutdown
    <3>1. coordinator # "down" /\ coordinator' # "down"
      BY <2>15 DEF Shutdown
    <3> QED
      BY <2>15, <3>1 DEF Shutdown, Served, Heard, peerVars
  <2>16. CASE ShutdownEnds \/ Crash
    BY <2>16 DEF ShutdownEnds, Crash, GoDown, Served, Heard, peerVars
  <2>17. CASE RestartCoordinator
    BY <2>17 DEF RestartCoordinator, Fresh, Served, Heard, peerVars
  <2>18. CASE UNCHANGED vars
    BY <2>1, <2>18 DEF vars, coordinatorVars, peerVars
  <2> QED
    BY <2>2, <2>3, <2>4, <2>5, <2>6, <2>7, <2>8, <2>9, <2>10, <2>11, <2>12, <2>13, <2>14,
       <2>15, <2>16, <2>17, <2>18 DEF Next
<1> QED
  BY <1>1, <1>2, TypeCorrect, FreshInvariant, PTL DEF Spec

\* A registered generator knows no coordinator but the one that registered it, and
\* works for no other, except for one whose first answer it has given up.
THEOREM RegisteredIsCurrent == Spec => []RegistryInv
<1>1. TypeOK /\ Fresh /\ Served => RegistryInv
  <2> SUFFICES ASSUME TypeOK, Fresh, Served, NEW g \in registry
               PROVE  known[g] \in {NoId, id} /\ serving[g] \subseteq {id} \union unheard[g]
    BY DEF SameCoordinator, RegistryInv
  <2>1. known[g] \in {NoId, id} /\ answer[g] \in {NoId, id}
    BY DEF Fresh, Current
  <2>2. ASSUME NEW c \in serving[g]
        PROVE  c \in {id} \union unheard[g]
    <3>1. Heard(g, c) /\ c # NoId
      BY DEF Served, TypeOK, NoId
    <3> QED
      BY <2>1, <3>1 DEF Heard
  <2> QED
    BY <2>1, <2>2
<1> QED
  BY <1>1, TypeCorrect, FreshInvariant, ServedInvariant, PTL

-----------------------------------------------------------------------------
(* Housekeeping. *)

\* What a set of visits counts for is finite.
LEMMA UnitsFinite ==
    ASSUME NEW S, IsFiniteSet(S), NEW f, \A v \in S : f[v] \in Nat
    PROVE  IsFiniteSet(Units(S, f)) /\ Cardinality(Units(S, f)) \in Nat
<1> DEFINE piece == [v \in S |-> {v} \X (1 .. f[v])]
           T == {piece[v] : v \in S}
<1>1. IsFiniteSet(T)
  <2>1. piece \in Surjection(S, T)
    BY DEF Surjection
  <2> HIDE DEF piece, T
  <2> QED
    BY <2>1, FS_Surjection
<1>2. \A P \in T : IsFiniteSet(P)
  <2> SUFFICES ASSUME NEW v \in S PROVE IsFiniteSet({v} \X (1 .. f[v]))
    OBVIOUS
  <2>1. IsFiniteSet(1 .. f[v])
    BY FS_Interval
  <2>2. IsFiniteSet({v})
    BY FS_Singleton
  <2> QED
    BY <2>1, <2>2, FS_Product
<1>3. Units(S, f) = UNION T
  BY DEF Units
<1>4. IsFiniteSet(Units(S, f))
  <2> HIDE DEF T
  <2> QED
    BY <1>1, <1>2, <1>3, FS_UNION
<1> QED
  BY <1>4, FS_CardinalityType

\* One visit less is what it counted for less.
LEMMA UnitsWithout ==
    ASSUME NEW S, IsFiniteSet(S), NEW f, \A v \in S : f[v] \in Nat, NEW v \in S
    PROVE  Cardinality(Units(S, f)) = Cardinality(Units(S \ {v}, f)) + f[v]
<1> DEFINE rest == Units(S \ {v}, f)
           own == {v} \X (1 .. f[v])
<1>1. Units(S, f) = rest \union own /\ rest \intersect own = {}
  BY DEF Units
<1>2. IsFiniteSet(own) /\ Cardinality(own) = f[v]
  <2>1. IsFiniteSet(1 .. f[v]) /\ Cardinality(1 .. f[v]) = f[v]
    BY FS_Interval
  <2>2. IsFiniteSet({v}) /\ Cardinality({v}) = 1
    BY FS_Singleton
  <2>3. IsFiniteSet(own) /\ Cardinality(own) = Cardinality({v}) * Cardinality(1 .. f[v])
    BY <2>1, <2>2, FS_Product
  <2> QED
    BY <2>1, <2>2, <2>3
<1>3. IsFiniteSet(rest) /\ Cardinality(rest) \in Nat
  <2>1. IsFiniteSet(S \ {v})
    BY FS_RemoveElement
  <2> QED
    BY <2>1, UnitsFinite
<1>4. Cardinality(rest \intersect own) = 0
  BY <1>1, FS_EmptySet
<1> HIDE DEF rest, own
<1>5. Cardinality(rest \union own) = Cardinality(rest) + Cardinality(own) - Cardinality(rest \intersect own)
  BY <1>2, <1>3, FS_Union
<1> QED
  BY <1>1, <1>2, <1>3, <1>4, <1>5 DEF rest

\* What counts the same in a larger set counts no less.
LEMMA UnitsUp ==
    ASSUME NEW S, NEW T, IsFiniteSet(T), S \subseteq T, NEW f, NEW g,
           \A v \in T : g[v] \in Nat, \A v \in S : g[v] = f[v]
    PROVE  /\ Cardinality(Units(S, f)) \in Nat /\ Cardinality(Units(T, g)) \in Nat
           /\ Cardinality(Units(S, f)) <= Cardinality(Units(T, g))
<1>1. IsFiniteSet(S) /\ \A v \in S : f[v] \in Nat
  BY FS_Subset
<1>2. Units(S, f) \subseteq Units(T, g)
  BY DEF Units
<1>3. IsFiniteSet(Units(T, g))
  BY UnitsFinite
<1> QED
  BY <1>1, <1>2, <1>3, UnitsFinite, FS_Subset

\* What counts the same in the same set counts the same.
LEMMA UnitsSame ==
    ASSUME NEW S, NEW f, NEW g, \A v \in S : g[v] = f[v]
    PROVE  Units(S, f) = Units(S, g)
BY DEF Units

\* A single visit counts for no more than all of them.
LEMMA UnitsOfOne ==
    ASSUME NEW S, IsFiniteSet(S), NEW f, \A v \in S : f[v] \in Nat, NEW v \in S
    PROVE  f[v] <= Cardinality(Units(S, f))
<1>1. IsFiniteSet(S \ {v})
  BY FS_RemoveElement
<1>2. Cardinality(Units(S \ {v}, f)) \in Nat
  BY <1>1, UnitsFinite
<1> QED
  BY <1>2, UnitsWithout

\* A set that is not empty has an element with the least number.
LEMMA LeastBy ==
    ASSUME NEW S, S # {}, NEW f, \A v \in S : f[v] \in Nat
    PROVE  \E v \in S : \A u \in S : f[v] <= f[u]
<1> DEFINE T == {f[v] : v \in S}
           R == OpToRel(<, Nat)
<1>1. PICK m \in T : \A y \in T : ~ (<<y, m>> \in R)
  <2>1. IsWellFoundedOn(R, Nat)
    BY NatLessThanWellFounded, Zenon
  <2>2. T \subseteq Nat /\ T # {}
    OBVIOUS
  <2> HIDE DEF R, T
  <2> QED
    BY <2>1, <2>2, WFMin
<1>2. PICK v \in S : f[v] = m
  OBVIOUS
<1>3. \A u \in S : <<f[u], f[v]>> \notin R
  BY <1>1, <1>2
<1>4. \A u \in S : ~ (f[u] < f[v])
  BY <1>3 DEF OpToRel
<1> QED
  BY <1>4

Stages == {"idle", "select", "mark", "objects", "row"}

\* The types.
UsageShapes ==
    /\ jobs \subseteq StoredVisits
    /\ row \in [StoredVisits -> {"none", "unready", "ready"}]
    /\ size \in [StoredVisits -> Sizes \union {0}]
    /\ born \in [StoredVisits -> Nat]
    /\ accesses \in [StoredVisits -> Nat] /\ \A v \in StoredVisits : accesses[v] <= MaxAccesses
    /\ waiting \in Nat /\ created \in Nat /\ deletionFaults \in Nat
    /\ manual \subseteq Admins
    /\ stage \in [Deleters -> Stages]
    /\ target \in [Deleters -> StoredVisits \union {NoVisit}]
    /\ freed \in [Deleters -> Sizes \union {0}] /\ total \in [Deleters -> Int]

\* The rows: created_at tells them apart.
RowsInv ==
    /\ \A v \in StoredVisits : row[v] = "none" => size[v] = 0 /\ accesses[v] = 0
    /\ \A v \in StoredVisits : row[v] = "ready" => size[v] \in Sizes
    /\ \A v \in StoredVisits : row[v] # "none" => born[v] <= created
    /\ \A u, v \in StoredVisits :
          row[u] # "none" /\ row[v] # "none" /\ born[u] = born[v] => u = v

\* A job has not made its row ready yet.
JobsInv == \A v \in jobs : row[v] # "ready"

\* The deleters: a marked row does not become ready, an admin deletes once, one call of
\* run_housekeeping is past the lock, and it goes on only while it counts too much.
DeletersInv ==
    /\ \A d \in Deleters : stage[d] \in {"mark", "objects", "row"} <=> target[d] # NoVisit
    /\ \A d \in Deleters : stage[d] \in {"objects", "row"} => row[target[d]] # "ready"
    /\ \A a \in Admins : a \notin manual => stage[a] = "idle"
    /\ \A h, g \in Runs : stage[h] # "idle" /\ stage[g] # "idle" => h = g
    /\ \A h \in Runs : stage[h] # "idle" => total[h] > Limit

\* Without the admin nobody touches the target of housekeeping.
AloneInv ==
    manual = {} =>
        \A h \in Runs :
            /\ stage[h] = "mark" => row[target[h]] = "ready"
            /\ stage[h] \in {"objects", "row"} =>
                  row[target[h]] = "unready" /\ target[h] \notin jobs

\* Who selected a quicklook left Keep newer ones, although others delete.
KeptInv ==
    "one" \notin manual =>
        \A d \in Runs \union {"all"}, u \in StoredVisits :
            (stage[d] = "mark" /\ target[d] = u /\ row[u] = "ready") =>
                Cardinality(Newer(u)) >= Keep

\* What housekeeping counts is not less than what is ready, when no job has ended since; with
\* what its target had when another took that from the ready ones.
CountsEnough(h) ==
    /\ stage[h] = "select" => Usage <= total[h]
    /\ stage[h] = "mark" /\ row[target[h]] = "ready" => Usage <= total[h]
    /\ stage[h] = "mark" /\ row[target[h]] # "ready" => Usage + size[target[h]] <= total[h]
    /\ stage[h] \in {"objects", "row"} => Usage + freed[h] <= total[h]

\* What a run of housekeeping is for.
RoomIsMade == Usage <= Limit \/ Cardinality(ReadyVisits) <= Keep

\* A run that made its way so far without faults counts all that is there.
UpperInv ==
    deletionFaults = 0 /\ waiting = 0 =>
        /\ (\A h \in Runs : stage[h] = "idle") => RoomIsMade
        /\ \A h \in Runs : CountsEnough(h)

\* Nor does it count more than what is ready, when only it deletes.
CountsNoMore(h) ==
    /\ stage[h] \in {"select", "mark"} => total[h] <= Usage
    /\ stage[h] \in {"objects", "row"} => total[h] <= Usage + freed[h]

\* Without an admin's deletions, a run counts no more than is there.
LowerInv == manual = {} => \A h \in Runs : CountsNoMore(h)

\* The inductive invariant of housekeeping.
UsageIInv ==
    /\ UsageShapes /\ RowsInv /\ JobsInv /\ DeletersInv /\ AloneInv /\ JobKeepsRow
    /\ KeptInv /\ UpperInv /\ LowerInv

\* The steps change what is ready in three ways.
SameReady ==
    /\ ReadyVisits' = ReadyVisits
    /\ \A v \in ReadyVisits : size'[v] = size[v] /\ born'[v] = born[v]

\* One visit more is ready.
OneMoreReady(v) ==
    /\ v \notin ReadyVisits /\ ReadyVisits' = ReadyVisits \union {v}
    /\ \A u \in ReadyVisits : size'[u] = size[u] /\ born'[u] = born[u]

\* One visit less is ready.
OneLessReady(v) ==
    /\ v \in ReadyVisits /\ ReadyVisits' = ReadyVisits \ {v}
    /\ \A u \in ReadyVisits : size'[u] = size[u] /\ born'[u] = born[u]

\* Sizes are numbers.
LEMMA SizesAreNumbers == Sizes \union {0} \subseteq Nat
<1>1. Sizes \subseteq Nat
  BY UsageAssumption
<1> QED
  BY <1>1

\* The ready quicklooks are finitely many, and what they take up is a number.
LEMMA ReadyIsFinite ==
    ASSUME UsageShapes
    PROVE  /\ IsFiniteSet(ReadyVisits) /\ Cardinality(ReadyVisits) \in Nat
           /\ \A v \in StoredVisits : size[v] \in Nat
           /\ Usage \in Nat
           /\ \A u \in StoredVisits :
                 IsFiniteSet(Newer(u)) /\ Cardinality(Newer(u)) \in Nat
<1>1. IsFiniteSet(StoredVisits) /\ ReadyVisits \subseteq StoredVisits
  BY UsageAssumption DEF ReadyVisits
<1>2. IsFiniteSet(ReadyVisits)
  BY <1>1, FS_Subset
<1>3. \A v \in StoredVisits : size[v] \in Nat
  <2>1. size \in [StoredVisits -> Sizes \union {0}]
    BY DEF UsageShapes
  <2> QED
    BY <2>1, SizesAreNumbers
<1>4. Usage \in Nat
  BY <1>1, <1>2, <1>3, UnitsFinite DEF Usage
<1>5. ASSUME NEW u \in StoredVisits PROVE IsFiniteSet(Newer(u))
  <2>1. Newer(u) \subseteq ReadyVisits
    BY DEF Newer
  <2> QED
    BY <1>2, <2>1, FS_Subset
<1> QED
  BY <1>2, <1>3, <1>4, <1>5, FS_CardinalityType

\* Nothing becomes ready or is withdrawn.
LEMMA SameEffect ==
    ASSUME SameReady
    PROVE  /\ Usage' = Usage /\ Cardinality(ReadyVisits') = Cardinality(ReadyVisits)
           /\ \A u \in ReadyVisits : Cardinality(Newer(u)') = Cardinality(Newer(u))
<1>1. Units(ReadyVisits', size') = Units(ReadyVisits, size)
  BY UnitsSame DEF SameReady
<1>2. \A u \in ReadyVisits : Newer(u)' = Newer(u)
  BY DEF Newer, SameReady
<1> QED
  BY <1>1, <1>2 DEF Usage, SameReady

\* A quicklook becomes ready.
LEMMA MoreEffect ==
    ASSUME UsageShapes, NEW v \in StoredVisits, OneMoreReady(v), size'[v] \in Nat,
           \A u \in StoredVisits : born'[u] \in Nat
    PROVE  /\ Usage \in Nat /\ Usage' \in Nat /\ Usage <= Usage'
           /\ \A u \in ReadyVisits :
                 Cardinality(Newer(u)) >= Keep => Cardinality(Newer(u)') >= Keep
<1>1. IsFiniteSet(ReadyVisits')
  BY ReadyIsFinite, FS_AddElement DEF OneMoreReady
<1>2. /\ \A u \in ReadyVisits' : size'[u] \in Nat
      /\ ReadyVisits \subseteq ReadyVisits' /\ ReadyVisits \subseteq StoredVisits
  BY ReadyIsFinite DEF OneMoreReady, ReadyVisits
<1>3. Usage \in Nat /\ Usage' \in Nat /\ Usage <= Usage'
  <2>1. \A u \in ReadyVisits : size'[u] = size[u]
    BY DEF OneMoreReady
  <2> QED
    BY <1>1, <1>2, <2>1, UnitsUp DEF Usage
<1>4. ASSUME NEW u \in ReadyVisits, Cardinality(Newer(u)) >= Keep
      PROVE  Cardinality(Newer(u)') >= Keep
  <2>1. Newer(u) \subseteq Newer(u)' /\ Newer(u)' \subseteq ReadyVisits'
    BY DEF Newer, OneMoreReady
  <2>2. IsFiniteSet(Newer(u)')
    BY <1>1, <2>1, FS_Subset
  <2>3. Cardinality(Newer(u)) <= Cardinality(Newer(u)')
    BY <2>1, <2>2, FS_Subset
  <2>4. Cardinality(Newer(u)) \in Nat /\ Cardinality(Newer(u)') \in Nat
    BY <1>2, <2>2, ReadyIsFinite, FS_CardinalityType
  <2> QED
    BY <1>4, <2>3, <2>4, UsageAssumption
<1> QED
  BY <1>3, <1>4

\* A quicklook that is ready is withdrawn: one with Keep newer ones leaves as many to the
\* older ones.
LEMMA LessEffect ==
    ASSUME UsageShapes, NEW v \in StoredVisits, OneLessReady(v)
    PROVE  /\ Usage' \in Nat /\ size[v] \in Nat /\ Usage = Usage' + size[v]
           /\ Cardinality(ReadyVisits') \in Nat
           /\ Cardinality(ReadyVisits') <= Cardinality(ReadyVisits)
           /\ \A u \in ReadyVisits' :
                 Cardinality(Newer(v)) >= Keep /\ Cardinality(Newer(u)) >= Keep =>
                     Cardinality(Newer(u)') >= Keep
<1>1. /\ IsFiniteSet(ReadyVisits) /\ \A u \in ReadyVisits : size[u] \in Nat
      /\ ReadyVisits \subseteq StoredVisits
  BY ReadyIsFinite DEF ReadyVisits
<1>2. IsFiniteSet(ReadyVisits') /\ ReadyVisits' \subseteq ReadyVisits /\ ReadyVisits' = ReadyVisits \ {v}
  BY <1>1, FS_RemoveElement DEF OneLessReady
<1>3. Usage' \in Nat /\ size[v] \in Nat /\ Usage = Usage' + size[v]
  <2>1. Units(ReadyVisits', size') = Units(ReadyVisits \ {v}, size)
    <3>1. \A u \in ReadyVisits' : size[u] = size'[u]
      BY <1>2 DEF OneLessReady
    <3> QED
      BY <1>2, <3>1, UnitsSame
  <2>2. v \in ReadyVisits
    BY DEF OneLessReady
  <2>3. Cardinality(Units(ReadyVisits, size)) = Cardinality(Units(ReadyVisits \ {v}, size)) + size[v]
    BY <1>1, <2>2, UnitsWithout
  <2>4. Cardinality(Units(ReadyVisits \ {v}, size)) \in Nat
    BY <1>1, <1>2, UnitsFinite
  <2> QED
    BY <1>1, <2>1, <2>2, <2>3, <2>4 DEF Usage
<1>4. Cardinality(ReadyVisits') \in Nat /\ Cardinality(ReadyVisits') <= Cardinality(ReadyVisits)
  BY <1>1, <1>2, FS_Subset, FS_CardinalityType
<1>5. ASSUME NEW u \in ReadyVisits', Cardinality(Newer(v)) >= Keep, Cardinality(Newer(u)) >= Keep
      PROVE  Cardinality(Newer(u)') >= Keep
  <2>1. \A w \in ReadyVisits : born'[w] = born[w] /\ born[w] \in Nat
    BY <1>1 DEF OneLessReady, UsageShapes
  <2>2. Newer(u)' = Newer(u) \ {v} /\ Newer(u)' \subseteq ReadyVisits'
    BY <1>2, <2>1 DEF Newer
  <2>3. CASE v \notin Newer(u)
    <3>1. Newer(u)' = Newer(u)
      BY <2>2, <2>3
    <3> QED
      BY <1>5, <3>1
  <2>4. CASE v \in Newer(u)
    <3>1. Newer(v) \subseteq Newer(u) \ {v}
      BY <1>2, <2>1, <2>4 DEF Newer
    <3>2. IsFiniteSet(Newer(u)')
      BY <1>2, <2>2, FS_Subset
    <3>3. Cardinality(Newer(v)) <= Cardinality(Newer(u)')
      BY <2>2, <3>1, <3>2, FS_Subset
    <3>4. Cardinality(Newer(v)) \in Nat /\ Cardinality(Newer(u)') \in Nat
      BY <3>2, ReadyIsFinite, FS_CardinalityType
    <3> QED
      BY <1>5, <3>3, <3>4, UsageAssumption
  <2> QED
    BY <2>3, <2>4
<1> QED
  BY <1>3, <1>4, <1>5

\* Where nothing can be selected no more than Keep are left: the oldest of more would have
\* Keep newer ones, and of those that have, one comes first.
LEMMA NothingToSelect ==
    ASSUME UsageShapes, RowsInv, \A v \in StoredVisits : ~ Selectable(v)
    PROVE  Cardinality(ReadyVisits) <= Keep
<1> DEFINE C == {u \in ReadyVisits : Cardinality(Newer(u)) >= Keep}
<1>1. /\ ReadyVisits \subseteq StoredVisits
      /\ \A v \in ReadyVisits : born[v] \in Nat /\ accesses[v] \in Nat
      /\ \A u, v \in ReadyVisits : born[u] = born[v] => u = v
  BY DEF UsageShapes, RowsInv, ReadyVisits
<1>2. C = {}
  <2> SUFFICES ASSUME C # {} PROVE FALSE
    OBVIOUS
  <2> HIDE DEF C
  <2>0. C \subseteq ReadyVisits
    BY DEF C
  <2>1. PICK a \in C : \A u \in C : accesses[a] <= accesses[u]
    BY <1>1, <2>0, LeastBy
  <2> DEFINE A == {u \in C : accesses[u] = accesses[a]}
  <2>2. PICK b \in A : \A u \in A : born[b] <= born[u]
    <3>1. A # {} /\ \A u \in A : born[u] \in Nat
      BY <1>1, <2>0
    <3> HIDE DEF A
    <3> QED
      BY <3>1, LeastBy
  <2>3. b \in C /\ accesses[b] = accesses[a]
    OBVIOUS
  <2>4. ASSUME NEW u \in C \ {b}
        PROVE  accesses[b] < accesses[u] \/ (accesses[b] = accesses[u] /\ born[b] < born[u])
    <3>1. accesses[b] \in Nat /\ accesses[u] \in Nat /\ accesses[b] <= accesses[u]
          /\ born[b] \in Nat /\ born[u] \in Nat /\ born[b] # born[u]
      BY <1>1, <2>0, <2>1, <2>3
    <3>2. accesses[u] = accesses[b] => born[b] <= born[u]
      BY <2>2, <2>3
    <3> QED
      BY <3>1, <3>2
  <2>5. Selectable(b)
    BY <2>3, <2>4 DEF Selectable, C, Newer
  <2> QED
    BY <1>1, <2>0, <2>3, <2>5
<1>3. CASE ReadyVisits = {}
  BY <1>3, FS_EmptySet, UsageAssumption
<1>4. CASE ReadyVisits # {}
  <2>1. PICK u \in ReadyVisits : \A w \in ReadyVisits : born[u] <= born[w]
    BY <1>1, <1>4, LeastBy
  <2>2. Newer(u) = ReadyVisits \ {u}
    BY <1>1, <2>1 DEF Newer
  <2>3. Cardinality(Newer(u)) = Cardinality(ReadyVisits) - 1
    BY <2>2, ReadyIsFinite, FS_RemoveElement
  <2>4. ~ (Cardinality(Newer(u)) >= Keep)
    BY <1>2
  <2>5. Cardinality(ReadyVisits) \in Nat
    BY ReadyIsFinite
  <2> QED
    BY <2>3, <2>4, <2>5, UsageAssumption
<1> QED
  BY <1>3, <1>4

\* At the beginning nothing is stored.
LEMMA UsageInitIInv == UsageInit => UsageIInv
<1> SUFFICES ASSUME UsageInit PROVE UsageIInv
  OBVIOUS
<1>1. ReadyVisits = {}
  BY DEF UsageInit, ReadyVisits
<1>2. Usage = 0
  <2>1. Units(ReadyVisits, size) = {}
    BY <1>1 DEF Units
  <2> QED
    BY <2>1, FS_EmptySet DEF Usage
<1>3. UsageShapes
  BY UsageAssumption DEF UsageInit, UsageShapes, Stages, NoVisit
<1>4. RowsInv /\ JobsInv /\ DeletersInv /\ AloneInv /\ JobKeepsRow
  <2>1. Runs \subseteq Deleters /\ Admins \subseteq Deleters
    BY DEF Deleters
  <2> QED
    BY <2>1 DEF UsageInit, RowsInv, JobsInv, DeletersInv, AloneInv, JobKeepsRow, NoVisit
<1>5. KeptInv /\ UpperInv /\ LowerInv
  <2>1. \A d \in Runs \union {"all"} : d \in Deleters /\ stage[d] = "idle"
    BY DEF UsageInit, Deleters, Admins
  <2>2. RoomIsMade
    BY <1>2, UsageAssumption DEF RoomIsMade
  <2> QED
    BY <2>1, <2>2 DEF KeptInv, UpperInv, LowerInv, CountsEnough, CountsNoMore
<1> QED
  BY <1>3, <1>4, <1>5 DEF UsageIInv

\* The invariant says what the run checks.
LEMMA UsageIInvImplies == UsageIInv => UsageInv
<1> SUFFICES ASSUME UsageIInv PROVE UsageInv
  OBVIOUS
<1>1. UsageTypeOK
  <2>1. accesses \in [StoredVisits -> 0 .. MaxAccesses]
    BY UsageAssumption DEF UsageIInv, UsageShapes
  <2>2. \A v \in ReadyVisits : size[v] \in Sizes
    BY DEF UsageIInv, RowsInv, ReadyVisits
  <2> QED
    BY <2>1, <2>2 DEF UsageIInv, UsageShapes, RowsInv, DeletersInv, UsageTypeOK
<1>2. NewestAreKept
  <2> SUFFICES ASSUME "one" \notin manual, NEW d \in Runs \union {"all"}, stage[d] = "mark",
                      row[target[d]] = "ready"
               PROVE  Cardinality(Newer(target[d])) >= Keep
    BY DEF NewestAreKept
  <2>1. target[d] \in StoredVisits
    BY DEF UsageIInv, UsageShapes, DeletersInv, Deleters, Admins
  <2> QED
    BY <2>1 DEF UsageIInv, KeptInv
<1>3. LimitIsKept
  BY DEF UsageIInv, UpperInv, RoomIsMade, LimitIsKept
<1>4. DeletesOnlyIfOver
  <2> SUFFICES ASSUME manual = {}, NEW h \in Runs, stage[h] = "mark"
               PROVE  Usage > Limit
    BY DEF DeletesOnlyIfOver
  <2>1. total[h] <= Usage /\ total[h] > Limit /\ total[h] \in Int
    BY DEF UsageIInv, UsageShapes, LowerInv, CountsNoMore, DeletersInv, Deleters
  <2>2. Usage \in Nat
    BY ReadyIsFinite DEF UsageIInv
  <2> QED
    BY <2>1, <2>2, UsageAssumption
<1> QED
  BY <1>1, <1>2, <1>3, <1>4 DEF UsageIInv, UsageInv

\* What a run of housekeeping has counted, while it and what is ready stay as they are.
LEMMA CountsStay ==
    ASSUME UsageIInv, SameReady, UNCHANGED <<stage, target, freed, total>>,
           UNCHANGED <<waiting, deletionFaults, manual>>,
           \A v \in StoredVisits : row[v] # "ready" => size'[v] = size[v],
           row' \in [StoredVisits -> {"none", "unready", "ready"}]
    PROVE  KeptInv' /\ UpperInv' /\ LowerInv'
<1>1. /\ Usage' = Usage /\ Cardinality(ReadyVisits') = Cardinality(ReadyVisits)
      /\ \A u \in ReadyVisits : Cardinality(Newer(u)') = Cardinality(Newer(u))
  BY SameEffect
<1>2. \A u \in StoredVisits : row'[u] = "ready" <=> row[u] = "ready"
  BY DEF SameReady, ReadyVisits
<1>3. \A u \in StoredVisits : row[u] = "ready" => u \in ReadyVisits
  BY DEF ReadyVisits
<1>4. \A h \in Runs : stage[h] = "mark" => target[h] \in StoredVisits
  BY DEF UsageIInv, UsageShapes, DeletersInv, Deleters
<1>5. KeptInv'
  BY <1>1, <1>2, <1>3 DEF UsageIInv, KeptInv
<1>6. UpperInv'
  BY <1>1, <1>2, <1>4 DEF UsageIInv, UpperInv, CountsEnough, RoomIsMade
<1>7. LowerInv'
  BY <1>1 DEF UsageIInv, LowerInv, CountsNoMore
<1> QED
  BY <1>5, <1>6, <1>7

\* A job creates its row, and accesses come and go.
LEMMA RowChanges ==
    ASSUME UsageIInv, NEW v \in StoredVisits, CreateRow(v) \/ RecordAccess(v) \/ Week(v)
    PROVE  UsageIInv'
<1>0. UNCHANGED <<stage, target, freed, total, waiting, deletionFaults, manual, size>>
  BY DEF CreateRow, RecordAccess, Week, deleterVars, usageBounds
<1>1. CASE CreateRow(v)
  <2>1. /\ row[v] = "none" /\ v \notin jobs /\ jobs' = jobs \union {v}
        /\ row' = [row EXCEPT ![v] = "unready"] /\ born' = [born EXCEPT ![v] = created + 1]
        /\ created' = created + 1 /\ accesses' = accesses
    BY <1>1 DEF CreateRow
  <2>2. SameReady
    BY <1>0, <2>1 DEF SameReady, ReadyVisits, UsageIInv, UsageShapes
  <2>3. KeptInv' /\ UpperInv' /\ LowerInv'
    <3>1. row' \in [StoredVisits -> {"none", "unready", "ready"}]
      BY <2>1 DEF UsageIInv, UsageShapes
    <3> QED
      BY <1>0, <2>2, <3>1, CountsStay
  <2>4. UsageShapes'
    BY <1>0, <2>1 DEF UsageIInv, UsageShapes
  <2>5. RowsInv'
    <3>1. \A u \in StoredVisits : u # v => row'[u] = row[u] /\ born'[u] = born[u]
      BY <2>1 DEF UsageIInv, UsageShapes
    <3>2. row'[v] = "unready" /\ born'[v] = created'
      BY <2>1 DEF UsageIInv, UsageShapes
    <3>3. \A u \in StoredVisits : row[u] # "none" => born[u] <= created' /\ born[u] # created'
      BY <2>1 DEF UsageIInv, UsageShapes, RowsInv
    <3>4. created' <= created'
      BY <2>1 DEF UsageIInv, UsageShapes
    <3> QED
      BY <1>0, <2>1, <3>1, <3>2, <3>3, <3>4 DEF UsageIInv, RowsInv
  <2>6. JobsInv' /\ DeletersInv' /\ AloneInv' /\ JobKeepsRow'
    <3>1. \A d \in Deleters : stage[d] \in {"mark", "objects", "row"} => target[d] \in StoredVisits
      BY DEF UsageIInv, UsageShapes, DeletersInv
    <3>2. \A h \in Runs : h \in Deleters
      BY DEF Deleters
    <3>3. \A u \in StoredVisits : row'[u] = IF u = v THEN "unready" ELSE row[u]
      BY <2>1 DEF UsageIInv, UsageShapes
    <3>4. JobsInv' /\ JobKeepsRow'
      BY <1>0, <2>1, <3>3 DEF UsageIInv, UsageShapes, JobsInv, JobKeepsRow
    <3>5. DeletersInv'
      BY <1>0, <3>1, <3>3 DEF UsageIInv, DeletersInv
    <3>6. AloneInv'
      BY <1>0, <2>1, <3>1, <3>2, <3>3 DEF UsageIInv, AloneInv
    <3> QED
      BY <3>4, <3>5, <3>6
  <2> QED
    BY <2>3, <2>4, <2>5, <2>6 DEF UsageIInv
<1>2. CASE RecordAccess(v) \/ Week(v)
  <2>1. UNCHANGED <<jobs, row, born, created>>
    BY <1>2 DEF RecordAccess, Week, usageBounds
  <2>2. /\ accesses' \in [StoredVisits -> Nat] /\ \A u \in StoredVisits : accesses'[u] <= MaxAccesses
        /\ \A u \in StoredVisits : row[u] = "none" => accesses'[u] = 0
    <3>1. CASE Week(v)
      BY <3>1, UsageAssumption DEF Week, UsageIInv, UsageShapes, RowsInv
    <3>2. CASE RecordAccess(v)
      <4>1. accesses[v] <= Cardinality(Units(StoredVisits, accesses))
        BY UsageAssumption, UnitsOfOne DEF UsageIInv, UsageShapes
      <4>2. Cardinality(Units(StoredVisits, accesses)) \in Nat
        BY UsageAssumption, UnitsFinite DEF UsageIInv, UsageShapes
      <4>3. accesses[v] \in Nat /\ MaxAccesses \in Nat
        BY UsageAssumption DEF UsageIInv, UsageShapes
      <4>4. Cardinality(Units(StoredVisits, accesses)) < MaxAccesses
        BY <3>2 DEF RecordAccess
      <4>5. accesses[v] + 1 <= MaxAccesses /\ accesses[v] + 1 \in Nat
        BY <4>1, <4>2, <4>3, <4>4
      <4>6. row[v] # "none" /\ accesses' = [accesses EXCEPT ![v] = accesses[v] + 1]
        BY <3>2 DEF RecordAccess
      <4> QED
        BY <4>5, <4>6 DEF UsageIInv, UsageShapes, RowsInv
    <3> QED
      BY <1>2, <3>1, <3>2
  <2>3. SameReady
    BY <1>0, <2>1 DEF SameReady, ReadyVisits
  <2>4. KeptInv' /\ UpperInv' /\ LowerInv'
    <3>1. row' \in [StoredVisits -> {"none", "unready", "ready"}]
      BY <2>1 DEF UsageIInv, UsageShapes
    <3> QED
      BY <1>0, <2>3, <3>1, CountsStay
  <2>5. UsageShapes' /\ RowsInv'
    BY <1>0, <2>1, <2>2 DEF UsageIInv, UsageShapes, RowsInv
  <2>6. JobsInv' /\ DeletersInv' /\ AloneInv' /\ JobKeepsRow'
    BY <1>0, <2>1 DEF UsageIInv, JobsInv, DeletersInv, AloneInv, JobKeepsRow
  <2> QED
    BY <2>4, <2>5, <2>6 DEF UsageIInv
<1> QED
  BY <1>1, <1>2

\* A job ends, with its quicklook or in error.
LEMMA JobEnds ==
    ASSUME UsageIInv, NEW v \in StoredVisits, JobFinishes(v) \/ JobFails(v)
    PROVE  UsageIInv'
<1>0. /\ UNCHANGED <<born, stage, target, freed, total, created, deletionFaults, manual>>
      /\ v \in jobs /\ jobs' = jobs \ {v} /\ waiting' = waiting + 1
      /\ row[v] # "ready"
  BY DEF JobFinishes, JobFails, CallHousekeeping, deleterVars, usageBounds, UsageIInv,
     JobsInv
<1>1. waiting' \in Nat /\ waiting' # 0
  BY <1>0 DEF UsageIInv, UsageShapes
<1>2. UpperInv'
  BY <1>1 DEF UpperInv
<1>3. \A d \in Deleters : stage[d] \in {"mark", "objects", "row"} => target[d] \in StoredVisits
  BY DEF UsageIInv, UsageShapes, DeletersInv
<1>4. \A h \in Runs : h \in Deleters
  BY DEF Deleters
<1>5. CASE JobFinishes(v) /\ row[v] # "none"
  <2>1. PICK n \in Sizes : /\ row' = [row EXCEPT ![v] = "ready"] /\ size' = [size EXCEPT ![v] = n]
                           /\ accesses' = accesses /\ \A d \in Deleters : target[d] # v
    BY <1>5 DEF JobFinishes
  <2>2. OneMoreReady(v)
    BY <1>0, <2>1 DEF OneMoreReady, ReadyVisits, UsageIInv, UsageShapes
  <2>3. /\ Usage \in Nat /\ Usage' \in Nat /\ Usage <= Usage'
        /\ \A u \in ReadyVisits :
              Cardinality(Newer(u)) >= Keep => Cardinality(Newer(u)') >= Keep
    <3>1. size'[v] \in Nat /\ \A u \in StoredVisits : born'[u] \in Nat
      BY <1>0, <2>1, UsageAssumption DEF UsageIInv, UsageShapes
    <3> QED
      BY <2>2, <3>1, MoreEffect DEF UsageIInv
  <2>4. \A u \in StoredVisits : u # v => row'[u] = row[u] /\ size'[u] = size[u]
    BY <2>1 DEF UsageIInv, UsageShapes
  <2>5. row'[v] = "ready" /\ size'[v] = n
    BY <2>1 DEF UsageIInv, UsageShapes
  <2>6. UsageShapes' /\ RowsInv'
    <3>1. UsageShapes'
      BY <1>0, <1>1, <2>1 DEF UsageIInv, UsageShapes
    <3>2. RowsInv'
      BY <1>0, <1>5, <2>1, <2>4, <2>5 DEF UsageIInv, RowsInv
    <3> QED
      BY <3>1, <3>2
  <2>7. JobsInv' /\ JobKeepsRow' /\ DeletersInv' /\ AloneInv'
    <3>1. JobsInv' /\ JobKeepsRow'
      BY <1>0, <2>4, <2>5 DEF UsageIInv, UsageShapes, JobsInv, JobKeepsRow
    <3>2. DeletersInv'
      BY <1>0, <1>3, <2>1, <2>4 DEF UsageIInv, DeletersInv
    <3>3. AloneInv'
      BY <1>0, <1>3, <1>4, <2>1, <2>4 DEF UsageIInv, AloneInv
    <3> QED
      BY <3>1, <3>2, <3>3
  <2>8. KeptInv'
    <3>1. \A d \in Runs \union {"all"} : d \in Deleters
      BY DEF Deleters, Admins
    <3>2. \A u \in StoredVisits : row[u] = "ready" => u \in ReadyVisits
      BY DEF ReadyVisits
    <3> QED
      BY <1>0, <2>1, <2>3, <2>4, <3>1, <3>2 DEF UsageIInv, KeptInv
  <2>9. LowerInv'
    <3> SUFFICES ASSUME manual = {}, NEW h \in Runs PROVE CountsNoMore(h)'
      BY <1>0 DEF LowerInv
    <3>1. total[h] \in Int /\ freed[h] \in Nat
      BY <1>4, SizesAreNumbers DEF UsageIInv, UsageShapes
    <3>2. total[h] <= Usage => total[h] <= Usage'
      BY <2>3, <3>1
    <3>3. total[h] <= Usage + freed[h] => total[h] <= Usage' + freed[h]
      BY <2>3, <3>1
    <3>4. CountsNoMore(h)
      BY DEF UsageIInv, LowerInv
    <3> QED
      BY <1>0, <3>2, <3>3, <3>4 DEF CountsNoMore
  <2> QED
    BY <1>2, <2>6, <2>7, <2>8, <2>9 DEF UsageIInv
<1>6. CASE JobFails(v) \/ (JobFinishes(v) /\ row[v] = "none")
  <2>1. /\ row' \in [StoredVisits -> {"none", "unready", "ready"}] /\ row'[v] = "none"
        /\ \A u \in StoredVisits : u # v => row'[u] = row[u]
        /\ size' \in [StoredVisits -> Sizes \union {0}] /\ size'[v] = 0
        /\ \A u \in StoredVisits : u # v => size'[u] = size[u]
        /\ accesses' \in [StoredVisits -> Nat] /\ accesses'[v] = 0
        /\ \A u \in StoredVisits : u # v => accesses'[u] = accesses[u]
    BY <1>6 DEF JobFails, JobFinishes, NoRow, UsageIInv, UsageShapes, RowsInv
  <2>2. SameReady
    BY <1>0, <2>1 DEF SameReady, ReadyVisits
  <2>3. UsageShapes' /\ RowsInv'
    <3>1. UsageShapes'
      BY <1>0, <1>1, <2>1, UsageAssumption DEF UsageIInv, UsageShapes
    <3>2. RowsInv'
      BY <1>0, <2>1 DEF UsageIInv, RowsInv
    <3> QED
      BY <3>1, <3>2
  <2>4. JobsInv' /\ JobKeepsRow' /\ DeletersInv'
    <3>1. JobsInv' /\ JobKeepsRow'
      BY <1>0, <2>1 DEF UsageIInv, UsageShapes, JobsInv, JobKeepsRow
    <3>2. DeletersInv'
      BY <1>0, <1>3, <2>1 DEF UsageIInv, DeletersInv
    <3> QED
      BY <3>1, <3>2
  <2>5. AloneInv'
    <3> SUFFICES ASSUME manual = {}, NEW h \in Runs, stage[h] \in {"mark", "objects", "row"}
                 PROVE  /\ stage[h] = "mark" => row'[target[h]] = "ready"
                        /\ stage[h] \in {"objects", "row"} =>
                              row'[target[h]] = "unready" /\ target[h] \notin jobs'
      BY <1>0 DEF AloneInv
    <3>1. target[h] # v /\ target[h] \in StoredVisits
      BY <1>0, <1>3, <1>4 DEF UsageIInv, AloneInv
    <3> QED
      BY <1>0, <2>1, <3>1 DEF UsageIInv, AloneInv
  <2>6. /\ Usage' = Usage
        /\ \A u \in ReadyVisits : Cardinality(Newer(u)') = Cardinality(Newer(u))
    BY <2>2, SameEffect
  <2>7. KeptInv'
    <3>1. \A u \in StoredVisits : row'[u] = "ready" => row[u] = "ready" /\ u \in ReadyVisits
      BY <2>1 DEF ReadyVisits
    <3> QED
      BY <1>0, <2>6, <3>1 DEF UsageIInv, KeptInv
  <2>8. LowerInv'
    BY <1>0, <2>6 DEF UsageIInv, LowerInv, CountsNoMore
  <2> QED
    BY <1>2, <2>3, <2>4, <2>5, <2>7, <2>8 DEF UsageIInv
<1> QED
  BY <1>5, <1>6

\* What must hold of one deleter.
DeleterOK(d) ==
    /\ stage[d] \in {"mark", "objects", "row"} <=> target[d] # NoVisit
    /\ stage[d] \in {"objects", "row"} => row[target[d]] # "ready"
    /\ d \in Admins /\ d \notin manual => stage[d] = "idle"
    /\ d \in Runs /\ stage[d] # "idle" => total[d] > Limit
    /\ d \in Runs /\ manual = {} =>
          /\ stage[d] = "mark" => row[target[d]] = "ready"
          /\ stage[d] \in {"objects", "row"} =>
                row[target[d]] = "unready" /\ target[d] \notin jobs
    /\ d \in Runs \union {"all"} /\ "one" \notin manual =>
          \A u \in StoredVisits :
              stage[d] = "mark" /\ target[d] = u /\ row[u] = "ready" =>
                  Cardinality(Newer(u)) >= Keep
    /\ d \in Runs /\ deletionFaults = 0 /\ waiting = 0 => CountsEnough(d)
    /\ d \in Runs /\ manual = {} => CountsNoMore(d)

\* It holds of each.
LEMMA DeletersOK == ASSUME UsageIInv, NEW d \in Deleters PROVE DeleterOK(d)
BY DEF UsageIInv, DeletersInv, AloneInv, KeptInv, UpperInv, LowerInv, DeleterOK, Deleters

\* A step of a deleter withdraws at most what others may also have selected.
OnlyLess ==
    /\ Usage \in Nat /\ Usage' \in Nat /\ Usage' <= Usage
    /\ \A u \in StoredVisits : row'[u] = "ready" => row[u] = "ready"
    /\ \A u \in StoredVisits :
          row[u] = "ready" /\ row'[u] # "ready" => Usage' + size'[u] <= Usage
    /\ \A u \in StoredVisits : size[u] \in Nat /\ size'[u] \in Nat
    /\ \A u \in StoredVisits : row[u] # "ready" => size'[u] <= size[u]
    /\ \A u \in StoredVisits :
          row'[u] = "ready" /\ "one" \notin manual /\ Cardinality(Newer(u)) >= Keep =>
              Cardinality(Newer(u)') >= Keep
    /\ RoomIsMade => RoomIsMade'

\* A step that withdraws nothing.
LEMMA NothingWithdrawn ==
    ASSUME UsageIInv, SameReady,
           \A u \in StoredVisits : size'[u] = size[u] \/ size'[u] = 0
    PROVE  OnlyLess /\ Usage' = Usage
<1>1. /\ Usage' = Usage /\ Cardinality(ReadyVisits') = Cardinality(ReadyVisits)
      /\ \A u \in ReadyVisits : Cardinality(Newer(u)') = Cardinality(Newer(u))
  BY SameEffect
<1>2. Usage \in Nat /\ \A u \in StoredVisits : size[u] \in Nat
  BY ReadyIsFinite DEF UsageIInv
<1>3. \A u \in StoredVisits : size'[u] \in Nat /\ size'[u] <= size[u]
  BY <1>2
<1>4. \A u \in StoredVisits : row'[u] = "ready" <=> row[u] = "ready"
  BY DEF SameReady, ReadyVisits
<1>5. \A u \in StoredVisits : row[u] = "ready" => u \in ReadyVisits
  BY DEF ReadyVisits
<1>6. Usage' <= Usage
  BY <1>1, <1>2
<1>7. RoomIsMade => RoomIsMade'
  BY <1>1 DEF RoomIsMade
<1> QED
  BY <1>1, <1>2, <1>3, <1>4, <1>5, <1>6, <1>7 DEF OnlyLess

\* A step that withdraws a quicklook that had Keep newer ones.
LEMMA OneWithdrawn ==
    ASSUME UsageIInv, NEW v \in StoredVisits, OneLessReady(v), size' = size,
           "one" \notin manual => Cardinality(Newer(v)) >= Keep
    PROVE  OnlyLess /\ Usage = Usage' + size[v]
<1>1. /\ Usage' \in Nat /\ size[v] \in Nat /\ Usage = Usage' + size[v]
      /\ Cardinality(ReadyVisits') \in Nat
      /\ Cardinality(ReadyVisits') <= Cardinality(ReadyVisits)
      /\ \A u \in ReadyVisits' :
            Cardinality(Newer(v)) >= Keep /\ Cardinality(Newer(u)) >= Keep =>
                Cardinality(Newer(u)') >= Keep
  BY LessEffect DEF UsageIInv
<1>2. /\ Usage \in Nat /\ Cardinality(ReadyVisits) \in Nat
      /\ \A u \in StoredVisits : size[u] \in Nat
  BY ReadyIsFinite DEF UsageIInv
<1>3. Usage' <= Usage
  BY <1>1, <1>2
<1>4. \A u \in StoredVisits : row'[u] = "ready" <=> row[u] = "ready" /\ u # v
  BY DEF OneLessReady, ReadyVisits
<1>5. \A u \in StoredVisits : row'[u] = "ready" => u \in ReadyVisits'
  BY DEF ReadyVisits
<1>6. Usage' + size'[v] <= Usage
  BY <1>1, <1>2
<1>7. RoomIsMade => RoomIsMade'
  <2>1. Usage <= Limit => Usage' <= Limit
    BY <1>1, <1>2, <1>3, UsageAssumption
  <2>2. Cardinality(ReadyVisits) <= Keep => Cardinality(ReadyVisits') <= Keep
    BY <1>1, <1>2, UsageAssumption
  <2> QED
    BY <2>1, <2>2 DEF RoomIsMade
<1>8. \A u \in StoredVisits : size'[u] <= size[u]
  BY <1>2
<1> QED
  BY <1>1, <1>2, <1>3, <1>4, <1>5, <1>6, <1>7, <1>8 DEF OnlyLess

\* What the others have to do with a step of a deleter.
Steps(d) ==
    /\ OnlyLess
    /\ UNCHANGED <<jobs, waiting, created, manual>>
    /\ deletionFaults' \in Nat /\ (deletionFaults' = 0 => deletionFaults = 0)
    /\ \A e \in Deleters \ {d} : /\ stage'[e] = stage[e] /\ target'[e] = target[e]
                                /\ freed'[e] = freed[e] /\ total'[e] = total[e]

\* Another run of housekeeping counts as well as before.
LEMMA OtherCounts ==
    ASSUME UsageIInv, NEW d \in Deleters, Steps(d), NEW e \in Runs, e # d, CountsEnough(e)
    PROVE  CountsEnough(e)'
<1>1. /\ e \in Deleters /\ stage'[e] = stage[e] /\ target'[e] = target[e]
      /\ freed'[e] = freed[e] /\ total'[e] = total[e]
  BY DEF Steps, Deleters
<1>2. freed[e] \in Nat /\ total[e] \in Int
  BY <1>1, SizesAreNumbers DEF UsageIInv, UsageShapes
<1>3. Usage \in Nat /\ Usage' \in Nat /\ Usage' <= Usage
  BY DEF Steps, OnlyLess
<1>4. /\ Usage <= total[e] => Usage' <= total[e]
      /\ Usage + freed[e] <= total[e] => Usage' + freed[e] <= total[e]
  BY <1>2, <1>3
<1>5. CASE stage[e] # "mark"
  BY <1>1, <1>4, <1>5 DEF CountsEnough
<1>6. CASE stage[e] = "mark"
  <2>1. target[e] \in StoredVisits
    BY <1>1, <1>6 DEF UsageIInv, UsageShapes, DeletersInv
  <2>2. size[target[e]] \in Nat /\ size'[target[e]] \in Nat
    BY <2>1 DEF Steps, OnlyLess
  <2>3. CASE row'[target[e]] = "ready"
    <3>1. row[target[e]] = "ready"
      BY <2>1, <2>3 DEF Steps, OnlyLess
    <3> QED
      BY <1>1, <1>4, <1>6, <2>3, <3>1 DEF CountsEnough
  <2>4. CASE row'[target[e]] # "ready" /\ row[target[e]] = "ready"
    <3>1. Usage' + size'[target[e]] <= Usage /\ Usage <= total[e]
      BY <1>6, <2>1, <2>4 DEF Steps, OnlyLess, CountsEnough
    <3>2. Usage' + size'[target[e]] <= total[e]
      BY <1>2, <1>3, <2>2, <3>1
    <3> QED
      BY <1>1, <1>6, <2>4, <3>2 DEF CountsEnough
  <2>5. CASE row'[target[e]] # "ready" /\ row[target[e]] # "ready"
    <3>1. size'[target[e]] <= size[target[e]] /\ Usage + size[target[e]] <= total[e]
      BY <1>6, <2>1, <2>5 DEF Steps, OnlyLess, CountsEnough
    <3>2. Usage' + size'[target[e]] <= total[e]
      BY <1>2, <1>3, <2>2, <3>1
    <3> QED
      BY <1>1, <1>6, <2>5, <3>2 DEF CountsEnough
  <2> QED
    BY <2>3, <2>4, <2>5
<1> QED
  BY <1>5, <1>6

\* If what a deleter does is right for itself, it is right for all.
LEMMA StepKeepsDeleters ==
    ASSUME UsageIInv, NEW d \in Deleters, stage[d] # "idle", Steps(d), DeleterOK(d)',
           d \in Runs /\ stage'[d] = "idle" /\ deletionFaults' = 0 /\ waiting = 0 => RoomIsMade'
    PROVE  DeletersInv' /\ AloneInv' /\ KeptInv' /\ UpperInv' /\ LowerInv'
<1>1. Runs \subseteq Deleters /\ "all" \in Deleters /\ Admins \subseteq Deleters
  BY DEF Deleters, Admins
<1>2. \A h \in Runs : h # d /\ manual = {} => stage[h] = "idle"
  BY DEF UsageIInv, DeletersInv, Deleters
<1>3. ASSUME NEW e \in Deleters, e # d PROVE DeleterOK(e)'
  <2>0. /\ stage'[e] = stage[e] /\ target'[e] = target[e] /\ jobs' = jobs
        /\ freed'[e] = freed[e] /\ total'[e] = total[e] /\ manual' = manual
        /\ waiting' = waiting /\ (deletionFaults' = 0 => deletionFaults = 0)
    BY <1>3 DEF Steps
  <2>1. DeleterOK(e)
    BY DeletersOK
  <2>2. stage[e] \in {"mark", "objects", "row"} => target[e] \in StoredVisits
    BY <2>1 DEF DeleterOK, UsageIInv, UsageShapes
  <2>3. e \in Runs /\ deletionFaults' = 0 /\ waiting' = 0 => CountsEnough(e)'
    BY <1>3, <2>0, <2>1, OtherCounts DEF DeleterOK
  <2>4. e \in Runs /\ manual' = {} => CountsNoMore(e)'
    BY <1>2, <1>3, <2>0 DEF CountsNoMore
  <2>5. \A u \in StoredVisits : row'[u] = "ready" => row[u] = "ready"
    BY DEF Steps, OnlyLess
  <2>6. \A u \in StoredVisits :
           row'[u] = "ready" /\ "one" \notin manual /\ Cardinality(Newer(u)) >= Keep =>
              Cardinality(Newer(u)') >= Keep
    BY DEF Steps, OnlyLess
  <2> QED
    BY <1>2, <1>3, <2>0, <2>1, <2>2, <2>3, <2>4, <2>5, <2>6 DEF DeleterOK
<1>4. \A e \in Deleters : DeleterOK(e)'
  BY <1>3
<1>5. \A h, g \in Runs : stage'[h] # "idle" /\ stage'[g] # "idle" => h = g
  BY <1>1 DEF Steps, UsageIInv, DeletersInv
<1>6. DeletersInv'
  BY <1>1, <1>4, <1>5 DEF DeleterOK, DeletersInv
<1>7. AloneInv' /\ KeptInv' /\ LowerInv'
  BY <1>1, <1>4 DEF DeleterOK, AloneInv, KeptInv, LowerInv
<1>8. UpperInv'
  <2> SUFFICES ASSUME deletionFaults' = 0, waiting' = 0
               PROVE  /\ (\A h \in Runs : stage'[h] = "idle") => RoomIsMade'
                      /\ \A h \in Runs : CountsEnough(h)'
    BY DEF UpperInv
  <2>1. \A h \in Runs : CountsEnough(h)'
    BY <1>1, <1>4 DEF DeleterOK
  <2>2. ASSUME \A h \in Runs : stage'[h] = "idle" PROVE RoomIsMade'
    <3>1. waiting = 0 /\ deletionFaults = 0 /\ (RoomIsMade => RoomIsMade')
      BY DEF Steps, OnlyLess
    <3>2. CASE d \in Runs
      BY <2>2, <3>1, <3>2
    <3>3. CASE d \notin Runs
      <4>1. \A h \in Runs : stage[h] = "idle"
        BY <1>1, <2>2, <3>3 DEF Steps
      <4> QED
        BY <3>1, <4>1 DEF UsageIInv, UpperInv
    <3> QED
      BY <3>2, <3>3
  <2> QED
    BY <2>1, <2>2
<1> QED
  BY <1>6, <1>7, <1>8

\* A deleter that ends has nothing to answer for.
LEMMA EndIsOK ==
    ASSUME UsageIInv, NEW d \in Deleters, DeleterEnds(d)
    PROVE  /\ DeleterOK(d)' /\ stage'[d] = "idle"
           /\ stage' \in [Deleters -> Stages]
           /\ target' \in [Deleters -> StoredVisits \union {NoVisit}]
           /\ freed' \in [Deleters -> Sizes \union {0}] /\ total' \in [Deleters -> Int]
           /\ \A e \in Deleters \ {d} : /\ stage'[e] = stage[e] /\ target'[e] = target[e]
                                       /\ freed'[e] = freed[e] /\ total'[e] = total[e]
<1>1. /\ stage' = [stage EXCEPT ![d] = "idle"] /\ target' = [target EXCEPT ![d] = NoVisit]
      /\ freed' = [freed EXCEPT ![d] = 0] /\ total' = [total EXCEPT ![d] = 0]
  BY DEF DeleterEnds
<1>2. /\ stage \in [Deleters -> Stages]
      /\ target \in [Deleters -> StoredVisits \union {NoVisit}]
      /\ freed \in [Deleters -> Sizes \union {0}] /\ total \in [Deleters -> Int]
  BY DEF UsageIInv, UsageShapes
<1>3. stage'[d] = "idle" /\ target'[d] = NoVisit
  BY <1>1, <1>2
<1>4. DeleterOK(d)'
  BY <1>3 DEF DeleterOK, CountsEnough, CountsNoMore
<1>5. "idle" \in Stages
  BY DEF Stages
<1> QED
  BY <1>1, <1>2, <1>3, <1>4, <1>5

\* The loops: what was freed is subtracted, and there is room when the rest fits.
LEMMA LoopIsOK ==
    ASSUME UsageIInv, NEW d \in Deleters, stage[d] # "idle", NEW n \in Nat, GoOn(d, n),
           Usage' \in Nat, UNCHANGED <<waiting, manual, deletionFaults>>,
           d \in Runs /\ deletionFaults = 0 /\ waiting = 0 => Usage' + n <= total[d],
           d \in Runs /\ manual = {} => total[d] <= Usage' + n
    PROVE  /\ DeleterOK(d)'
           /\ d \in Runs /\ stage'[d] = "idle" /\ deletionFaults' = 0 /\ waiting = 0 => RoomIsMade'
           /\ stage' \in [Deleters -> Stages]
           /\ target' \in [Deleters -> StoredVisits \union {NoVisit}]
           /\ freed' \in [Deleters -> Sizes \union {0}] /\ total' \in [Deleters -> Int]
           /\ \A e \in Deleters \ {d} : /\ stage'[e] = stage[e] /\ target'[e] = target[e]
                                       /\ freed'[e] = freed[e] /\ total'[e] = total[e]
<1>0. total[d] \in Int
  BY DEF UsageIInv, UsageShapes
<1>1. CASE DeleterEnds(d) /\ ~ (d \in Runs /\ total[d] - n > Limit)
  <2>1. ASSUME d \in Runs, deletionFaults = 0, waiting = 0 PROVE RoomIsMade'
    <3>1. Usage' + n <= total[d] /\ ~ (total[d] - n > Limit)
      BY <1>1, <2>1
    <3>2. Usage' <= Limit
      BY <1>0, <3>1, UsageAssumption
    <3> QED
      BY <3>2 DEF RoomIsMade
  <2> QED
    BY <1>1, <2>1, EndIsOK
<1>2. CASE /\ stage' = [stage EXCEPT ![d] = "select"]
           /\ target' = [target EXCEPT ![d] = NoVisit]
           /\ freed' = [freed EXCEPT ![d] = 0]
           /\ total' = [total EXCEPT ![d] = total[d] - n]
           /\ d \in Runs => total[d] - n > Limit
  <2>1. /\ stage \in [Deleters -> Stages]
        /\ target \in [Deleters -> StoredVisits \union {NoVisit}]
        /\ freed \in [Deleters -> Sizes \union {0}] /\ total \in [Deleters -> Int]
    BY DEF UsageIInv, UsageShapes
  <2>2. "select" \in Stages
    BY DEF Stages
  <2>3. total[d] - n \in Int
    BY <1>0
  <2>4. /\ stage' \in [Deleters -> Stages]
        /\ target' \in [Deleters -> StoredVisits \union {NoVisit}]
        /\ freed' \in [Deleters -> Sizes \union {0}] /\ total' \in [Deleters -> Int]
        /\ \A e \in Deleters \ {d} : /\ stage'[e] = stage[e] /\ target'[e] = target[e]
                                    /\ freed'[e] = freed[e] /\ total'[e] = total[e]
    BY <1>2, <2>1, <2>2, <2>3
  <2>5. stage'[d] = "select" /\ target'[d] = NoVisit /\ total'[d] = total[d] - n
    BY <1>2, <2>1
  <2>6. d \in Runs /\ deletionFaults' = 0 /\ waiting' = 0 => CountsEnough(d)'
    <3> SUFFICES ASSUME d \in Runs, deletionFaults = 0, waiting = 0 PROVE CountsEnough(d)'
      OBVIOUS
    <3>1. Usage' <= total[d] - n
      BY <1>0
    <3> QED
      BY <2>5, <3>1 DEF CountsEnough
  <2>7. d \in Runs /\ manual' = {} => CountsNoMore(d)'
    <3> SUFFICES ASSUME d \in Runs, manual = {} PROVE CountsNoMore(d)'
      OBVIOUS
    <3>1. total[d] - n <= Usage'
      BY <1>0
    <3> QED
      BY <2>5, <3>1 DEF CountsNoMore
  <2>8. d \in Admins /\ d \notin manual' => FALSE
    BY DEF UsageIInv, DeletersInv
  <2>9. d \in Runs => total'[d] > Limit
    BY <1>2, <2>5
  <2>10. DeleterOK(d)'
    BY <2>5, <2>6, <2>7, <2>8, <2>9 DEF DeleterOK
  <2> QED
    BY <2>4, <2>5, <2>10
<1> QED
  BY <1>1, <1>2, UsageAssumption DEF GoOn

\* A deleter selects.
LEMMA Selects ==
    ASSUME UsageIInv, NEW d \in Deleters, Select(d)
    PROVE  UsageIInv'
<1>1. /\ stage[d] = "select"
      /\ UNCHANGED <<jobs, row, size, born, accesses, waiting, created, deletionFaults,
                     manual>>
  BY DEF Select, rowVars, usageBounds
<1>2. SameReady /\ OnlyLess /\ Usage' = Usage
  <2>1. SameReady /\ \A u \in StoredVisits : size'[u] = size[u]
    BY <1>1 DEF SameReady, ReadyVisits
  <2> QED
    BY <2>1, NothingWithdrawn
<1>3. DeleterOK(d)
  BY DeletersOK
<1>4. RowsInv' /\ JobsInv' /\ JobKeepsRow'
  BY <1>1 DEF UsageIInv, RowsInv, JobsInv, JobKeepsRow
<1>5. CASE \E v \in StoredVisits : Selectable(v)
  <2>1. PICK v \in StoredVisits : /\ Selectable(v) /\ target' = [target EXCEPT ![d] = v]
                                 /\ stage' = [stage EXCEPT ![d] = "mark"]
                                 /\ freed' = freed /\ total' = total
    BY <1>5 DEF Select
  <2>2. row[v] = "ready" /\ Cardinality(Newer(v)) >= Keep
    BY <2>1 DEF Selectable, Newer, ReadyVisits
  <2>3. v # NoVisit
    BY UsageAssumption DEF NoVisit
  <2>4. /\ stage \in [Deleters -> Stages]
        /\ target \in [Deleters -> StoredVisits \union {NoVisit}]
        /\ freed \in [Deleters -> Sizes \union {0}] /\ total \in [Deleters -> Int]
        /\ "mark" \in Stages
    BY DEF UsageIInv, UsageShapes, Stages
  <2>5. /\ stage' \in [Deleters -> Stages]
        /\ target' \in [Deleters -> StoredVisits \union {NoVisit}]
        /\ freed' \in [Deleters -> Sizes \union {0}] /\ total' \in [Deleters -> Int]
        /\ \A e \in Deleters \ {d} : /\ stage'[e] = stage[e] /\ target'[e] = target[e]
                                    /\ freed'[e] = freed[e] /\ total'[e] = total[e]
    BY <2>1, <2>4
  <2>6. stage'[d] = "mark" /\ target'[d] = v /\ total'[d] = total[d]
    BY <2>1, <2>4
  <2>7. Cardinality(Newer(v)') >= Keep
    <3>1. v \in ReadyVisits
      BY <2>2 DEF ReadyVisits
    <3> QED
      BY <1>2, <2>2, <3>1, SameEffect
  <2>8. DeleterOK(d)'
    <3>1. CountsEnough(d) => CountsEnough(d)'
      BY <1>1, <1>2, <2>2, <2>6 DEF CountsEnough
    <3>2. CountsNoMore(d) => CountsNoMore(d)'
      BY <1>1, <1>2, <2>6 DEF CountsNoMore
    <3> QED
      BY <1>1, <1>3, <2>2, <2>3, <2>6, <2>7, <3>1, <3>2 DEF DeleterOK
  <2>9. Steps(d)
    BY <1>1, <1>2, <2>5 DEF Steps, UsageIInv, UsageShapes
  <2>10. DeletersInv' /\ AloneInv' /\ KeptInv' /\ UpperInv' /\ LowerInv'
    BY <1>1, <2>6, <2>8, <2>9, StepKeepsDeleters
  <2>11. UsageShapes'
    BY <1>1, <2>5 DEF UsageIInv, UsageShapes
  <2> QED
    BY <1>4, <2>10, <2>11 DEF UsageIInv
<1>6. CASE ~ \E v \in StoredVisits : Selectable(v)
  <2>1. DeleterEnds(d)
    BY <1>6 DEF Select
  <2>2. RoomIsMade'
    <3>1. Cardinality(ReadyVisits) <= Keep
      BY <1>6, NothingToSelect DEF UsageIInv
    <3> QED
      BY <1>2, <3>1, SameEffect DEF RoomIsMade
  <2>3. Steps(d)
    BY <1>1, <1>2, <2>1, EndIsOK DEF Steps, UsageIInv, UsageShapes
  <2>4. DeletersInv' /\ AloneInv' /\ KeptInv' /\ UpperInv' /\ LowerInv'
    BY <1>1, <2>1, <2>2, <2>3, EndIsOK, StepKeepsDeleters
  <2>5. UsageShapes'
    BY <1>1, <2>1, EndIsOK DEF UsageIInv, UsageShapes
  <2> QED
    BY <1>4, <2>4, <2>5 DEF UsageIInv
<1> QED
  BY <1>5, <1>6

\* A deleter marks the row of its target as not ready; without a row it goes on.
LEMMA Marks ==
    ASSUME UsageIInv, NEW d \in Deleters, Mark(d)
    PROVE  UsageIInv'
<1> DEFINE v == target[d]
<1>1. /\ stage[d] = "mark" /\ v \in StoredVisits
      /\ UNCHANGED <<jobs, size, born, accesses, waiting, created, deletionFaults, manual>>
  BY DEF Mark, GoOn, rowVars, usageBounds, UsageIInv, UsageShapes, DeletersInv
<1>2. DeleterOK(d) /\ size[v] \in Nat /\ Usage \in Nat
  BY <1>1, DeletersOK, ReadyIsFinite DEF UsageIInv
<1> HIDE DEF v
<1>3. CASE row[v] = "none"
  <2>1. GoOn(d, 0) /\ row' = row
    BY <1>3 DEF Mark, rowVars, v
  <2>2. SameReady /\ OnlyLess /\ Usage' = Usage
    <3>1. SameReady /\ \A u \in StoredVisits : size'[u] = size[u]
      BY <1>1, <2>1 DEF SameReady, ReadyVisits
    <3> QED
      BY <3>1, NothingWithdrawn
  <2>3. size[v] = 0
    BY <1>1, <1>3 DEF UsageIInv, RowsInv
  <2>4. d \in Runs /\ deletionFaults = 0 /\ waiting = 0 => Usage' + 0 <= total[d]
    <3>1. d \in Runs /\ deletionFaults = 0 /\ waiting = 0 => Usage + size[v] <= total[d]
      BY <1>1, <1>2, <1>3 DEF DeleterOK, CountsEnough, v
    <3> QED
      BY <2>2, <2>3, <3>1
  <2>5. ~ (d \in Runs /\ manual = {})
    BY <1>1, <1>2, <1>3 DEF DeleterOK, v
  <2>6. /\ DeleterOK(d)'
        /\ d \in Runs /\ stage'[d] = "idle" /\ deletionFaults' = 0 /\ waiting = 0 => RoomIsMade'
        /\ stage' \in [Deleters -> Stages]
        /\ target' \in [Deleters -> StoredVisits \union {NoVisit}]
        /\ freed' \in [Deleters -> Sizes \union {0}] /\ total' \in [Deleters -> Int]
        /\ \A e \in Deleters \ {d} : /\ stage'[e] = stage[e] /\ target'[e] = target[e]
                                    /\ freed'[e] = freed[e] /\ total'[e] = total[e]
    <3>1. stage[d] # "idle" /\ 0 \in Nat /\ Usage' \in Nat
      BY <1>1, <1>2, <2>2
    <3> QED
      BY <1>1, <2>1, <2>4, <2>5, <3>1, LoopIsOK
  <2>7. Steps(d)
    BY <1>1, <2>2, <2>6 DEF Steps, UsageIInv, UsageShapes
  <2>8. DeletersInv' /\ AloneInv' /\ KeptInv' /\ UpperInv' /\ LowerInv'
    BY <1>1, <2>6, <2>7, StepKeepsDeleters
  <2>9. UsageShapes' /\ RowsInv' /\ JobsInv' /\ JobKeepsRow'
    BY <1>1, <2>1, <2>6 DEF UsageIInv, UsageShapes, RowsInv, JobsInv, JobKeepsRow
  <2> QED
    BY <2>8, <2>9 DEF UsageIInv
<1>4. CASE row[v] # "none"
  <2>1. /\ row' = [row EXCEPT ![v] = "unready"] /\ freed' = [freed EXCEPT ![d] = size[v]]
        /\ stage' = [stage EXCEPT ![d] = "objects"] /\ target' = target /\ total' = total
    BY <1>4 DEF Mark, v
  <2>2. /\ row' \in [StoredVisits -> {"none", "unready", "ready"}] /\ row'[v] = "unready"
        /\ \A u \in StoredVisits : u # v => row'[u] = row[u]
    BY <1>1, <2>1 DEF UsageIInv, UsageShapes
  <2>3. /\ stage \in [Deleters -> Stages] /\ freed \in [Deleters -> Sizes \union {0}]
        /\ "objects" \in Stages /\ size[v] \in Sizes \union {0}
    BY <1>1 DEF UsageIInv, UsageShapes, Stages
  <2>4. /\ stage' \in [Deleters -> Stages] /\ freed' \in [Deleters -> Sizes \union {0}]
        /\ stage'[d] = "objects" /\ freed'[d] = size[v]
        /\ \A e \in Deleters \ {d} : stage'[e] = stage[e] /\ freed'[e] = freed[e]
    BY <2>1, <2>3
  <2>5. /\ OnlyLess
        /\ d \in Runs /\ deletionFaults = 0 /\ waiting = 0 => Usage' + size[v] <= total[d]
        /\ d \in Runs /\ manual = {} => total[d] <= Usage' + size[v]
    <3>1. CASE row[v] = "ready"
      <4>1. OneLessReady(v)
        BY <1>1, <2>2, <3>1 DEF OneLessReady, ReadyVisits
      <4>2. "one" \notin manual => Cardinality(Newer(v)) >= Keep
        BY <1>1, <1>2, <3>1 DEF DeleterOK, Deleters, Admins, v
      <4>3. OnlyLess /\ Usage = Usage' + size[v]
        BY <1>1, <4>1, <4>2, OneWithdrawn
      <4>4. /\ d \in Runs /\ deletionFaults = 0 /\ waiting = 0 => Usage <= total[d]
            /\ d \in Runs /\ manual = {} => total[d] <= Usage
        BY <1>1, <1>2, <3>1 DEF DeleterOK, CountsEnough, CountsNoMore, v
      <4> QED
        BY <4>3, <4>4
    <3>2. CASE row[v] # "ready"
      <4>1. SameReady /\ \A u \in StoredVisits : size'[u] = size[u]
        BY <1>1, <2>2, <3>2 DEF SameReady, ReadyVisits
      <4>2. OnlyLess /\ Usage' = Usage
        BY <4>1, NothingWithdrawn
      <4>3. /\ d \in Runs /\ deletionFaults = 0 /\ waiting = 0 => Usage + size[v] <= total[d]
            /\ ~ (d \in Runs /\ manual = {})
        BY <1>1, <1>2, <3>2 DEF DeleterOK, CountsEnough, v
      <4> QED
        BY <4>2, <4>3
    <3> QED
      BY <3>1, <3>2
  <2>6. DeleterOK(d)'
    <3>1. d \in Runs /\ deletionFaults' = 0 /\ waiting' = 0 => CountsEnough(d)'
      BY <1>1, <2>1, <2>4, <2>5 DEF CountsEnough
    <3>2. d \in Runs /\ manual' = {} => CountsNoMore(d)'
      BY <1>1, <2>1, <2>4, <2>5 DEF CountsNoMore
    <3>3. d \in Runs /\ manual = {} => v \notin jobs
      BY <1>1, <1>2 DEF DeleterOK, UsageIInv, JobsInv, v
    <3>4. target'[d] = v /\ v # NoVisit
      BY <1>1, <2>1, UsageAssumption DEF v, NoVisit
    <3>5. d \in Admins => d \in manual
      BY <1>1, <1>2 DEF DeleterOK
    <3>6. d \in Runs => total'[d] > Limit
      BY <1>1, <1>2, <2>1 DEF DeleterOK
    <3> QED
      BY <1>1, <2>2, <2>4, <3>1, <3>2, <3>3, <3>4, <3>5, <3>6 DEF DeleterOK
  <2>7. Steps(d)
    BY <1>1, <2>1, <2>4, <2>5 DEF Steps, UsageIInv, UsageShapes
  <2>8. DeletersInv' /\ AloneInv' /\ KeptInv' /\ UpperInv' /\ LowerInv'
    BY <1>1, <2>4, <2>6, <2>7, StepKeepsDeleters
  <2>9. UsageShapes'
    BY <1>1, <2>1, <2>2, <2>4 DEF UsageIInv, UsageShapes
  <2>10. RowsInv' /\ JobsInv' /\ JobKeepsRow'
    <3>1. RowsInv'
      BY <1>1, <1>4, <2>2 DEF UsageIInv, RowsInv
    <3>2. JobsInv' /\ JobKeepsRow'
      BY <1>1, <1>4, <2>2 DEF UsageIInv, UsageShapes, JobsInv, JobKeepsRow
    <3> QED
      BY <3>1, <3>2
  <2> QED
    BY <2>8, <2>9, <2>10 DEF UsageIInv
<1> QED
  BY <1>3, <1>4

\* The objects are deleted, or their deletion fails.
LEMMA DeletesObjects ==
    ASSUME UsageIInv, NEW d \in Deleters, DeleteObjects(d) \/ DeletionFails(d)
    PROVE  UsageIInv'
<1>1. /\ stage[d] = "objects"
      /\ UNCHANGED <<jobs, row, size, born, accesses, waiting, created, manual>>
  BY DEF DeleteObjects, DeletionFails, rowVars, usageBounds
<1>2. SameReady /\ OnlyLess /\ Usage' = Usage
  <2>1. SameReady /\ \A u \in StoredVisits : size'[u] = size[u]
    BY <1>1 DEF SameReady, ReadyVisits
  <2> QED
    BY <2>1, NothingWithdrawn
<1>3. DeleterOK(d)
  BY DeletersOK
<1>4. RowsInv' /\ JobsInv' /\ JobKeepsRow'
  BY <1>1 DEF UsageIInv, RowsInv, JobsInv, JobKeepsRow
<1>5. CASE DeleteObjects(d)
  <2>1. /\ stage' = [stage EXCEPT ![d] = "row"]
        /\ UNCHANGED <<target, freed, total, deletionFaults>>
    BY <1>5 DEF DeleteObjects, usageBounds
  <2>2. stage \in [Deleters -> Stages] /\ "row" \in Stages
    BY DEF UsageIInv, UsageShapes, Stages
  <2>3. /\ stage' \in [Deleters -> Stages] /\ stage'[d] = "row"
        /\ \A e \in Deleters \ {d} : stage'[e] = stage[e]
    BY <2>1, <2>2
  <2>4. DeleterOK(d)'
    <3>1. CountsEnough(d) => CountsEnough(d)'
      BY <1>1, <1>2, <2>1, <2>3 DEF CountsEnough
    <3>2. CountsNoMore(d) => CountsNoMore(d)'
      BY <1>1, <1>2, <2>1, <2>3 DEF CountsNoMore
    <3> QED
      BY <1>1, <1>3, <2>1, <2>3, <3>1, <3>2 DEF DeleterOK
  <2>5. Steps(d)
    BY <1>1, <1>2, <2>1, <2>3 DEF Steps, UsageIInv, UsageShapes
  <2>6. DeletersInv' /\ AloneInv' /\ KeptInv' /\ UpperInv' /\ LowerInv'
    BY <1>1, <2>3, <2>4, <2>5, StepKeepsDeleters
  <2>7. UsageShapes'
    BY <1>1, <2>1, <2>3 DEF UsageIInv, UsageShapes
  <2> QED
    BY <1>4, <2>6, <2>7 DEF UsageIInv
<1>6. CASE DeletionFails(d)
  <2>1. DeleterEnds(d) /\ deletionFaults' = deletionFaults + 1
    BY <1>6 DEF DeletionFails
  <2>2. deletionFaults' \in Nat /\ deletionFaults' # 0
    BY <2>1 DEF UsageIInv, UsageShapes
  <2>3. Steps(d)
    BY <1>1, <1>2, <2>1, <2>2, EndIsOK DEF Steps
  <2>4. DeletersInv' /\ AloneInv' /\ KeptInv' /\ UpperInv' /\ LowerInv'
    BY <1>1, <2>1, <2>2, <2>3, EndIsOK, StepKeepsDeleters
  <2>5. UsageShapes'
    BY <1>1, <2>1, <2>2, EndIsOK DEF UsageIInv, UsageShapes
  <2> QED
    BY <1>4, <2>4, <2>5 DEF UsageIInv
<1> QED
  BY <1>5, <1>6

\* The row goes, and the loop goes on or ends.
LEMMA DeletesRow ==
    ASSUME UsageIInv, NEW d \in Deleters, DeleteRow(d)
    PROVE  UsageIInv'
<1> DEFINE v == target[d]
           n == freed[d]
<1>1. /\ stage[d] = "row" /\ v \in StoredVisits /\ NoRow(v) /\ GoOn(d, n)
      /\ UNCHANGED <<jobs, born, waiting, created, deletionFaults, manual>>
  BY DEF DeleteRow, usageBounds, UsageIInv, UsageShapes, DeletersInv
<1>2. DeleterOK(d) /\ n \in Nat /\ Usage \in Nat
  BY DeletersOK, ReadyIsFinite, SizesAreNumbers DEF UsageIInv, UsageShapes
<1>3. /\ row[v] # "ready"
      /\ d \in Runs /\ manual = {} => v \notin jobs
      /\ d \in Runs \/ manual # {}
      /\ d \in Runs /\ deletionFaults = 0 /\ waiting = 0 => Usage + n <= total[d]
      /\ d \in Runs /\ manual = {} => total[d] <= Usage + n
  BY <1>1, <1>2 DEF DeleterOK, CountsEnough, CountsNoMore, Deleters
<1> HIDE DEF v, n
<1>4. /\ row' \in [StoredVisits -> {"none", "unready", "ready"}] /\ row'[v] = "none"
      /\ \A u \in StoredVisits : u # v => row'[u] = row[u]
      /\ size' \in [StoredVisits -> Sizes \union {0}] /\ size'[v] = 0
      /\ \A u \in StoredVisits : u # v => size'[u] = size[u]
      /\ accesses' \in [StoredVisits -> Nat] /\ accesses'[v] = 0
      /\ \A u \in StoredVisits : u # v => accesses'[u] = accesses[u]
  BY <1>1 DEF NoRow, UsageIInv, UsageShapes
<1>5. SameReady /\ OnlyLess /\ Usage' = Usage
  <2>1. SameReady
    BY <1>1, <1>3, <1>4 DEF SameReady, ReadyVisits
  <2>2. \A u \in StoredVisits : size'[u] = size[u] \/ size'[u] = 0
    BY <1>4
  <2> QED
    BY <2>1, <2>2, NothingWithdrawn
<1>6. /\ DeleterOK(d)'
      /\ d \in Runs /\ stage'[d] = "idle" /\ deletionFaults' = 0 /\ waiting = 0 => RoomIsMade'
      /\ stage' \in [Deleters -> Stages]
      /\ target' \in [Deleters -> StoredVisits \union {NoVisit}]
      /\ freed' \in [Deleters -> Sizes \union {0}] /\ total' \in [Deleters -> Int]
      /\ \A e \in Deleters \ {d} : /\ stage'[e] = stage[e] /\ target'[e] = target[e]
                                  /\ freed'[e] = freed[e] /\ total'[e] = total[e]
  <2>1. stage[d] # "idle" /\ Usage' \in Nat
    BY <1>1, <1>2, <1>5
  <2>2. d \in Runs /\ deletionFaults = 0 /\ waiting = 0 => Usage' + n <= total[d]
    BY <1>3, <1>5
  <2>3. d \in Runs /\ manual = {} => total[d] <= Usage' + n
    BY <1>3, <1>5
  <2> QED
    BY <1>1, <1>2, <2>1, <2>2, <2>3, LoopIsOK
<1>7. Steps(d)
  BY <1>1, <1>5, <1>6 DEF Steps, UsageIInv, UsageShapes
<1>8. DeletersInv' /\ AloneInv' /\ KeptInv' /\ UpperInv' /\ LowerInv'
  BY <1>1, <1>6, <1>7, StepKeepsDeleters
<1>9. UsageShapes'
  BY <1>1, <1>4, <1>6, UsageAssumption DEF UsageIInv, UsageShapes
<1>10. RowsInv'
  BY <1>1, <1>4 DEF UsageIInv, RowsInv
<1>11. JobsInv' /\ JobKeepsRow'
  BY <1>1, <1>3, <1>4 DEF UsageIInv, UsageShapes, JobsInv, JobKeepsRow
<1> QED
  BY <1>8, <1>9, <1>10, <1>11 DEF UsageIInv

\* A run of housekeeping gets the lock, and counts what is ready.
LEMMA EntersLock ==
    ASSUME UsageIInv, NEW h \in Runs, EnterLock(h)
    PROVE  UsageIInv'
<1>1. /\ \A other \in Runs : stage[other] = "idle"
      /\ waiting > 0 /\ waiting' = waiting - 1
      /\ stage' = [stage EXCEPT ![h] = IF Usage > Limit THEN "select" ELSE "idle"]
      /\ total' = [total EXCEPT ![h] = IF Usage > Limit THEN Usage ELSE 0]
      /\ UNCHANGED <<jobs, row, size, born, accesses, target, freed>>
      /\ UNCHANGED <<created, deletionFaults, manual>>
  BY DEF EnterLock, ReadUsage, rowVars, usageBounds
<1>2. /\ h \in Deleters /\ Runs \subseteq Deleters /\ Admins \subseteq Deleters
      /\ h \notin Admins
      /\ "all" \in Deleters /\ h # "all"
  BY UsageAssumption DEF Deleters, Admins
<1>3. Usage \in Nat /\ Usage' = Usage /\ ReadyVisits' = ReadyVisits
  <2>1. SameReady
    BY <1>1 DEF SameReady, ReadyVisits
  <2> QED
    BY <2>1, SameEffect, ReadyIsFinite DEF UsageIInv, SameReady
<1>4. /\ stage \in [Deleters -> Stages] /\ total \in [Deleters -> Int] /\ waiting \in Nat
      /\ "select" \in Stages /\ "idle" \in Stages
  BY DEF UsageIInv, UsageShapes, Stages
<1>5. waiting' \in Nat
  BY <1>1, <1>4
<1>6. /\ stage' \in [Deleters -> Stages] /\ total' \in [Deleters -> Int]
      /\ \A d \in Deleters : d # h => stage'[d] = stage[d] /\ total'[d] = total[d]
      /\ stage'[h] = IF Usage > Limit THEN "select" ELSE "idle"
      /\ Usage > Limit => total'[h] = Usage
  BY <1>1, <1>2, <1>3, <1>4
<1>7. \A g \in Runs : stage'[g] # "idle" => g = h
  BY <1>1, <1>2, <1>6
<1>8. target[h] = NoVisit
  BY <1>1, <1>2 DEF UsageIInv, DeletersInv
<1>9. UsageShapes' /\ RowsInv' /\ JobsInv' /\ JobKeepsRow'
  BY <1>1, <1>5, <1>6 DEF UsageIInv, UsageShapes, RowsInv, JobsInv, JobKeepsRow
<1>10. DeletersInv'
  <2>1. \A d \in Deleters : stage'[d] \in {"mark", "objects", "row"} <=>
                            stage[d] \in {"mark", "objects", "row"}
    BY <1>1, <1>6
  <2>2. \A d \in Deleters : stage'[d] \in {"objects", "row"} => stage[d] \in {"objects", "row"}
    BY <1>6
  <2>3. \A g \in Runs : stage'[g] # "idle" => total'[g] > Limit
    BY <1>6, <1>7
  <2>4. \A a \in Admins : stage'[a] = stage[a]
    BY <1>2, <1>6
  <2> QED
    BY <1>1, <1>7, <2>1, <2>2, <2>3, <2>4 DEF UsageIInv, DeletersInv
<1>11. AloneInv' /\ LowerInv'
  <2>1. \A g \in Runs : stage'[g] \notin {"mark", "objects", "row"}
    BY <1>6, <1>7
  <2>2. \A g \in Runs : stage'[g] = "select" => total'[g] <= Usage'
    BY <1>3, <1>6, <1>7
  <2> QED
    BY <2>1, <2>2 DEF AloneInv, LowerInv, CountsNoMore
<1>12. KeptInv'
  <2>1. \A u \in StoredVisits : Newer(u)' = Newer(u)
    BY <1>1, <1>3 DEF Newer
  <2>2. \A d \in Runs \union {"all"} : stage'[d] = "mark" => stage[d] = "mark"
    BY <1>2, <1>6
  <2> QED
    BY <1>1, <2>1, <2>2 DEF UsageIInv, KeptInv
<1>13. UpperInv'
  <2>1. \A g \in Runs : stage'[g] \notin {"mark", "objects", "row"}
    BY <1>6, <1>7
  <2>2. \A g \in Runs : stage'[g] = "select" => Usage' <= total'[g]
    BY <1>3, <1>6, <1>7
  <2>3. stage'[h] = "idle" => RoomIsMade'
    <3>1. stage'[h] = "idle" => Usage' <= Limit
      BY <1>3, <1>6, UsageAssumption
    <3> QED
      BY <3>1 DEF RoomIsMade
  <2> QED
    BY <2>1, <2>2, <2>3 DEF UpperInv, CountsEnough
<1> QED
  BY <1>9, <1>10, <1>11, <1>12, <1>13 DEF UsageIInv

\* The admin deletes one entry, or all.
LEMMA AdminDeletes ==
    ASSUME UsageIInv, (\E v \in StoredVisits : DeleteEntry(v)) \/ DeleteAllEntries
    PROVE  UsageIInv'
<1>1. PICK a \in Admins :
         /\ a \notin manual /\ manual' = manual \union {a}
         /\ UNCHANGED <<jobs, row, size, born, accesses, waiting, freed, total>>
         /\ UNCHANGED <<created, deletionFaults>>
         /\ \/ /\ a = "one" /\ stage' = [stage EXCEPT ![a] = "mark"]
               /\ \E v \in StoredVisits : target' = [target EXCEPT ![a] = v]
            \/ a = "all" /\ stage' = [stage EXCEPT ![a] = "select"] /\ target' = target
  BY DEF DeleteEntry, DeleteAllEntries, rowVars, Admins
<1>2. a \in Deleters /\ Runs \subseteq Deleters /\ a \notin Runs /\ Admins \subseteq Deleters
  BY UsageAssumption DEF Deleters, Admins
<1>3. stage[a] = "idle" /\ target[a] = NoVisit
  BY <1>1, <1>2 DEF UsageIInv, DeletersInv
<1>4. /\ stage \in [Deleters -> Stages]
      /\ target \in [Deleters -> StoredVisits \union {NoVisit}]
      /\ "select" \in Stages /\ "mark" \in Stages
  BY DEF UsageIInv, UsageShapes, Stages
<1>5. /\ stage' \in [Deleters -> Stages]
      /\ target' \in [Deleters -> StoredVisits \union {NoVisit}]
      /\ \A d \in Deleters : d # a => stage'[d] = stage[d] /\ target'[d] = target[d]
      /\ \/ a = "one" /\ stage'[a] = "mark" /\ target'[a] \in StoredVisits
         \/ a = "all" /\ stage'[a] = "select" /\ target'[a] = NoVisit
  BY <1>1, <1>2, <1>3, <1>4
<1>6. manual' # {}
  BY <1>1
<1>7. SameReady /\ Usage' = Usage
  <2>1. SameReady
    BY <1>1 DEF SameReady, ReadyVisits
  <2> QED
    BY <2>1, SameEffect
<1>8. UsageShapes' /\ RowsInv' /\ JobsInv'
  BY <1>1, <1>5 DEF UsageIInv, UsageShapes, RowsInv, JobsInv
<1>9. AloneInv' /\ LowerInv' /\ JobKeepsRow'
  BY <1>6 DEF AloneInv, LowerInv, JobKeepsRow
<1>10. DeletersInv'
  <2>1. target'[a] # NoVisit <=> stage'[a] = "mark"
    BY <1>5, UsageAssumption DEF NoVisit
  <2>2. \A d \in Deleters : stage'[d] \in {"mark", "objects", "row"} <=> target'[d] # NoVisit
    BY <1>5, <2>1 DEF UsageIInv, DeletersInv
  <2>3. \A d \in Deleters : stage'[d] \in {"objects", "row"} => row'[target'[d]] # "ready"
    BY <1>1, <1>5 DEF UsageIInv, DeletersInv
  <2>4. \A b \in Admins : b \notin manual' => stage'[b] = "idle"
    BY <1>1, <1>2, <1>5 DEF UsageIInv, DeletersInv
  <2>5. \A h \in Runs : stage'[h] = stage[h] /\ total'[h] = total[h]
    BY <1>1, <1>2, <1>5
  <2> QED
    BY <2>2, <2>3, <2>4, <2>5 DEF UsageIInv, DeletersInv
<1>11. KeptInv'
  <2> SUFFICES ASSUME "one" \notin manual', NEW d \in Runs \union {"all"}, NEW u \in StoredVisits,
                      stage'[d] = "mark", target'[d] = u, row'[u] = "ready"
               PROVE  Cardinality(Newer(u)') >= Keep
    BY DEF KeptInv
  <2>1. a = "all" /\ "one" \notin manual
    BY <1>1 DEF Admins
  <2>2. d # a /\ d \in Deleters
    BY <1>2, <1>5, <2>1
  <2>3. Cardinality(Newer(u)) >= Keep /\ u \in ReadyVisits
    BY <1>1, <1>5, <2>1, <2>2 DEF UsageIInv, KeptInv, ReadyVisits
  <2> QED
    BY <1>7, <2>3, SameEffect
<1>12. UpperInv'
  <2>1. /\ \A h \in Runs : /\ stage'[h] = stage[h] /\ target'[h] = target[h]
                           /\ total'[h] = total[h] /\ freed'[h] = freed[h]
        /\ waiting' = waiting /\ deletionFaults' = deletionFaults
        /\ row' = row /\ size' = size
    BY <1>1, <1>2, <1>5
  <2>2. RoomIsMade => RoomIsMade'
    BY <1>7 DEF RoomIsMade, SameReady
  <2>3. \A h \in Runs : CountsEnough(h) => CountsEnough(h)'
    BY <1>7, <2>1 DEF CountsEnough
  <2> QED
    BY <2>1, <2>2, <2>3 DEF UsageIInv, UpperInv
<1> QED
  BY <1>8, <1>9, <1>10, <1>11, <1>12 DEF UsageIInv

\* Every step keeps the invariant.
LEMMA UsageStep == ASSUME UsageIInv, [UsageNext]_usageVars PROVE UsageIInv'
<1>1. CASE UNCHANGED usageVars
  <2>1. UNCHANGED <<jobs, row, size, born, accesses, waiting, stage, target, freed, total,
                    created, deletionFaults, manual>>
    BY <1>1 DEF usageVars, rowVars, deleterVars, usageBounds
  <2>2. SameReady
    BY <2>1 DEF SameReady, ReadyVisits
  <2>3. row' \in [StoredVisits -> {"none", "unready", "ready"}]
    BY <2>1 DEF UsageIInv, UsageShapes
  <2>4. KeptInv' /\ UpperInv' /\ LowerInv'
    BY <2>1, <2>2, <2>3, CountsStay
  <2>5. UsageShapes' /\ RowsInv' /\ JobsInv' /\ DeletersInv' /\ AloneInv' /\ JobKeepsRow'
    BY <2>1 DEF UsageIInv, UsageShapes, RowsInv, JobsInv, DeletersInv, AloneInv,
       JobKeepsRow
  <2> QED
    BY <2>4, <2>5 DEF UsageIInv
<1>2. CASE \E v \in StoredVisits : CreateRow(v) \/ RecordAccess(v) \/ Week(v)
  BY <1>2, RowChanges
<1>3. CASE \E v \in StoredVisits : JobFinishes(v) \/ JobFails(v)
  BY <1>3, JobEnds
<1>4. CASE (\E v \in StoredVisits : DeleteEntry(v)) \/ DeleteAllEntries
  BY <1>4, AdminDeletes
<1>5. CASE \E h \in Runs : EnterLock(h)
  BY <1>5, EntersLock
<1>6. CASE \E d \in Deleters :
             Select(d) \/ Mark(d) \/ DeleteObjects(d) \/ DeletionFails(d) \/ DeleteRow(d)
  BY <1>6, Selects, Marks, DeletesObjects, DeletesRow
<1> QED
  BY <1>1, <1>2, <1>3, <1>4, <1>5, <1>6 DEF UsageNext

\* Housekeeping makes room, deletes only while over the limit, keeps the newest, and
\* leaves the rows of running jobs (run_housekeeping, select_quicklook_to_delete,
\* delete_one_quicklook), for any number of visits, sizes, runs and any limits.
THEOREM HousekeepingIsSafe == UsageSpec => []UsageInv
<1>1. UsageInit => UsageIInv
  BY UsageInitIInv
<1>2. UsageIInv /\ [UsageNext]_usageVars => UsageIInv'
  BY UsageStep
<1>3. UsageIInv => UsageInv
  BY UsageIInvImplies
<1> QED
  BY <1>1, <1>2, <1>3, PTL DEF UsageSpec

-----------------------------------------------------------------------------
(* The votes of the users. *)

\* Why a count can be at zero: only a viewer that left a visit sends an unvote for it, and
\* the count of a job begins with one.
CountInv ==
    /\ \A c \in calls : c.kind = "unvote" => c.visit \in left
    /\ \A v \in ShownVisits : InDictionary(v) /\ users[v] = 0 => v \in left

\* The inductive invariant of the votes.
VotesIInv == VotesTypeOK /\ DroppedWasLeft /\ CountInv

\* It holds at the beginning, when nobody has voted.
LEMMA VotesInitIInv == VotesInit => VotesIInv
BY VotesAssumption
   DEF VotesInit, VotesIInv, VotesTypeOK, DroppedWasLeft, CountInv, InDictionary, NoShownVisit

\* A viewer that opens, changes or leaves its visit.
LEMMA ViewerMoves ==
    ASSUME VotesIInv, NEW w \in Viewers,
           (\E v \in ShownVisits : Open(w, v) \/ Switch(w, v)) \/ Leave(w)
    PROVE  VotesIInv'
<1> USE VotesAssumption
    DEF VotesIInv, VotesTypeOK, DroppedWasLeft, CountInv, InDictionary, NoShownVisit
<1>1. \A kind \in {"create", "vote", "unvote"}, v \in ShownVisits :
          /\ ViewerCall(w, kind, v) \in
                [viewer : Viewers, move : 0 .. MaxMoves,
                 kind : {"create", "vote", "unvote"}, visit : ShownVisits]
          /\ ViewerCall(w, kind, v).kind = kind /\ ViewerCall(w, kind, v).visit = v
  BY DEF ViewerCall
<1>2. PICK to \in ShownVisits \union {NoShownVisit},
           sent \in SUBSET [viewer : Viewers, move : 0 .. MaxMoves,
                            kind : {"create", "vote", "unvote"}, visit : ShownVisits] :
          /\ ViewerMove(w, to, sent)
          /\ \A c \in sent : c.kind = "unvote" => c.visit = showing[w]
  <2> DEFINE S == [viewer : Viewers, move : 0 .. MaxMoves,
                   kind : {"create", "vote", "unvote"}, visit : ShownVisits]
             Fits(to, sent) ==
                 /\ ViewerMove(w, to, sent)
                 /\ \A c \in sent : c.kind = "unvote" => c.visit = showing[w]
  <2>1. ASSUME NEW v \in ShownVisits, Open(w, v)
        PROVE  \E to \in ShownVisits \union {NoShownVisit} : \E sent \in SUBSET S : Fits(to, sent)
    <3>1. ViewerMove(w, v, {ViewerCall(w, "create", v)})
      BY <2>1 DEF Open
    <3>2. Fits(v, {ViewerCall(w, "create", v)})
      BY <1>1, <3>1
    <3>3. {ViewerCall(w, "create", v)} \in SUBSET S
      BY <1>1
    <3> QED
      BY <3>2, <3>3
  <2>2. ASSUME NEW v \in ShownVisits, Switch(w, v)
        PROVE  \E to \in ShownVisits \union {NoShownVisit} : \E sent \in SUBSET S : Fits(to, sent)
    <3> DEFINE calls3 == {ViewerCall(w, "unvote", showing[w]), ViewerCall(w, "vote", v),
                          ViewerCall(w, "create", v)}
    <3>1. showing[w] \in ShownVisits /\ ViewerMove(w, v, calls3)
      BY <2>2 DEF Switch
    <3>2. calls3 \subseteq S /\ \A c \in calls3 : c.kind = "unvote" => c.visit = showing[w]
      BY <1>1, <3>1
    <3>3. Fits(v, calls3)
      BY <3>1, <3>2
    <3> QED
      BY <3>2, <3>3
  <2>3. ASSUME Leave(w)
        PROVE  \E to \in ShownVisits \union {NoShownVisit} : \E sent \in SUBSET S : Fits(to, sent)
    <3> DEFINE unvote == {ViewerCall(w, "unvote", showing[w])}
    <3>1. showing[w] \in ShownVisits /\ ViewerMove(w, NoShownVisit, unvote)
      BY <2>3 DEF Leave
    <3>2. Fits(NoShownVisit, unvote)
      BY <1>1, <3>1
    <3>3. unvote \in SUBSET S
      BY <1>1, <3>1
    <3> QED
      BY <3>2, <3>3
  <2>4. \E to \in ShownVisits \union {NoShownVisit} : \E sent \in SUBSET S : Fits(to, sent)
    BY <2>1, <2>2, <2>3
  <2> QED
    BY <2>4
<1>3. showing[w] \in ShownVisits => showing[w] \in left'
  BY <1>2 DEF ViewerMove
<1>4. \A c \in sent : c.kind = "unvote" => c.visit \in left'
  BY <1>2, <1>3
<1> QED
  BY <1>2, <1>4 DEF ViewerMove

\* A call arrives at the coordinator.
LEMMA CallArrives ==
    ASSUME VotesIInv, NEW c \in calls, CreateJob(c) \/ CountVote(c) \/ CountUnvote(c)
    PROVE  VotesIInv'
<1> USE VotesAssumption
    DEF VotesIInv, VotesTypeOK, DroppedWasLeft, CountInv, InDictionary, Arrive
<1>1. c.visit \in ShownVisits
  OBVIOUS
<1>2. CASE CreateJob(c)
  BY <1>1, <1>2 DEF CreateJob
<1>3. CASE CountVote(c)
  BY <1>1, <1>3 DEF CountVote, Count
<1>4. CASE CountUnvote(c)
  BY <1>1, <1>4 DEF CountUnvote, Count
<1> QED
  BY <1>2, <1>3, <1>4

\* A job goes on, is dropped, or is forgotten.
LEMMA JobGoesOn ==
    ASSUME VotesIInv, NEW v \in ShownVisits,
           EnterStage(v) \/ Drop(v) \/ FinishJob(v) \/ Forget(v)
    PROVE  VotesIInv'
<1> USE VotesAssumption DEF VotesIInv, VotesTypeOK, DroppedWasLeft, CountInv, InDictionary
<1>1. CASE EnterStage(v)
  BY <1>1 DEF EnterStage
<1>2. CASE Drop(v)
  BY <1>2 DEF Drop
<1>3. CASE FinishJob(v)
  BY <1>3 DEF FinishJob
<1>4. CASE Forget(v)
  BY <1>4 DEF Forget
<1> QED
  BY <1>1, <1>2, <1>3, <1>4

\* For any viewers and visits: a job is dropped for lack of users only after somebody left
\* its visit, whatever calls are lost or come in another order.
THEOREM DroppedOnlyIfLeft == VotesSpec => []VotesInv
<1>1. VotesIInv /\ [VotesNext]_votesVars => VotesIInv'
  <2>1. VotesIInv /\ UNCHANGED votesVars => VotesIInv'
    BY DEF VotesIInv, VotesTypeOK, DroppedWasLeft, CountInv, InDictionary, votesVars
  <2> QED
    BY <2>1, ViewerMoves, CallArrives, JobGoesOn DEF VotesNext
<1>2. VotesIInv => VotesInv
  BY DEF VotesIInv, VotesInv
<1> QED
  BY <1>1, <1>2, VotesInitIInv, PTL DEF VotesSpec

-----------------------------------------------------------------------------
(* The versions of the cache. *)

\* What is ready is under the prefix of the version in meta.json, by whatever version it was
\* made: a plan for another version deletes all rows before it writes meta.json.
ReadyIsOfMetadata ==
    \A q \in CachedVisits : rows[q] = "ready" => <<metadata, q>> \in objects

\* Where the start is: the plan has what is stale, rows are deleted before meta.json is
\* written, and it is written before anything is served.
StartInv ==
    /\ step \in {"rows", "metadata", "cleanup", "up"} => ListedVersions \ {expected} \subseteq stale
    /\ step = "down" => stale = {}
    /\ step = "metadata" => \A q \in CachedVisits : rows[q] = "none"
    /\ step \in {"cleanup", "up"} => metadata = expected

\* The inductive invariant of the versions.
VersionsIInv == VersionsTypeOK /\ ReadyIsOfMetadata /\ StartInv

\* The first coordinator finds an empty storage.
LEMMA VersionsInitIInv == VersionsInit => VersionsIInv
BY VersionsAssumption
   DEF VersionsInit, VersionsIInv, VersionsTypeOK, ReadyIsOfMetadata, StartInv

\* Every step of a start, of its cleanup and of the jobs keeps the invariant.
LEMMA VersionsStep == VersionsIInv /\ [VersionsNext]_versionsVars => VersionsIInv'
<1> SUFFICES ASSUME VersionsIInv, [VersionsNext]_versionsVars PROVE VersionsIInv'
  OBVIOUS
<1> USE VersionsAssumption
    DEF VersionsIInv, VersionsTypeOK, ReadyIsOfMetadata, StartInv
<1>1. ASSUME NEW v \in Versions, StartVersion(v) PROVE VersionsIInv'
  BY <1>1 DEF StartVersion, ListedVersions
<1>2. CASE Plan
  BY <1>2 DEF Plan, ListedVersions
<1>3. CASE DeleteRows
  BY <1>3 DEF DeleteRows, ListedVersions
<1>4. CASE PutMetadata
  BY <1>4 DEF PutMetadata, ListedVersions
<1>5. CASE VersionUp
  BY <1>5 DEF VersionUp, ListedVersions
<1>6. CASE Stop
  BY <1>6 DEF Stop
<1>7. ASSUME NEW o \in objects, DeleteStale(o) PROVE VersionsIInv'
  <2>1. objects' \subseteq objects /\ stale' = stale /\ expected' = expected
    BY <1>7 DEF DeleteStale
  <2>2. ListedVersions' \subseteq ListedVersions
    BY <2>1 DEF ListedVersions
  <2>3. step \in {"cleanup", "up"} => \A q \in CachedVisits : <<metadata, q>> # o
    BY <1>7 DEF DeleteStale
  <2> QED
    BY <1>7, <2>1, <2>2, <2>3 DEF DeleteStale
<1>8. ASSUME NEW q \in CachedVisits,
             CleanupObjects(q) \/ CleanupRow(q) \/ CreateEntry(q) \/ Upload(q) \/ EntryReady(q)
      PROVE  VersionsIInv'
  <2>1. CASE CleanupObjects(q)
    <3>1. objects' \subseteq objects
      BY <2>1 DEF CleanupObjects
    <3>2. ListedVersions' \subseteq ListedVersions
      BY <3>1 DEF ListedVersions
    <3> QED
      BY <2>1, <3>2 DEF CleanupObjects
  <2>2. CASE CleanupRow(q)
    BY <2>2 DEF CleanupRow, ListedVersions
  <2>3. CASE CreateEntry(q)
    BY <2>3 DEF CreateEntry, ListedVersions
  <2>4. CASE Upload(q)
    <3>1. ListedVersions' \subseteq ListedVersions \union {expected}
      BY <2>4 DEF Upload, ListedVersions
    <3> QED
      BY <2>4, <3>1 DEF Upload
  <2>5. CASE EntryReady(q)
    BY <2>5 DEF EntryReady, ListedVersions
  <2> QED
    BY <1>8, <2>1, <2>2, <2>3, <2>4, <2>5
<1>9. CASE UNCHANGED versionsVars
  BY <1>9 DEF versionsVars, ListedVersions
<1> QED
  BY <1>1, <1>2, <1>3, <1>4, <1>5, <1>6, <1>7, <1>8, <1>9 DEF VersionsNext

\* What the run checks with three versions holds for any: what is ready after a start is
\* served from the current prefix, and nothing stale is forgotten.
THEOREM VersionsAreKeptApart == VersionsSpec => []VersionsInv
<1>1. VersionsIInv => VersionsInv
  BY DEF VersionsIInv, VersionsInv, ReadyIsServed, StaleIsPlanned, ReadyIsOfMetadata,
     StartInv
<1> QED
  BY <1>1, VersionsInitIInv, VersionsStep, PTL DEF VersionsSpec

-----------------------------------------------------------------------------
(* The tokens of the deploy broker. *)

\* Where a thread is rewriting the token files.
Writing == {"clear argocd", "write argocd", "clear app", "write app"}

\* Where it has the flock of the token files.
WithFlock == {"command", "clear argocd", "write argocd", "clear app", "write app"}

\* Where it has the lock of its process.
WithLock == {"command", "clear argocd", "write argocd", "clear app", "write app", "read",
             "flock", "read back", "set"}

\* The types of everything; every token that is anywhere has been made.
TokenShapes ==
    /\ tokenFile \in [Services -> Nat] /\ \A s \in Services : tokenFile[s] <= last
    /\ lock \subseteq BrokerThreads /\ flock \in BrokerThreads \union {Nobody}
    /\ DOMAIN at = BrokerThreads /\ DOMAIN refresh = BrokerThreads
    /\ service \in [BrokerThreads -> Services]
    /\ token \in [BrokerThreads -> Nat] /\ \A t \in BrokerThreads : token[t] <= last
    /\ rejected \in [BrokerThreads -> Nat] /\ \A t \in BrokerThreads : rejected[t] <= last
    /\ made \in [BrokerThreads -> Nat] /\ \A t \in BrokerThreads : made[t] <= last
    /\ last \in Nat /\ last <= MaxTokens /\ expired \in Nat /\ expired <= last
    /\ fills \subseteq 1 .. last
    /\ tokenFaults \in Nat

\* Where the locks are.
TokenLocks ==
    /\ \A t, u \in lock : ProcessOf(t) = ProcessOf(u) => t = u
    /\ \A t \in BrokerThreads : at[t] \in WithLock => t \in lock
    /\ \A t \in BrokerThreads : at[t] \in WithFlock <=> flock = t

\* What the thread with the file lock finds and leaves in the files, step by step, and what
\* one finds that reads back without it.
TokenFiles ==
    ~setByHand =>
        \A t \in BrokerThreads :
            /\ at[t] # "set"
            /\ at[t] = "command" /\ ~refresh[t] => tokenFile[service[t]] = None
            /\ at[t] \in Writing => made[t] = last /\ last # 0
            /\ at[t] = "write argocd" => tokenFile["argocd"] = None
            /\ at[t] \in {"clear app", "write app"} => tokenFile["argocd"] = made[t]
            /\ at[t] = "write app" => tokenFile["app"] = None
            /\ at[t] = "read back" =>
                  tokenFile[service[t]] = None \/ tokenFile[service[t]] >= made[t]

\* A refreshing thread has the command make a token after the one that was rejected.
TokenRefreshes ==
    \A t \in BrokerThreads :
        /\ at[t] = "read" => ~refresh[t]
        /\ at[t] \in Writing \union {"read back"} /\ refresh[t] => made[t] > rejected[t]

\* A file that is missing while none is written: then each command that filled it was undone
\* by a failure.
FillsAreUndone ==
    (/\ ~setByHand
     /\ \A t \in BrokerThreads : at[t] \notin Writing
     /\ \E s \in Services : tokenFile[s] = None) => Cardinality(fills) <= tokenFaults

\* The two files, while none is written.
FilesAgree ==
    (/\ ~setByHand /\ tokenFaults = 0
     /\ \A t \in BrokerThreads : at[t] \notin {"write argocd", "clear app", "write app"}) =>
        tokenFile["argocd"] = tokenFile["app"]

\* The inductive invariant of the tokens.
TokensIInv ==
    /\ TokenShapes /\ TokenLocks /\ TokenFiles /\ TokenRefreshes
    /\ FilledOnce /\ FillsAreUndone /\ FilesAgree /\ RepeatedWithNewer

\* The invariant says what the run checks.
LEMMA TokensIInvImplies == TokensIInv => TokensInv
<1> SUFFICES ASSUME TokensIInv PROVE TokensInv
  OBVIOUS
<1>1. tokenFile \in [Services -> 0 .. MaxTokens] /\ token \in [BrokerThreads -> 0 .. MaxTokens]
  BY TokensAssumption DEF TokensIInv, TokenShapes
<1>2. \A t \in BrokerThreads : at[t] \in WithFlock => flock = t /\ t \in lock
  BY DEF TokensIInv, TokenLocks, WithFlock, WithLock
<1>a. flock # Nobody => flock \in lock
  BY DEF TokensIInv, TokenShapes, TokenLocks, WithFlock, WithLock
<1>b. TokensTypeOK
  BY <1>1, <1>2, <1>a DEF TokensIInv, TokenShapes, TokenLocks, TokensTypeOK, WithFlock
<1>3. TokensBelongTogether
  BY TokensAssumption DEF TokensIInv, TokenLocks, TokensBelongTogether, FilesAgree,
     WithFlock, Nobody
<1> QED
  BY <1>b, <1>3 DEF TokensInv, TokensIInv

\* At the beginning there are no files.
LEMMA TokensInitIInv == TokensInit => TokensIInv
<1> SUFFICES ASSUME TokensInit PROVE TokensIInv
  OBVIOUS
<1> USE TokensAssumption DEF TokensInit
<1>1. TokenShapes /\ TokenLocks /\ TokenFiles /\ TokenRefreshes
  BY DEF TokenShapes, TokenLocks, TokenFiles, TokenRefreshes, WithFlock, WithLock, Writing,
         Services, None, Nobody
<1>2. Cardinality(fills) = 0
  BY FS_EmptySet
<1>3. FilledOnce /\ FillsAreUndone /\ FilesAgree /\ RepeatedWithNewer
  BY <1>2 DEF FilledOnce, FillsAreUndone, FilesAgree, RepeatedWithNewer, Services, None
<1> QED
  BY <1>1, <1>3 DEF TokensIInv

\* The commands that filled a file are finitely many.
LEMMA FillsCount ==
    ASSUME TokenShapes
    PROVE  /\ Cardinality(fills) \in Nat
           /\ Cardinality(fills \union {last + 1}) = Cardinality(fills) + 1
<1>1. fills \subseteq 1 .. last /\ last \in Nat
  BY TokensAssumption DEF TokenShapes
<1>2. IsFiniteSet(1 .. last)
  BY <1>1, FS_Interval
<1>3. IsFiniteSet(fills)
  BY <1>1, <1>2, FS_Subset
<1>4. last + 1 \notin fills
  BY <1>1
<1> QED
  BY <1>3, <1>4, FS_CardinalityType, FS_AddElement

\* The steps of a thread that touch neither the files nor the commands.
LEMMA ThreadGoesOn ==
    ASSUME TokensIInv, NEW t \in BrokerThreads,
           \/ \E s \in Services : Begin(t, s)
           \/ Lock(t) \/ ReadToken(t) \/ Flock(t) \/ ReadBack(t) \/ Send(t)
    PROVE  TokensIInv'
<1>i1. TokenShapes
  BY DEF TokensIInv
<1>i2. TokenLocks
  BY DEF TokensIInv
<1>i3. TokenFiles
  BY DEF TokensIInv
<1>i4. TokenRefreshes
  BY DEF TokensIInv
<1>i5. FilledOnce
  BY DEF TokensIInv
<1>i6. FillsAreUndone
  BY DEF TokensIInv
<1>i7. FilesAgree
  BY DEF TokensIInv
<1>i8. RepeatedWithNewer
  BY DEF TokensIInv
<1>m. "nobody" \notin BrokerThreads /\ MaxTokens \in Nat
  BY TokensAssumption
<1>c. /\ Cardinality(fills) \in Nat
      /\ Cardinality(fills \union {last + 1}) = Cardinality(fills) + 1
      /\ tokenFaults \in Nat /\ last \in Nat /\ 0 <= last
  BY <1>i1, FillsCount DEF TokenShapes
<1>f. tokenFaults + 1 \in Nat /\ tokenFaults + 1 # 0
      /\ (Cardinality(fills) <= tokenFaults + 1 => Cardinality(fills) <= 1 + (tokenFaults + 1))
      /\ (Cardinality(fills) <= 1 + tokenFaults => Cardinality(fills) <= tokenFaults + 1)
      /\ (Cardinality(fills) <= tokenFaults => Cardinality(fills) + 1 <= 1 + tokenFaults)
      /\ (Cardinality(fills) <= 1 + tokenFaults => Cardinality(fills) <= 1 + (tokenFaults + 1))
  BY <1>c
<1>n. /\ last + 1 \in Nat /\ last + 1 # 0
      /\ (last < MaxTokens => last + 1 <= MaxTokens)
      /\ \A x \in Nat : x <= last => x <= last + 1 /\ last + 1 > x
      /\ 1 .. last \subseteq 1 .. (last + 1) /\ last + 1 \in 1 .. (last + 1)
  BY <1>c, <1>m
<1>1. ASSUME NEW s \in Services, Begin(t, s) PROVE TokensIInv'
  <2>1. TokenShapes'
    BY <1>1, <1>i1, <1>m DEF Begin, Goto, locks, TokenShapes, Services, None
  <2>2. TokenLocks'
    BY <1>1, <1>i1, <1>i2, <1>m
       DEF Begin, Goto, locks, TokenShapes, TokenLocks, WithLock, WithFlock, Nobody
  <2>3. TokenFiles'
    BY <1>1, <1>i1, <1>i2, <1>i3, <1>m DEF Begin, Goto, locks, TokenShapes, TokenLocks,
       TokenFiles, WithFlock, Writing, Services, None, Nobody
  <2>4. TokenRefreshes'
    BY <1>1, <1>i1, <1>i4, <1>m
       DEF Begin, Goto, locks, TokenShapes, TokenRefreshes, Writing
  <2>5. FilledOnce'
    BY <1>1, <1>i2, <1>i3, <1>i5, <1>i6, <1>c, <1>m DEF Begin, Goto, locks, TokenLocks,
       TokenFiles, FilledOnce, FillsAreUndone, WithFlock, Writing, Services, None
  <2>6. FillsAreUndone'
    BY <1>1, <1>i1, <1>i2, <1>i3, <1>i5, <1>i6, <1>c, <1>m DEF Begin, Goto, locks,
       TokenShapes, TokenLocks, TokenFiles, FilledOnce, FillsAreUndone, WithFlock, Writing,
       Services, None
  <2>7. FilesAgree'
    BY <1>1, <1>i1, <1>i2, <1>i3, <1>i7, <1>m DEF Begin, Goto, locks, TokenShapes,
       TokenLocks, TokenFiles, FilesAgree, WithFlock, Writing, Services, None
  <2>8. RepeatedWithNewer'
    BY <1>1, <1>i1, <1>i3, <1>i4, <1>i8, <1>m DEF Begin, Goto, locks, TokenShapes,
       TokenFiles, TokenRefreshes, RepeatedWithNewer, Writing, None
  <2> QED
    BY <2>1, <2>2, <2>3, <2>4, <2>5, <2>6, <2>7, <2>8 DEF TokensIInv
<1>2. CASE Lock(t)
  <2>1. TokenShapes'
    BY <1>2, <1>i1, <1>m DEF Lock, Goto, request, tokenBounds, TokenShapes, Services, None
  <2>2. TokenLocks'
    BY <1>2, <1>i1, <1>i2, <1>m DEF Lock, Goto, request, tokenBounds, TokenShapes,
       TokenLocks, WithLock, WithFlock, Nobody
  <2>3. TokenFiles'
    BY <1>2, <1>i1, <1>i2, <1>i3, <1>m DEF Lock, Goto, request, tokenBounds, TokenShapes,
       TokenLocks, TokenFiles, WithFlock, Writing, Services, None, Nobody
  <2>4. TokenRefreshes'
    BY <1>2, <1>i1, <1>i4, <1>m
       DEF Lock, Goto, request, tokenBounds, TokenShapes, TokenRefreshes, Writing
  <2>5. FilledOnce'
    BY <1>2, <1>i2, <1>i3, <1>i5, <1>i6, <1>c, <1>m DEF Lock, Goto, request, tokenBounds,
       TokenLocks, TokenFiles, FilledOnce, FillsAreUndone, WithFlock, Writing, Services,
       None
  <2>6. FillsAreUndone'
    BY <1>2, <1>i1, <1>i2, <1>i3, <1>i5, <1>i6, <1>c, <1>m DEF Lock, Goto, request,
       tokenBounds, TokenShapes, TokenLocks, TokenFiles, FilledOnce, FillsAreUndone,
       WithFlock, Writing, Services, None
  <2>7. FilesAgree'
    BY <1>2, <1>i1, <1>i2, <1>i3, <1>i7, <1>m DEF Lock, Goto, request, tokenBounds,
       TokenShapes, TokenLocks, TokenFiles, FilesAgree, WithFlock, Writing, Services, None
  <2>8. RepeatedWithNewer'
    BY <1>2, <1>i1, <1>i3, <1>i4, <1>i8, <1>m DEF Lock, Goto, request, tokenBounds,
       TokenShapes, TokenFiles, TokenRefreshes, RepeatedWithNewer, Writing, None
  <2> QED
    BY <2>1, <2>2, <2>3, <2>4, <2>5, <2>6, <2>7, <2>8 DEF TokensIInv
<1>3. CASE ReadToken(t)
  <2>1. CASE tokenFile[service[t]] # None
    <3>0. /\ at[t] = "read"
          /\ token' = [token EXCEPT ![t] = tokenFile[service[t]]]
          /\ lock' = lock \ {t}
          /\ flock' = IF flock = t THEN Nobody ELSE flock
          /\ at' = [at EXCEPT ![t] = "send"]
          /\ UNCHANGED <<tokenFile, service, refresh, rejected, made, last, expired, fills,
                         setByHand, tokenFaults>>
      BY <1>3, <2>1, <1>i1, <1>i2, <1>m DEF ReadToken, TokenShapes, TokenLocks, WithFlock,
         Nobody, None, Return, Goto, request, locks, tokenBounds
    <3>1. TokenShapes'
      BY <3>0, <2>1, <1>i1, <1>m DEF TokenShapes, Services, None
    <3>2. TokenLocks'
      BY <3>0, <2>1, <1>i1, <1>i2, <1>m
         DEF TokenShapes, TokenLocks, WithLock, WithFlock, Nobody
    <3>3. TokenFiles'
      BY <3>0, <2>1, <1>i1, <1>i2, <1>i3, <1>m DEF TokenShapes, TokenLocks, TokenFiles,
         WithFlock, Writing, Services, None, Nobody
    <3>4. TokenRefreshes'
      BY <3>0, <2>1, <1>i1, <1>i4, <1>m DEF TokenShapes, TokenRefreshes, Writing
    <3>5. FilledOnce'
      BY <3>0, <2>1, <1>i2, <1>i3, <1>i5, <1>i6, <1>c, <1>m DEF TokenLocks, TokenFiles,
         FilledOnce, FillsAreUndone, WithFlock, Writing, Services, None
    <3>6. FillsAreUndone'
      BY <3>0, <2>1, <1>i1, <1>i2, <1>i3, <1>i5, <1>i6, <1>c, <1>m DEF TokenShapes,
         TokenLocks, TokenFiles, FilledOnce, FillsAreUndone, WithFlock, Writing, Services,
         None
    <3>7. FilesAgree'
      BY <3>0, <2>1, <1>i1, <1>i2, <1>i3, <1>i7, <1>m DEF TokenShapes, TokenLocks,
         TokenFiles, FilesAgree, WithFlock, Writing, Services, None
    <3>8. RepeatedWithNewer'
      BY <3>0, <2>1, <1>i1, <1>i3, <1>i4, <1>i8, <1>m
         DEF TokenShapes, TokenFiles, TokenRefreshes, RepeatedWithNewer, Writing, None
    <3> QED
      BY <3>1, <3>2, <3>3, <3>4, <3>5, <3>6, <3>7, <3>8 DEF TokensIInv
  <2>2. CASE tokenFile[service[t]] = None
    <3>0. /\ at[t] = "read"
          /\ at' = [at EXCEPT ![t] = "flock"]
          /\ UNCHANGED <<token, lock, flock, tokenFile, service, refresh, rejected, made,
                         last, expired, fills, setByHand, tokenFaults>>
      BY <1>3, <2>2, <1>i1, <1>i2, <1>m DEF ReadToken, TokenShapes, TokenLocks, WithFlock,
         Nobody, None, Return, Goto, request, locks, tokenBounds
    <3>1. TokenShapes'
      BY <3>0, <2>2, <1>i1, <1>m DEF TokenShapes, Services, None
    <3>2. TokenLocks'
      BY <3>0, <2>2, <1>i1, <1>i2, <1>m
         DEF TokenShapes, TokenLocks, WithLock, WithFlock, Nobody
    <3>3. TokenFiles'
      BY <3>0, <2>2, <1>i1, <1>i2, <1>i3, <1>m DEF TokenShapes, TokenLocks, TokenFiles,
         WithFlock, Writing, Services, None, Nobody
    <3>4. TokenRefreshes'
      BY <3>0, <2>2, <1>i1, <1>i4, <1>m DEF TokenShapes, TokenRefreshes, Writing
    <3>5. FilledOnce'
      BY <3>0, <2>2, <1>i2, <1>i3, <1>i5, <1>i6, <1>c, <1>m DEF TokenLocks, TokenFiles,
         FilledOnce, FillsAreUndone, WithFlock, Writing, Services, None
    <3>6. FillsAreUndone'
      BY <3>0, <2>2, <1>i1, <1>i2, <1>i3, <1>i5, <1>i6, <1>c, <1>m DEF TokenShapes,
         TokenLocks, TokenFiles, FilledOnce, FillsAreUndone, WithFlock, Writing, Services,
         None
    <3>7. FilesAgree'
      BY <3>0, <2>2, <1>i1, <1>i2, <1>i3, <1>i7, <1>m DEF TokenShapes, TokenLocks,
         TokenFiles, FilesAgree, WithFlock, Writing, Services, None
    <3>8. RepeatedWithNewer'
      BY <3>0, <2>2, <1>i1, <1>i3, <1>i4, <1>i8, <1>m
         DEF TokenShapes, TokenFiles, TokenRefreshes, RepeatedWithNewer, Writing, None
    <3> QED
      BY <3>1, <3>2, <3>3, <3>4, <3>5, <3>6, <3>7, <3>8 DEF TokensIInv
  <2> QED
    BY <2>1, <2>2
<1>4. CASE Flock(t)
  <2>1. CASE ~refresh[t] /\ tokenFile[service[t]] # None
    <3>0. /\ at[t] = "flock" /\ flock = Nobody
          /\ token' = [token EXCEPT ![t] = tokenFile[service[t]]]
          /\ lock' = lock \ {t}
          /\ flock' = flock
          /\ at' = [at EXCEPT ![t] = "send"]
          /\ UNCHANGED <<tokenFile, service, refresh, rejected, made, last, expired, fills,
                         setByHand, tokenFaults>>
      BY <1>4, <2>1, <1>i1, <1>i2, <1>m DEF Flock, TokenShapes, TokenLocks, WithFlock,
         Nobody, None, Return, Goto, request, locks, tokenBounds
    <3>1. TokenShapes'
      BY <3>0, <2>1, <1>i1, <1>m DEF TokenShapes, Services, None
    <3>2. TokenLocks'
      BY <3>0, <2>1, <1>i1, <1>i2, <1>m
         DEF TokenShapes, TokenLocks, WithLock, WithFlock, Nobody
    <3>3. TokenFiles'
      BY <3>0, <2>1, <1>i1, <1>i2, <1>i3, <1>m DEF TokenShapes, TokenLocks, TokenFiles,
         WithFlock, Writing, Services, None, Nobody
    <3>4. TokenRefreshes'
      BY <3>0, <2>1, <1>i1, <1>i4, <1>m DEF TokenShapes, TokenRefreshes, Writing
    <3>5. FilledOnce'
      BY <3>0, <2>1, <1>i2, <1>i3, <1>i5, <1>i6, <1>c, <1>m DEF TokenLocks, TokenFiles,
         FilledOnce, FillsAreUndone, WithFlock, Writing, Services, None
    <3>6. FillsAreUndone'
      BY <3>0, <2>1, <1>i1, <1>i2, <1>i3, <1>i5, <1>i6, <1>c, <1>m DEF TokenShapes,
         TokenLocks, TokenFiles, FilledOnce, FillsAreUndone, WithFlock, Writing, Services,
         None
    <3>7. FilesAgree'
      BY <3>0, <2>1, <1>i1, <1>i2, <1>i3, <1>i7, <1>m DEF TokenShapes, TokenLocks,
         TokenFiles, FilesAgree, WithFlock, Writing, Services, None
    <3>8. RepeatedWithNewer'
      BY <3>0, <2>1, <1>i1, <1>i3, <1>i4, <1>i8, <1>m
         DEF TokenShapes, TokenFiles, TokenRefreshes, RepeatedWithNewer, Writing, None
    <3> QED
      BY <3>1, <3>2, <3>3, <3>4, <3>5, <3>6, <3>7, <3>8 DEF TokensIInv
  <2>2. CASE ~(~refresh[t] /\ tokenFile[service[t]] # None)
    <3>0. /\ at[t] = "flock" /\ flock = Nobody
          /\ at' = [at EXCEPT ![t] = "command"]
          /\ flock' = t
          /\ UNCHANGED <<token, lock, tokenFile, service, refresh, rejected, made, last,
                         expired, fills, setByHand, tokenFaults>>
      BY <1>4, <2>2, <1>i1, <1>i2, <1>m DEF Flock, TokenShapes, TokenLocks, WithFlock,
         Nobody, None, Return, Goto, request, locks, tokenBounds
    <3>1. TokenShapes'
      BY <3>0, <2>2, <1>i1, <1>m DEF TokenShapes, Services, None
    <3>2. TokenLocks'
      BY <3>0, <2>2, <1>i1, <1>i2, <1>m
         DEF TokenShapes, TokenLocks, WithLock, WithFlock, Nobody
    <3>3. TokenFiles'
      BY <3>0, <2>2, <1>i1, <1>i2, <1>i3, <1>m DEF TokenShapes, TokenLocks, TokenFiles,
         WithFlock, Writing, Services, None, Nobody
    <3>4. TokenRefreshes'
      BY <3>0, <2>2, <1>i1, <1>i4, <1>m DEF TokenShapes, TokenRefreshes, Writing
    <3>5. FilledOnce'
      BY <3>0, <2>2, <1>i2, <1>i3, <1>i5, <1>i6, <1>c, <1>m DEF TokenLocks, TokenFiles,
         FilledOnce, FillsAreUndone, WithFlock, Writing, Services, None
    <3>6. FillsAreUndone'
      BY <3>0, <2>2, <1>i1, <1>i2, <1>i3, <1>i5, <1>i6, <1>c, <1>m DEF TokenShapes,
         TokenLocks, TokenFiles, FilledOnce, FillsAreUndone, WithFlock, Writing, Services,
         None
    <3>7. FilesAgree'
      BY <3>0, <2>2, <1>i1, <1>i2, <1>i3, <1>i7, <1>m DEF TokenShapes, TokenLocks,
         TokenFiles, FilesAgree, WithFlock, Writing, Services, None
    <3>8. RepeatedWithNewer'
      BY <3>0, <2>2, <1>i1, <1>i3, <1>i4, <1>i8, <1>m
         DEF TokenShapes, TokenFiles, TokenRefreshes, RepeatedWithNewer, Writing, None
    <3> QED
      BY <3>1, <3>2, <3>3, <3>4, <3>5, <3>6, <3>7, <3>8 DEF TokensIInv
  <2> QED
    BY <2>1, <2>2
<1>5. CASE ReadBack(t)
  <2>1. CASE tokenFile[service[t]] # None
    <3>0. /\ at[t] = "read back"
          /\ token' = [token EXCEPT ![t] = tokenFile[service[t]]]
          /\ lock' = lock \ {t}
          /\ flock' = IF flock = t THEN Nobody ELSE flock
          /\ at' = [at EXCEPT ![t] = "send"]
          /\ UNCHANGED <<tokenFile, service, refresh, rejected, made, last, expired, fills,
                         setByHand, tokenFaults>>
      BY <1>5, <2>1, <1>i1, <1>i2, <1>m DEF ReadBack, TokenShapes, TokenLocks, WithFlock,
         Nobody, None, Return, Goto, request, locks, tokenBounds
    <3>1. TokenShapes'
      BY <3>0, <2>1, <1>i1, <1>m DEF TokenShapes, Services, None
    <3>2. TokenLocks'
      BY <3>0, <2>1, <1>i1, <1>i2, <1>m
         DEF TokenShapes, TokenLocks, WithLock, WithFlock, Nobody
    <3>3. TokenFiles'
      BY <3>0, <2>1, <1>i1, <1>i2, <1>i3, <1>m DEF TokenShapes, TokenLocks, TokenFiles,
         WithFlock, Writing, Services, None, Nobody
    <3>4. TokenRefreshes'
      BY <3>0, <2>1, <1>i1, <1>i4, <1>m DEF TokenShapes, TokenRefreshes, Writing
    <3>5. FilledOnce'
      BY <3>0, <2>1, <1>i2, <1>i3, <1>i5, <1>i6, <1>c, <1>m DEF TokenLocks, TokenFiles,
         FilledOnce, FillsAreUndone, WithFlock, Writing, Services, None
    <3>6. FillsAreUndone'
      BY <3>0, <2>1, <1>i1, <1>i2, <1>i3, <1>i5, <1>i6, <1>c, <1>m DEF TokenShapes,
         TokenLocks, TokenFiles, FilledOnce, FillsAreUndone, WithFlock, Writing, Services,
         None
    <3>7. FilesAgree'
      BY <3>0, <2>1, <1>i1, <1>i2, <1>i3, <1>i7, <1>m DEF TokenShapes, TokenLocks,
         TokenFiles, FilesAgree, WithFlock, Writing, Services, None
    <3>8. RepeatedWithNewer'
      <4>1. token'[t] = tokenFile[service[t]] /\ token'[t] \in Nat
            /\ made[t] \in Nat /\ rejected[t] \in Nat
        BY <3>0, <1>i1 DEF TokenShapes
      <4>2. ~setByHand /\ refresh[t] => tokenFile[service[t]] >= made[t] /\ made[t] > rejected[t]
        BY <3>0, <2>1, <1>i3, <1>i4 DEF TokenFiles, TokenRefreshes, None
      <4>3. ~setByHand /\ refresh[t] => token'[t] > rejected[t]
        BY <4>1, <4>2
      <4>4. \A u \in BrokerThreads : u # t => at'[u] = at[u] /\ token'[u] = token[u]
        BY <3>0, <1>i1 DEF TokenShapes
      <4> QED
        BY <3>0, <4>3, <4>4, <1>i8 DEF RepeatedWithNewer
    <3> QED
      BY <3>1, <3>2, <3>3, <3>4, <3>5, <3>6, <3>7, <3>8 DEF TokensIInv
  <2>2. CASE tokenFile[service[t]] = None
    <3>0. /\ at[t] = "read back"
          /\ token' = [token EXCEPT ![t] = tokenFile[service[t]]]
          /\ lock' = lock \ {t}
          /\ flock' = IF flock = t THEN Nobody ELSE flock
          /\ at' = [at EXCEPT ![t] = "idle"]
          /\ UNCHANGED <<tokenFile, service, refresh, rejected, made, last, expired, fills,
                         setByHand, tokenFaults>>
      BY <1>5, <2>2, <1>i1, <1>i2, <1>m DEF ReadBack, TokenShapes, TokenLocks, WithFlock,
         Nobody, None, Return, Goto, request, locks, tokenBounds
    <3>1. TokenShapes'
      BY <3>0, <2>2, <1>i1, <1>m DEF TokenShapes, Services, None
    <3>2. TokenLocks'
      BY <3>0, <2>2, <1>i1, <1>i2, <1>m
         DEF TokenShapes, TokenLocks, WithLock, WithFlock, Nobody
    <3>3. TokenFiles'
      BY <3>0, <2>2, <1>i1, <1>i2, <1>i3, <1>m DEF TokenShapes, TokenLocks, TokenFiles,
         WithFlock, Writing, Services, None, Nobody
    <3>4. TokenRefreshes'
      BY <3>0, <2>2, <1>i1, <1>i4, <1>m DEF TokenShapes, TokenRefreshes, Writing
    <3>5. FilledOnce'
      BY <3>0, <2>2, <1>i2, <1>i3, <1>i5, <1>i6, <1>c, <1>m DEF TokenLocks, TokenFiles,
         FilledOnce, FillsAreUndone, WithFlock, Writing, Services, None
    <3>6. FillsAreUndone'
      BY <3>0, <2>2, <1>i1, <1>i2, <1>i3, <1>i5, <1>i6, <1>c, <1>m DEF TokenShapes,
         TokenLocks, TokenFiles, FilledOnce, FillsAreUndone, WithFlock, Writing, Services,
         None
    <3>7. FilesAgree'
      BY <3>0, <2>2, <1>i1, <1>i2, <1>i3, <1>i7, <1>m DEF TokenShapes, TokenLocks,
         TokenFiles, FilesAgree, WithFlock, Writing, Services, None
    <3>8. RepeatedWithNewer'
      BY <3>0, <2>2, <1>i1, <1>i3, <1>i4, <1>i8, <1>m
         DEF TokenShapes, TokenFiles, TokenRefreshes, RepeatedWithNewer, Writing, None
    <3> QED
      BY <3>1, <3>2, <3>3, <3>4, <3>5, <3>6, <3>7, <3>8 DEF TokensIInv
  <2> QED
    BY <2>1, <2>2
<1>6. CASE Send(t)
  <2>1. CASE token[t] > expired \/ refresh[t]
    <3>0. /\ at[t] = "send"
          /\ at' = [at EXCEPT ![t] = "idle"]
          /\ UNCHANGED <<tokenFile, lock, flock, service, refresh, rejected, token, made,
                         last, expired, fills, setByHand, tokenFaults>>
      BY <1>6, <2>1, <1>i1, <1>i2, <1>m DEF Send, TokenShapes, TokenLocks, WithFlock,
         Nobody, None, Return, Goto, request, locks, tokenBounds
    <3>1. TokenShapes'
      BY <3>0, <2>1, <1>i1, <1>m DEF TokenShapes, Services, None
    <3>2. TokenLocks'
      BY <3>0, <2>1, <1>i1, <1>i2, <1>m
         DEF TokenShapes, TokenLocks, WithLock, WithFlock, Nobody
    <3>3. TokenFiles'
      BY <3>0, <2>1, <1>i1, <1>i2, <1>i3, <1>m DEF TokenShapes, TokenLocks, TokenFiles,
         WithFlock, Writing, Services, None, Nobody
    <3>4. TokenRefreshes'
      BY <3>0, <2>1, <1>i1, <1>i4, <1>m DEF TokenShapes, TokenRefreshes, Writing
    <3>5. FilledOnce'
      BY <3>0, <2>1, <1>i2, <1>i3, <1>i5, <1>i6, <1>c, <1>m DEF TokenLocks, TokenFiles,
         FilledOnce, FillsAreUndone, WithFlock, Writing, Services, None
    <3>6. FillsAreUndone'
      BY <3>0, <2>1, <1>i1, <1>i2, <1>i3, <1>i5, <1>i6, <1>c, <1>m DEF TokenShapes,
         TokenLocks, TokenFiles, FilledOnce, FillsAreUndone, WithFlock, Writing, Services,
         None
    <3>7. FilesAgree'
      BY <3>0, <2>1, <1>i1, <1>i2, <1>i3, <1>i7, <1>m DEF TokenShapes, TokenLocks,
         TokenFiles, FilesAgree, WithFlock, Writing, Services, None
    <3>8. RepeatedWithNewer'
      BY <3>0, <2>1, <1>i1, <1>i3, <1>i4, <1>i8, <1>m
         DEF TokenShapes, TokenFiles, TokenRefreshes, RepeatedWithNewer, Writing, None
    <3> QED
      BY <3>1, <3>2, <3>3, <3>4, <3>5, <3>6, <3>7, <3>8 DEF TokensIInv
  <2>2. CASE ~(token[t] > expired \/ refresh[t])
    <3>0. /\ at[t] = "send"
          /\ at' = [at EXCEPT ![t] = "lock"]
          /\ refresh' = [refresh EXCEPT ![t] = TRUE]
          /\ rejected' = [rejected EXCEPT ![t] = token[t]]
          /\ UNCHANGED <<tokenFile, lock, flock, service, token, made, last, expired,
                         fills, setByHand, tokenFaults>>
      BY <1>6, <2>2, <1>i1, <1>i2, <1>m DEF Send, TokenShapes, TokenLocks, WithFlock,
         Nobody, None, Return, Goto, request, locks, tokenBounds
    <3>1. TokenShapes'
      BY <3>0, <2>2, <1>i1, <1>m DEF TokenShapes, Services, None
    <3>2. TokenLocks'
      BY <3>0, <2>2, <1>i1, <1>i2, <1>m
         DEF TokenShapes, TokenLocks, WithLock, WithFlock, Nobody
    <3>3. TokenFiles'
      BY <3>0, <2>2, <1>i1, <1>i2, <1>i3, <1>m DEF TokenShapes, TokenLocks, TokenFiles,
         WithFlock, Writing, Services, None, Nobody
    <3>4. TokenRefreshes'
      BY <3>0, <2>2, <1>i1, <1>i4, <1>m DEF TokenShapes, TokenRefreshes, Writing
    <3>5. FilledOnce'
      BY <3>0, <2>2, <1>i2, <1>i3, <1>i5, <1>i6, <1>c, <1>m DEF TokenLocks, TokenFiles,
         FilledOnce, FillsAreUndone, WithFlock, Writing, Services, None
    <3>6. FillsAreUndone'
      BY <3>0, <2>2, <1>i1, <1>i2, <1>i3, <1>i5, <1>i6, <1>c, <1>m DEF TokenShapes,
         TokenLocks, TokenFiles, FilledOnce, FillsAreUndone, WithFlock, Writing, Services,
         None
    <3>7. FilesAgree'
      BY <3>0, <2>2, <1>i1, <1>i2, <1>i3, <1>i7, <1>m DEF TokenShapes, TokenLocks,
         TokenFiles, FilesAgree, WithFlock, Writing, Services, None
    <3>8. RepeatedWithNewer'
      BY <3>0, <2>2, <1>i1, <1>i3, <1>i4, <1>i8, <1>m
         DEF TokenShapes, TokenFiles, TokenRefreshes, RepeatedWithNewer, Writing, None
    <3> QED
      BY <3>1, <3>2, <3>3, <3>4, <3>5, <3>6, <3>7, <3>8 DEF TokensIInv
  <2> QED
    BY <2>1, <2>2
<1> QED
  BY <1>1, <1>2, <1>3, <1>4, <1>5, <1>6

\* The token command, and the writing of its tokens.
LEMMA CommandRuns ==
    ASSUME TokensIInv, NEW t \in BrokerThreads,
           Command(t) \/ CommandFails(t) \/ WriteSecrets(t)
    PROVE  TokensIInv'
<1>i1. TokenShapes
  BY DEF TokensIInv
<1>i2. TokenLocks
  BY DEF TokensIInv
<1>i3. TokenFiles
  BY DEF TokensIInv
<1>i4. TokenRefreshes
  BY DEF TokensIInv
<1>i5. FilledOnce
  BY DEF TokensIInv
<1>i6. FillsAreUndone
  BY DEF TokensIInv
<1>i7. FilesAgree
  BY DEF TokensIInv
<1>i8. RepeatedWithNewer
  BY DEF TokensIInv
<1>m. "nobody" \notin BrokerThreads /\ MaxTokens \in Nat
  BY TokensAssumption
<1>c. /\ Cardinality(fills) \in Nat
      /\ Cardinality(fills \union {last + 1}) = Cardinality(fills) + 1
      /\ tokenFaults \in Nat /\ last \in Nat /\ 0 <= last
  BY <1>i1, FillsCount DEF TokenShapes
<1>f. tokenFaults + 1 \in Nat /\ tokenFaults + 1 # 0
      /\ (Cardinality(fills) <= tokenFaults + 1 => Cardinality(fills) <= 1 + (tokenFaults + 1))
      /\ (Cardinality(fills) <= 1 + tokenFaults => Cardinality(fills) <= tokenFaults + 1)
      /\ (Cardinality(fills) <= tokenFaults => Cardinality(fills) + 1 <= 1 + tokenFaults)
      /\ (Cardinality(fills) <= 1 + tokenFaults => Cardinality(fills) <= 1 + (tokenFaults + 1))
  BY <1>c
<1>n. /\ last + 1 \in Nat /\ last + 1 # 0
      /\ (last < MaxTokens => last + 1 <= MaxTokens)
      /\ \A x \in Nat : x <= last => x <= last + 1 /\ last + 1 > x
      /\ 1 .. last \subseteq 1 .. (last + 1) /\ last + 1 \in 1 .. (last + 1)
  BY <1>c, <1>m
<1>1. CASE Command(t)
  <2>1. CASE refresh[t]
    <3>0. /\ at[t] = "command" /\ last < MaxTokens /\ flock = t
          /\ last' = last + 1
          /\ made' = [made EXCEPT ![t] = last + 1]
          /\ at' = [at EXCEPT ![t] = "clear argocd"]
          /\ UNCHANGED <<tokenFile, lock, flock, service, refresh, rejected, token,
                         expired, setByHand, tokenFaults>>
          /\ fills' = fills
      BY <1>1, <2>1, <1>i1, <1>i2, <1>m DEF Command, TokenShapes, TokenLocks, WithFlock,
         Nobody, None, Return, Goto, request, locks, tokenBounds
    <3>1. TokenShapes'
      <4>1. made' \in [BrokerThreads -> Nat] /\ \A u \in BrokerThreads : made'[u] <= last'
        <5>1. made' \in [BrokerThreads -> Nat]
          BY <3>0, <1>n, <1>i1 DEF TokenShapes
        <5>2. \A u \in BrokerThreads : made'[u] = last' \/ (made'[u] = made[u] /\ made[u] <= last)
          BY <3>0, <1>i1 DEF TokenShapes
        <5>3. \A x \in Nat : x <= last => x <= last'
          BY <3>0, <1>n
        <5>4. last' \in Nat
          BY <3>0, <1>n
        <5>5. last' <= last'
          BY <5>4
        <5> QED
          BY <5>1, <5>2, <5>3, <5>5, <1>i1 DEF TokenShapes
      <4>2. /\ \A s \in Services : tokenFile'[s] <= last'
            /\ \A u \in BrokerThreads : token'[u] <= last'
            /\ \A u \in BrokerThreads : rejected'[u] <= last'
            /\ expired' \in Nat /\ expired' <= last'
        <5>3. \A x \in Nat : x <= last => x <= last'
          BY <3>0, <1>n
        <5> QED
          BY <3>0, <5>3, <1>i1 DEF TokenShapes
      <4>3. last' \in Nat /\ last' <= MaxTokens
        <5>1. last < MaxTokens /\ last' = last + 1
          BY <3>0
        <5> QED
          BY <5>1, <1>n
      <4>4. fills' \subseteq 1 .. last'
        BY <3>0, <1>n, <1>i1 DEF TokenShapes
      <4> QED
        BY <3>0, <4>1, <4>2, <4>3, <4>4, <1>i1, <1>c DEF TokenShapes
    <3>2. TokenLocks'
      BY <3>0, <2>1, <1>i1, <1>i2, <1>m
         DEF TokenShapes, TokenLocks, WithLock, WithFlock, Nobody
    <3>3. TokenFiles'
      <4>1. \A u \in BrokerThreads : u # t => at'[u] \notin WithFlock
        BY <3>0, <1>i1, <1>i2, <1>m DEF TokenShapes, TokenLocks, WithFlock
      <4>2. at'[t] = "clear argocd" /\ made'[t] = last'
        BY <3>0, <1>i1 DEF TokenShapes
      <4>3. \A u \in BrokerThreads : u # t => at'[u] = at[u] /\ made'[u] = made[u]
        BY <3>0, <1>i1 DEF TokenShapes
      <4>4. last' # 0
        BY <3>0, <1>n
      <4> QED
        BY <3>0, <4>1, <4>2, <4>3, <4>4, <1>i3 DEF TokenFiles, WithFlock, Writing
    <3>4. TokenRefreshes'
      <4>1. at'[t] = "clear argocd" /\ made'[t] = last + 1 /\ rejected'[t] = rejected[t]
            /\ rejected[t] \in Nat /\ rejected[t] <= last
        BY <3>0, <1>i1 DEF TokenShapes
      <4>2. made'[t] > rejected'[t]
        BY <4>1, <1>n
      <4>3. \A u \in BrokerThreads : u # t => at'[u] = at[u] /\ made'[u] = made[u]
        BY <3>0, <1>i1 DEF TokenShapes
      <4> QED
        BY <3>0, <4>1, <4>2, <4>3, <1>i4 DEF TokenRefreshes, Writing
    <3>5. FilledOnce'
      BY <3>0, <2>1, <1>i2, <1>i3, <1>i5, <1>i6, <1>c, <1>m DEF TokenLocks, TokenFiles,
         FilledOnce, FillsAreUndone, WithFlock, Writing, Services, None
    <3>6. FillsAreUndone'
      BY <3>0, <2>1, <1>i1, <1>i2, <1>i3, <1>i5, <1>i6, <1>c, <1>m DEF TokenShapes,
         TokenLocks, TokenFiles, FilledOnce, FillsAreUndone, WithFlock, Writing, Services,
         None
    <3>7. FilesAgree'
      BY <3>0, <2>1, <1>i1, <1>i2, <1>i3, <1>i7, <1>m DEF TokenShapes, TokenLocks,
         TokenFiles, FilesAgree, WithFlock, Writing, Services, None
    <3>8. RepeatedWithNewer'
      BY <3>0, <2>1, <1>i1, <1>i3, <1>i4, <1>i8, <1>m
         DEF TokenShapes, TokenFiles, TokenRefreshes, RepeatedWithNewer, Writing, None
    <3> QED
      BY <3>1, <3>2, <3>3, <3>4, <3>5, <3>6, <3>7, <3>8 DEF TokensIInv
  <2>2. CASE ~refresh[t]
    <3>0. /\ at[t] = "command" /\ last < MaxTokens /\ flock = t
          /\ last' = last + 1
          /\ made' = [made EXCEPT ![t] = last + 1]
          /\ at' = [at EXCEPT ![t] = "clear argocd"]
          /\ UNCHANGED <<tokenFile, lock, flock, service, refresh, rejected, token,
                         expired, setByHand, tokenFaults>>
          /\ fills' = fills \union {last + 1}
      BY <1>1, <2>2, <1>i1, <1>i2, <1>m DEF Command, TokenShapes, TokenLocks, WithFlock,
         Nobody, None, Return, Goto, request, locks, tokenBounds
    <3>1. TokenShapes'
      <4>1. made' \in [BrokerThreads -> Nat] /\ \A u \in BrokerThreads : made'[u] <= last'
        <5>1. made' \in [BrokerThreads -> Nat]
          BY <3>0, <1>n, <1>i1 DEF TokenShapes
        <5>2. \A u \in BrokerThreads : made'[u] = last' \/ (made'[u] = made[u] /\ made[u] <= last)
          BY <3>0, <1>i1 DEF TokenShapes
        <5>3. \A x \in Nat : x <= last => x <= last'
          BY <3>0, <1>n
        <5>4. last' \in Nat
          BY <3>0, <1>n
        <5>5. last' <= last'
          BY <5>4
        <5> QED
          BY <5>1, <5>2, <5>3, <5>5, <1>i1 DEF TokenShapes
      <4>2. /\ \A s \in Services : tokenFile'[s] <= last'
            /\ \A u \in BrokerThreads : token'[u] <= last'
            /\ \A u \in BrokerThreads : rejected'[u] <= last'
            /\ expired' \in Nat /\ expired' <= last'
        <5>3. \A x \in Nat : x <= last => x <= last'
          BY <3>0, <1>n
        <5> QED
          BY <3>0, <5>3, <1>i1 DEF TokenShapes
      <4>3. last' \in Nat /\ last' <= MaxTokens
        <5>1. last < MaxTokens /\ last' = last + 1
          BY <3>0
        <5> QED
          BY <5>1, <1>n
      <4>4. fills' \subseteq 1 .. last'
        BY <3>0, <1>n, <1>i1 DEF TokenShapes
      <4> QED
        BY <3>0, <4>1, <4>2, <4>3, <4>4, <1>i1, <1>c DEF TokenShapes
    <3>2. TokenLocks'
      BY <3>0, <2>2, <1>i1, <1>i2, <1>m
         DEF TokenShapes, TokenLocks, WithLock, WithFlock, Nobody
    <3>3. TokenFiles'
      <4>1. \A u \in BrokerThreads : u # t => at'[u] \notin WithFlock
        BY <3>0, <1>i1, <1>i2, <1>m DEF TokenShapes, TokenLocks, WithFlock
      <4>2. at'[t] = "clear argocd" /\ made'[t] = last'
        BY <3>0, <1>i1 DEF TokenShapes
      <4>3. \A u \in BrokerThreads : u # t => at'[u] = at[u] /\ made'[u] = made[u]
        BY <3>0, <1>i1 DEF TokenShapes
      <4>4. last' # 0
        BY <3>0, <1>n
      <4> QED
        BY <3>0, <4>1, <4>2, <4>3, <4>4, <1>i3 DEF TokenFiles, WithFlock, Writing
    <3>4. TokenRefreshes'
      <4>1. at'[t] = "clear argocd" /\ made'[t] = last + 1 /\ rejected'[t] = rejected[t]
            /\ rejected[t] \in Nat /\ rejected[t] <= last
        BY <3>0, <1>i1 DEF TokenShapes
      <4>2. made'[t] > rejected'[t]
        BY <4>1, <1>n
      <4>3. \A u \in BrokerThreads : u # t => at'[u] = at[u] /\ made'[u] = made[u]
        BY <3>0, <1>i1 DEF TokenShapes
      <4> QED
        BY <3>0, <4>1, <4>2, <4>3, <1>i4 DEF TokenRefreshes, Writing
    <3>5. FilledOnce'
      <4>1. Cardinality(fills') = Cardinality(fills) + 1
        BY <3>0, <1>c
      <4>2. \A u \in BrokerThreads : at[u] \notin Writing
        BY <3>0, <1>i2 DEF TokenLocks, WithFlock, Writing
      <4>3. ~setByHand => tokenFile[service[t]] = None /\ service[t] \in Services
        BY <3>0, <2>2, <1>i1, <1>i3 DEF TokenFiles, TokenShapes
      <4>4. ~setByHand => Cardinality(fills) <= tokenFaults
        BY <4>2, <4>3, <1>i6 DEF FillsAreUndone
      <4>5. ~setByHand => Cardinality(fills') <= 1 + tokenFaults
        BY <4>1, <4>4, <1>f
      <4> QED
        BY <3>0, <4>5 DEF FilledOnce
    <3>6. FillsAreUndone'
      BY <3>0, <2>2, <1>i1, <1>i2, <1>i3, <1>i5, <1>i6, <1>c, <1>m DEF TokenShapes,
         TokenLocks, TokenFiles, FilledOnce, FillsAreUndone, WithFlock, Writing, Services,
         None
    <3>7. FilesAgree'
      BY <3>0, <2>2, <1>i1, <1>i2, <1>i3, <1>i7, <1>m DEF TokenShapes, TokenLocks,
         TokenFiles, FilesAgree, WithFlock, Writing, Services, None
    <3>8. RepeatedWithNewer'
      BY <3>0, <2>2, <1>i1, <1>i3, <1>i4, <1>i8, <1>m
         DEF TokenShapes, TokenFiles, TokenRefreshes, RepeatedWithNewer, Writing, None
    <3> QED
      BY <3>1, <3>2, <3>3, <3>4, <3>5, <3>6, <3>7, <3>8 DEF TokensIInv
  <2> QED
    BY <2>1, <2>2
<1>2. CASE CommandFails(t)
  <2>1. CASE TRUE
    <3>0. /\ at[t] = "command" /\ flock = t
          /\ tokenFaults' = tokenFaults + 1
          /\ token' = [token EXCEPT ![t] = None]
          /\ lock' = lock \ {t} /\ flock' = Nobody
          /\ at' = [at EXCEPT ![t] = "idle"]
          /\ UNCHANGED <<tokenFile, service, refresh, rejected, made, last, expired, fills,
                         setByHand>>
      BY <1>2, <2>1, <1>i1, <1>i2, <1>m DEF CommandFails, TokenShapes, TokenLocks,
         WithFlock, Nobody, None, Return, Goto, request, locks, tokenBounds
    <3>1. TokenShapes'
      BY <3>0, <2>1, <1>i1, <1>m DEF TokenShapes, Services, None
    <3>2. TokenLocks'
      BY <3>0, <2>1, <1>i1, <1>i2, <1>m
         DEF TokenShapes, TokenLocks, WithLock, WithFlock, Nobody
    <3>3. TokenFiles'
      BY <3>0, <2>1, <1>i1, <1>i2, <1>i3, <1>m DEF TokenShapes, TokenLocks, TokenFiles,
         WithFlock, Writing, Services, None, Nobody
    <3>4. TokenRefreshes'
      BY <3>0, <2>1, <1>i1, <1>i4, <1>m DEF TokenShapes, TokenRefreshes, Writing
    <3>5. FilledOnce'
      BY <3>0, <1>i5, <1>f DEF FilledOnce
    <3>6. FillsAreUndone'
      BY <3>0, <1>i5, <1>f DEF FilledOnce, FillsAreUndone
    <3>7. FilesAgree'
      <4>1. tokenFaults' # 0
        BY <3>0, <1>f
      <4> QED
        BY <4>1 DEF FilesAgree
    <3>8. RepeatedWithNewer'
      BY <3>0, <2>1, <1>i1, <1>i3, <1>i4, <1>i8, <1>m
         DEF TokenShapes, TokenFiles, TokenRefreshes, RepeatedWithNewer, Writing, None
    <3> QED
      BY <3>1, <3>2, <3>3, <3>4, <3>5, <3>6, <3>7, <3>8 DEF TokensIInv
  <2> QED
    BY <2>1
<1>3. CASE WriteSecrets(t)
  <2>0. at[t] \in {"clear argocd", "write argocd", "clear app", "write app"}
    BY <1>3 DEF WriteSecrets
  <2>1. CASE at[t] = "clear argocd"
    <3>0. /\ flock = t
          /\ tokenFile' = [tokenFile EXCEPT !["argocd"] = None]
          /\ flock' = t
          /\ at' = [at EXCEPT ![t] = "write argocd"]
          /\ UNCHANGED <<lock, service, refresh, rejected, token, made, last, expired,
                         fills, setByHand, tokenFaults>>
      BY <1>3, <2>1, <1>i1, <1>i2, <1>m DEF WriteSecrets, TokenShapes, TokenLocks,
         WithFlock, Nobody, None, Writes, Return, Goto, request, locks, tokenBounds
    <3>1. TokenShapes'
      <4>0. \A u \in Services : tokenFile'[u] = tokenFile[u] \/ tokenFile'[u] = 0
        BY <3>0, <1>i1 DEF TokenShapes, None, Services
      <4>a. tokenFile' \in [Services -> Nat]
        BY <3>0, <1>i1 DEF TokenShapes, None, Services
      <4>1. tokenFile' \in [Services -> Nat] /\ \A u \in Services : tokenFile'[u] <= last
        BY <4>0, <4>a, <1>c, <1>i1 DEF TokenShapes
      <4> QED
        BY <3>0, <4>1, <1>i1 DEF TokenShapes
    <3>2. TokenLocks'
      BY <3>0, <2>1, <1>i1, <1>i2, <1>m
         DEF TokenShapes, TokenLocks, WithLock, WithFlock, Nobody
    <3>3. TokenFiles'
      BY <3>0, <2>1, <1>i1, <1>i2, <1>i3, <1>m DEF TokenShapes, TokenLocks, TokenFiles,
         WithFlock, Writing, Services, None, Nobody
    <3>4. TokenRefreshes'
      BY <3>0, <2>1, <1>i1, <1>i4, <1>m DEF TokenShapes, TokenRefreshes, Writing
    <3>5. FilledOnce'
      BY <3>0, <2>1, <1>i2, <1>i3, <1>i5, <1>i6, <1>c, <1>m DEF TokenLocks, TokenFiles,
         FilledOnce, FillsAreUndone, WithFlock, Writing, Services, None
    <3>6. FillsAreUndone'
      BY <3>0, <2>1, <1>i1, <1>i2, <1>i3, <1>i5, <1>i6, <1>c, <1>m DEF TokenShapes,
         TokenLocks, TokenFiles, FilledOnce, FillsAreUndone, WithFlock, Writing, Services,
         None
    <3>7. FilesAgree'
      BY <3>0, <2>1, <1>i1, <1>i2, <1>i3, <1>i7, <1>m DEF TokenShapes, TokenLocks,
         TokenFiles, FilesAgree, WithFlock, Writing, Services, None
    <3>8. RepeatedWithNewer'
      BY <3>0, <2>1, <1>i1, <1>i3, <1>i4, <1>i8, <1>m
         DEF TokenShapes, TokenFiles, TokenRefreshes, RepeatedWithNewer, Writing, None
    <3> QED
      BY <3>1, <3>2, <3>3, <3>4, <3>5, <3>6, <3>7, <3>8 DEF TokensIInv
  <2>2. CASE at[t] = "write argocd"
    <3>0. /\ flock = t
          /\ tokenFile' = [tokenFile EXCEPT !["argocd"] = made[t]]
          /\ flock' = t
          /\ at' = [at EXCEPT ![t] = "clear app"]
          /\ UNCHANGED <<lock, service, refresh, rejected, token, made, last, expired,
                         fills, setByHand, tokenFaults>>
      BY <1>3, <2>2, <1>i1, <1>i2, <1>m DEF WriteSecrets, TokenShapes, TokenLocks,
         WithFlock, Nobody, None, Writes, Return, Goto, request, locks, tokenBounds
    <3>1. TokenShapes'
      BY <3>0, <2>2, <1>i1, <1>m DEF TokenShapes, Services, None
    <3>2. TokenLocks'
      BY <3>0, <2>2, <1>i1, <1>i2, <1>m
         DEF TokenShapes, TokenLocks, WithLock, WithFlock, Nobody
    <3>3. TokenFiles'
      BY <3>0, <2>2, <1>i1, <1>i2, <1>i3, <1>m DEF TokenShapes, TokenLocks, TokenFiles,
         WithFlock, Writing, Services, None, Nobody
    <3>4. TokenRefreshes'
      BY <3>0, <2>2, <1>i1, <1>i4, <1>m DEF TokenShapes, TokenRefreshes, Writing
    <3>5. FilledOnce'
      BY <3>0, <2>2, <1>i2, <1>i3, <1>i5, <1>i6, <1>c, <1>m DEF TokenLocks, TokenFiles,
         FilledOnce, FillsAreUndone, WithFlock, Writing, Services, None
    <3>6. FillsAreUndone'
      BY <3>0, <2>2, <1>i1, <1>i2, <1>i3, <1>i5, <1>i6, <1>c, <1>m DEF TokenShapes,
         TokenLocks, TokenFiles, FilledOnce, FillsAreUndone, WithFlock, Writing, Services,
         None
    <3>7. FilesAgree'
      BY <3>0, <2>2, <1>i1, <1>i2, <1>i3, <1>i7, <1>m DEF TokenShapes, TokenLocks,
         TokenFiles, FilesAgree, WithFlock, Writing, Services, None
    <3>8. RepeatedWithNewer'
      BY <3>0, <2>2, <1>i1, <1>i3, <1>i4, <1>i8, <1>m
         DEF TokenShapes, TokenFiles, TokenRefreshes, RepeatedWithNewer, Writing, None
    <3> QED
      BY <3>1, <3>2, <3>3, <3>4, <3>5, <3>6, <3>7, <3>8 DEF TokensIInv
  <2>3. CASE at[t] = "clear app"
    <3>0. /\ flock = t
          /\ tokenFile' = [tokenFile EXCEPT !["app"] = None]
          /\ flock' = t
          /\ at' = [at EXCEPT ![t] = "write app"]
          /\ UNCHANGED <<lock, service, refresh, rejected, token, made, last, expired,
                         fills, setByHand, tokenFaults>>
      BY <1>3, <2>3, <1>i1, <1>i2, <1>m DEF WriteSecrets, TokenShapes, TokenLocks,
         WithFlock, Nobody, None, Writes, Return, Goto, request, locks, tokenBounds
    <3>1. TokenShapes'
      <4>0. \A u \in Services : tokenFile'[u] = tokenFile[u] \/ tokenFile'[u] = 0
        BY <3>0, <1>i1 DEF TokenShapes, None, Services
      <4>a. tokenFile' \in [Services -> Nat]
        BY <3>0, <1>i1 DEF TokenShapes, None, Services
      <4>1. tokenFile' \in [Services -> Nat] /\ \A u \in Services : tokenFile'[u] <= last
        BY <4>0, <4>a, <1>c, <1>i1 DEF TokenShapes
      <4> QED
        BY <3>0, <4>1, <1>i1 DEF TokenShapes
    <3>2. TokenLocks'
      BY <3>0, <2>3, <1>i1, <1>i2, <1>m
         DEF TokenShapes, TokenLocks, WithLock, WithFlock, Nobody
    <3>3. TokenFiles'
      BY <3>0, <2>3, <1>i1, <1>i2, <1>i3, <1>m DEF TokenShapes, TokenLocks, TokenFiles,
         WithFlock, Writing, Services, None, Nobody
    <3>4. TokenRefreshes'
      BY <3>0, <2>3, <1>i1, <1>i4, <1>m DEF TokenShapes, TokenRefreshes, Writing
    <3>5. FilledOnce'
      BY <3>0, <2>3, <1>i2, <1>i3, <1>i5, <1>i6, <1>c, <1>m DEF TokenLocks, TokenFiles,
         FilledOnce, FillsAreUndone, WithFlock, Writing, Services, None
    <3>6. FillsAreUndone'
      BY <3>0, <2>3, <1>i1, <1>i2, <1>i3, <1>i5, <1>i6, <1>c, <1>m DEF TokenShapes,
         TokenLocks, TokenFiles, FilledOnce, FillsAreUndone, WithFlock, Writing, Services,
         None
    <3>7. FilesAgree'
      BY <3>0, <2>3, <1>i1, <1>i2, <1>i3, <1>i7, <1>m DEF TokenShapes, TokenLocks,
         TokenFiles, FilesAgree, WithFlock, Writing, Services, None
    <3>8. RepeatedWithNewer'
      BY <3>0, <2>3, <1>i1, <1>i3, <1>i4, <1>i8, <1>m
         DEF TokenShapes, TokenFiles, TokenRefreshes, RepeatedWithNewer, Writing, None
    <3> QED
      BY <3>1, <3>2, <3>3, <3>4, <3>5, <3>6, <3>7, <3>8 DEF TokensIInv
  <2>4. CASE at[t] = "write app"
    <3>0. /\ flock = t
          /\ tokenFile' = [tokenFile EXCEPT !["app"] = made[t]]
          /\ flock' = Nobody
          /\ at' = [at EXCEPT ![t] = "read back"]
          /\ UNCHANGED <<lock, service, refresh, rejected, token, made, last, expired,
                         fills, setByHand, tokenFaults>>
      BY <1>3, <2>4, <1>i1, <1>i2, <1>m DEF WriteSecrets, TokenShapes, TokenLocks,
         WithFlock, Nobody, None, Writes, Return, Goto, request, locks, tokenBounds
    <3>1. TokenShapes'
      BY <3>0, <2>4, <1>i1, <1>m DEF TokenShapes, Services, None
    <3>2. TokenLocks'
      BY <3>0, <2>4, <1>i1, <1>i2, <1>m
         DEF TokenShapes, TokenLocks, WithLock, WithFlock, Nobody
    <3>3. TokenFiles'
      BY <3>0, <2>4, <1>i1, <1>i2, <1>i3, <1>m DEF TokenShapes, TokenLocks, TokenFiles,
         WithFlock, Writing, Services, None, Nobody
    <3>4. TokenRefreshes'
      BY <3>0, <2>4, <1>i1, <1>i4, <1>m DEF TokenShapes, TokenRefreshes, Writing
    <3>5. FilledOnce'
      BY <3>0, <2>4, <1>i2, <1>i3, <1>i5, <1>i6, <1>c, <1>m DEF TokenLocks, TokenFiles,
         FilledOnce, FillsAreUndone, WithFlock, Writing, Services, None
    <3>6. FillsAreUndone'
      <4>0. ~setByHand => made[t] # 0 /\ tokenFile["argocd"] = made[t]
        BY <2>4, <1>c, <1>i3 DEF TokenFiles, Writing
      <4>1. ~setByHand => tokenFile'["argocd"] # None /\ tokenFile'["app"] # None
        BY <3>0, <4>0, <1>i1 DEF TokenShapes, Services, None
      <4> QED
        BY <3>0, <4>1 DEF FillsAreUndone, Services
    <3>7. FilesAgree'
      BY <3>0, <2>4, <1>i1, <1>i2, <1>i3, <1>i7, <1>m DEF TokenShapes, TokenLocks,
         TokenFiles, FilesAgree, WithFlock, Writing, Services, None
    <3>8. RepeatedWithNewer'
      BY <3>0, <2>4, <1>i1, <1>i3, <1>i4, <1>i8, <1>m
         DEF TokenShapes, TokenFiles, TokenRefreshes, RepeatedWithNewer, Writing, None
    <3> QED
      BY <3>1, <3>2, <3>3, <3>4, <3>5, <3>6, <3>7, <3>8 DEF TokensIInv
  <2> QED
    BY <2>1, <2>2, <2>3, <2>4, <2>0
<1> QED
  BY <1>1, <1>2, <1>3

\* The administrator, the services, and a process that dies.
LEMMA TokensFromOutside ==
    ASSUME TokensIInv,
           \/ \E t \in BrokerThreads : TokenSet(t) \/ \E s \in Services : SetToken(t, s)
           \/ \E p \in BrokerProcesses : Die(p)
           \/ Expire
    PROVE  TokensIInv'
<1>i1. TokenShapes
  BY DEF TokensIInv
<1>i2. TokenLocks
  BY DEF TokensIInv
<1>i3. TokenFiles
  BY DEF TokensIInv
<1>i4. TokenRefreshes
  BY DEF TokensIInv
<1>i5. FilledOnce
  BY DEF TokensIInv
<1>i6. FillsAreUndone
  BY DEF TokensIInv
<1>i7. FilesAgree
  BY DEF TokensIInv
<1>i8. RepeatedWithNewer
  BY DEF TokensIInv
<1>m. "nobody" \notin BrokerThreads /\ MaxTokens \in Nat
  BY TokensAssumption
<1>c. /\ Cardinality(fills) \in Nat
      /\ Cardinality(fills \union {last + 1}) = Cardinality(fills) + 1
      /\ tokenFaults \in Nat /\ last \in Nat /\ 0 <= last
  BY <1>i1, FillsCount DEF TokenShapes
<1>f. tokenFaults + 1 \in Nat /\ tokenFaults + 1 # 0
      /\ (Cardinality(fills) <= tokenFaults + 1 => Cardinality(fills) <= 1 + (tokenFaults + 1))
      /\ (Cardinality(fills) <= 1 + tokenFaults => Cardinality(fills) <= tokenFaults + 1)
      /\ (Cardinality(fills) <= tokenFaults => Cardinality(fills) + 1 <= 1 + tokenFaults)
      /\ (Cardinality(fills) <= 1 + tokenFaults => Cardinality(fills) <= 1 + (tokenFaults + 1))
  BY <1>c
<1>n. /\ last + 1 \in Nat /\ last + 1 # 0
      /\ (last < MaxTokens => last + 1 <= MaxTokens)
      /\ \A x \in Nat : x <= last => x <= last + 1 /\ last + 1 > x
      /\ 1 .. last \subseteq 1 .. (last + 1) /\ last + 1 \in 1 .. (last + 1)
  BY <1>c, <1>m
<1>1. ASSUME NEW t \in BrokerThreads, TokenSet(t) PROVE TokensIInv'
  <2>1. TokenShapes'
    BY <1>1, <1>i1, <1>m DEF TokenSet, Goto, request, tokenBounds, TokenShapes, Services,
       None
  <2>2. TokenLocks'
    BY <1>1, <1>i1, <1>i2, <1>m DEF TokenSet, Goto, request, tokenBounds, TokenShapes,
       TokenLocks, WithLock, WithFlock, Nobody
  <2>3. TokenFiles'
    BY <1>1, <1>i1, <1>i2, <1>i3, <1>m DEF TokenSet, Goto, request, tokenBounds,
       TokenShapes, TokenLocks, TokenFiles, WithFlock, Writing, Services, None, Nobody
  <2>4. TokenRefreshes'
    BY <1>1, <1>i1, <1>i4, <1>m
       DEF TokenSet, Goto, request, tokenBounds, TokenShapes, TokenRefreshes, Writing
  <2>5. FilledOnce'
    BY <1>1, <1>i2, <1>i3, <1>i5, <1>i6, <1>c, <1>m DEF TokenSet, Goto, request,
       tokenBounds, TokenLocks, TokenFiles, FilledOnce, FillsAreUndone, WithFlock, Writing,
       Services, None
  <2>6. FillsAreUndone'
    BY <1>1, <1>i1, <1>i2, <1>i3, <1>i5, <1>i6, <1>c, <1>m DEF TokenSet, Goto, request,
       tokenBounds, TokenShapes, TokenLocks, TokenFiles, FilledOnce, FillsAreUndone,
       WithFlock, Writing, Services, None
  <2>7. FilesAgree'
    BY <1>1, <1>i1, <1>i2, <1>i3, <1>i7, <1>m DEF TokenSet, Goto, request, tokenBounds,
       TokenShapes, TokenLocks, TokenFiles, FilesAgree, WithFlock, Writing, Services, None
  <2>8. RepeatedWithNewer'
    BY <1>1, <1>i1, <1>i3, <1>i4, <1>i8, <1>m DEF TokenSet, Goto, request, tokenBounds,
       TokenShapes, TokenFiles, TokenRefreshes, RepeatedWithNewer, Writing, None
  <2> QED
    BY <2>1, <2>2, <2>3, <2>4, <2>5, <2>6, <2>7, <2>8 DEF TokensIInv
<1>2. ASSUME NEW t \in BrokerThreads, NEW s \in Services, SetToken(t, s) PROVE TokensIInv'
  <2>1. TokenShapes'
    BY <1>2, <1>i1, <1>m DEF SetToken, Goto, tokenBounds, TokenShapes, Services, None
  <2>2. TokenLocks'
    BY <1>2, <1>i1, <1>i2, <1>m DEF SetToken, Goto, tokenBounds, TokenShapes, TokenLocks,
       WithLock, WithFlock, Nobody
  <2>3. TokenFiles'
    BY <1>2, <1>i1, <1>i2, <1>i3, <1>m DEF SetToken, Goto, tokenBounds, TokenShapes,
       TokenLocks, TokenFiles, WithFlock, Writing, Services, None, Nobody
  <2>4. TokenRefreshes'
    BY <1>2, <1>i1, <1>i4, <1>m
       DEF SetToken, Goto, tokenBounds, TokenShapes, TokenRefreshes, Writing
  <2>5. FilledOnce'
    BY <1>2, <1>i2, <1>i3, <1>i5, <1>i6, <1>c, <1>m DEF SetToken, Goto, tokenBounds,
       TokenLocks, TokenFiles, FilledOnce, FillsAreUndone, WithFlock, Writing, Services,
       None
  <2>6. FillsAreUndone'
    BY <1>2, <1>i1, <1>i2, <1>i3, <1>i5, <1>i6, <1>c, <1>m DEF SetToken, Goto, tokenBounds,
       TokenShapes, TokenLocks, TokenFiles, FilledOnce, FillsAreUndone, WithFlock, Writing,
       Services, None
  <2>7. FilesAgree'
    BY <1>2, <1>i1, <1>i2, <1>i3, <1>i7, <1>m DEF SetToken, Goto, tokenBounds, TokenShapes,
       TokenLocks, TokenFiles, FilesAgree, WithFlock, Writing, Services, None
  <2>8. RepeatedWithNewer'
    BY <1>2, <1>i1, <1>i3, <1>i4, <1>i8, <1>m DEF SetToken, Goto, tokenBounds, TokenShapes,
       TokenFiles, TokenRefreshes, RepeatedWithNewer, Writing, None
  <2> QED
    BY <2>1, <2>2, <2>3, <2>4, <2>5, <2>6, <2>7, <2>8 DEF TokensIInv
<1>3. ASSUME NEW p \in BrokerProcesses, Die(p) PROVE TokensIInv'
  <2> DEFINE dead == {t \in BrokerThreads : ProcessOf(t) = p}
  <2>0. /\ tokenFaults' = tokenFaults + 1
        /\ at' = [t \in BrokerThreads |-> IF t \in dead THEN "idle" ELSE at[t]]
        /\ lock' = lock \ dead
        /\ flock' = IF flock \in dead THEN Nobody ELSE flock
        /\ UNCHANGED <<tokenFile, service, refresh, rejected, token, made, last, expired,
                       fills, setByHand>>
    BY <1>3 DEF Die, request
  <2>a. \A t \in BrokerThreads : at'[t] = at[t] \/ (at'[t] = "idle" /\ t \in dead)
    BY <2>0
  <2>1. TokenShapes'
    BY <2>0, <2>a, <1>i1, <1>m DEF TokenShapes, Services, None
  <2>2. TokenLocks'
    BY <2>0, <2>a, <1>i1, <1>i2, <1>m
       DEF TokenShapes, TokenLocks, WithLock, WithFlock, Nobody
  <2>3. TokenFiles'
    BY <2>0, <2>a, <1>i1, <1>i2, <1>i3, <1>m
       DEF TokenShapes, TokenLocks, TokenFiles, WithFlock, Writing, Services, None, Nobody
  <2>4. TokenRefreshes'
    BY <2>0, <2>a, <1>i1, <1>i4, <1>m DEF TokenShapes, TokenRefreshes, Writing
  <2>5. FilledOnce'
    BY <2>0, <1>i5, <1>f DEF FilledOnce
  <2>6. FillsAreUndone'
    BY <2>0, <1>i5, <1>f DEF FilledOnce, FillsAreUndone
  <2>7. FilesAgree'
    <4>1. tokenFaults' # 0
      BY <2>0, <1>f
    <4> QED
      BY <4>1 DEF FilesAgree
  <2>8. RepeatedWithNewer'
    BY <2>0, <2>a, <1>i1, <1>i3, <1>i4, <1>i8, <1>m
       DEF TokenShapes, TokenFiles, TokenRefreshes, RepeatedWithNewer, Writing, None
  <2> QED
    BY <2>1, <2>2, <2>3, <2>4, <2>5, <2>6, <2>7, <2>8 DEF TokensIInv
<1>4. CASE Expire
  <2>1. TokenShapes'
    BY <1>4, <1>i1, <1>m DEF Expire, locks, request, tokenBounds, TokenShapes, Services,
       None
  <2>2. TokenLocks'
    BY <1>4, <1>i1, <1>i2, <1>m DEF Expire, locks, request, tokenBounds, TokenShapes,
       TokenLocks, WithLock, WithFlock, Nobody
  <2>3. TokenFiles'
    BY <1>4, <1>i1, <1>i2, <1>i3, <1>m DEF Expire, locks, request, tokenBounds,
       TokenShapes, TokenLocks, TokenFiles, WithFlock, Writing, Services, None, Nobody
  <2>4. TokenRefreshes'
    BY <1>4, <1>i1, <1>i4, <1>m
       DEF Expire, locks, request, tokenBounds, TokenShapes, TokenRefreshes, Writing
  <2>5. FilledOnce'
    BY <1>4, <1>i2, <1>i3, <1>i5, <1>i6, <1>c, <1>m DEF Expire, locks, request,
       tokenBounds, TokenLocks, TokenFiles, FilledOnce, FillsAreUndone, WithFlock, Writing,
       Services, None
  <2>6. FillsAreUndone'
    BY <1>4, <1>i1, <1>i2, <1>i3, <1>i5, <1>i6, <1>c, <1>m DEF Expire, locks, request,
       tokenBounds, TokenShapes, TokenLocks, TokenFiles, FilledOnce, FillsAreUndone,
       WithFlock, Writing, Services, None
  <2>7. FilesAgree'
    BY <1>4, <1>i1, <1>i2, <1>i3, <1>i7, <1>m DEF Expire, locks, request, tokenBounds,
       TokenShapes, TokenLocks, TokenFiles, FilesAgree, WithFlock, Writing, Services, None
  <2>8. RepeatedWithNewer'
    BY <1>4, <1>i1, <1>i3, <1>i4, <1>i8, <1>m DEF Expire, locks, request, tokenBounds,
       TokenShapes, TokenFiles, TokenRefreshes, RepeatedWithNewer, Writing, None
  <2> QED
    BY <2>1, <2>2, <2>3, <2>4, <2>5, <2>6, <2>7, <2>8 DEF TokensIInv
<1> QED
  BY <1>1, <1>2, <1>3, <1>4

\* The deploy broker's tokens: a missing file is filled once, a rejected token is never sent
\* again, and the two files are of one command, whichever threads and processes interleave.
THEOREM TokensAreSafe == TokensSpec => []TokensInv
<1>1. TokensIInv /\ [TokensNext]_tokensVars => TokensIInv'
  <2> SUFFICES ASSUME TokensIInv, [TokensNext]_tokensVars PROVE TokensIInv'
    OBVIOUS
  <2>1. CASE UNCHANGED tokensVars
    BY <2>1 DEF tokensVars, locks, request, tokenBounds, TokensIInv, TokenShapes,
       TokenLocks,
                TokenFiles, TokenRefreshes, FilledOnce, FillsAreUndone, FilesAgree, RepeatedWithNewer
  <2>2. CASE TokensNext
    BY <2>2, ThreadGoesOn, CommandRuns, TokensFromOutside DEF TokensNext, Step
  <2> QED
    BY <2>1, <2>2
<1> QED
  BY <1>1, TokensInitIInv, TokensIInvImplies, PTL DEF TokensSpec

-----------------------------------------------------------------------------
(* The requests of the deploy broker. *)

\* A run of the build workflow.
WorkflowRun == [commit : Commits, state : {"running", "success", "failure"}]

\* A request that has ended, and no other, has a record that says so.
EndsOnce == \A r \in Requests : status[r] \in Terminal <=> pc[r] = "end"

\* The types of what DeployInv leaves open.
DeployShapes ==
    /\ commit \in [Requests -> Commits]
    /\ DOMAIN pc = Requests /\ DOMAIN bundled = Requests

\* The inductive invariant of the broker.
DeployIInv == DeployInv /\ DeployShapes /\ EndsOnce

\* A bounded set of numbers that is not empty has a greatest one.
LEMMA Greatest ==
    ASSUME NEW n \in Nat, NEW S, S \subseteq 1 .. n, S # {}
    PROVE  \E i \in S : \A j \in S : j <= i
<1> DEFINE T == {k \in Nat : \A j \in S : j <= k}
           R == OpToRel(<, Nat)
<1>1. PICK m \in T : \A y \in T : ~ (<<y, m>> \in R)
  <2>1. IsWellFoundedOn(R, Nat)
    BY NatLessThanWellFounded, Zenon
  <2>2. n \in T
    OBVIOUS
  <2> HIDE DEF R, T
  <2>3. T \subseteq Nat
    BY DEF T
  <2> QED
    BY <2>1, <2>2, <2>3, WFMin
<1>2. m \in S
  <2> SUFFICES ASSUME m \notin S PROVE FALSE
    OBVIOUS
  <2>1. \A j \in S : j <= m /\ j # m /\ j \in 1 .. n
    OBVIOUS
  <2>a. PICK j \in S : TRUE
    OBVIOUS
  <2>2. m \in Nat /\ m # 0 /\ m - 1 \in Nat
    BY <2>1, <2>a
  <2>3. m - 1 \in T
    BY <2>1, <2>2
  <2>4. <<m - 1, m>> \in R
    BY <2>2 DEF OpToRel
  <2> QED
    BY <1>1, <2>3, <2>4
<1> QED
  BY <1>1, <1>2

\* What wait_for_build takes is a run of the commit of the request.
LEMMA NewestIsOfCommit ==
    ASSUME DeployTypeOK, NEW r \in Requests, RunOf(r) # {}
    PROVE  /\ Newest(RunOf(r)) \in DOMAIN runs
           /\ runs[Newest(RunOf(r))].commit = commit[r]
<1>1. RunOf(r) \subseteq 1 .. Len(runs) /\ Len(runs) \in Nat
  BY DEF RunOf, DeployTypeOK
<1>2. \E i \in RunOf(r) : \A j \in RunOf(r) : j <= i
  BY <1>1, Greatest
<1>3. Newest(RunOf(r)) \in RunOf(r)
  BY <1>2 DEF Newest
<1> QED
  BY <1>3 DEF RunOf

\* The workflow runs are a sequence.
LEMMA RunsAreASequence ==
    ASSUME DeployTypeOK
    PROVE  /\ runs \in Seq(WorkflowRun) /\ DOMAIN runs = 1 .. Len(runs) /\ Len(runs) \in Nat
           /\ \A i \in DOMAIN runs : runs[i] \in WorkflowRun
<1>1. runs \in Seq(WorkflowRun)
  BY DEF DeployTypeOK, WorkflowRun
<1> QED
  BY <1>1

\* Nothing is asked for, and what runs is main.
LEMMA DeployInitIInv == DeployInit => DeployIInv
<1> SUFFICES ASSUME DeployInit PROVE DeployIInv
  OBVIOUS
<1>1. branch \in Commits
  BY DeployAssumption DEF DeployInit
<1>2. runs \in Seq(WorkflowRun) /\ spec \in Specs
  <2>1. PICK state \in {"success", "failure"} : runs = <<[commit |-> branch, state |-> state]>>
    BY DEF DeployInit
  <2>2. [commit |-> branch, state |-> state] \in WorkflowRun
    BY <1>1 DEF WorkflowRun
  <2>3. spec \in Specs
    BY DEF DeployInit, Specs
  <2> QED
    BY <2>1, <2>2, <2>3
<1>3. DeployTypeOK
  BY <1>1, <1>2 DEF DeployInit, DeployTypeOK, WorkflowRun, Terminal
<1> QED
  BY <1>3 DEF DeployInit, DeployIInv, DeployInv, DeployShapes, EndsOnce, ImageOfCommit,
              ChangesAreSynced, ReportIsComplete, Terminal

\* The records, logs and waiting viewers, in the steps that leave GitHub, the tags and the
\* application alone.
LEMMA RecordSteps ==
    ASSUME DeployIInv, NEW r \in Requests,
           \/ StartDeploy(r) \/ Prepare(r) \/ Succeed(r) \/ Raise(r) \/ DeployFails(r)
           \/ Poll(r) \/ Deadline(r)
    PROVE  DeployIInv'
<1> USE DEF DeployIInv, DeployInv, DeployShapes, EndsOnce, ReportIsComplete, Terminal
<1>1. UNCHANGED <<commit, bundled, tag, githubVars, argocdVars>>
  BY DEF StartDeploy, Prepare, Succeed, Raise, DeployFails, Poll, Deadline, recordVars
<1>2. ImageOfCommit' /\ ChangesAreSynced'
  BY <1>1 DEF githubVars, argocdVars, ImageOfCommit, ChangesAreSynced
<1>3. CASE StartDeploy(r)
  BY <1>1, <1>2, <1>3 DEF StartDeploy, DeployTypeOK, Specs, githubVars, argocdVars
<1>4. CASE Prepare(r)
  BY <1>1, <1>2, <1>4 DEF Prepare, Thread, Log, DeployTypeOK, Specs, githubVars, argocdVars
<1>5. CASE Succeed(r) \/ DeployFails(r)
  BY <1>1, <1>2, <1>5
     DEF Succeed, DeployFails, Thread, DeployTypeOK, Specs, githubVars, argocdVars, viewerVars
<1>6. CASE Raise(r)
  BY <1>1, <1>2, <1>6
     DEF Raise, AtWork, Log, DeployTypeOK, Specs, githubVars, argocdVars
<1>7. CASE Poll(r)
  BY <1>1, <1>2, <1>7 DEF Poll, DeployTypeOK, Specs, githubVars, argocdVars, recordVars
<1>8. CASE Deadline(r)
  BY <1>1, <1>2, <1>8 DEF Deadline, DeployTypeOK, Specs, githubVars, argocdVars, recordVars
<1> QED
  BY <1>3, <1>4, <1>5, <1>6, <1>7, <1>8

\* The steps of a request at GitHub and ArgoCD.
LEMMA ThreadWorks ==
    ASSUME DeployIInv, NEW r \in Requests,
           PushBuild(r) \/ Built(r) \/ Materialize(r) \/ PatchTag(r) \/ Sync(r)
    PROVE  DeployIInv'
<1> USE DeployAssumption
    DEF DeployIInv, DeployInv, DeployShapes, EndsOnce, ReportIsComplete, Terminal, ImageOfCommit,
        ChangesAreSynced
<1>1. CASE PushBuild(r)
  <2>1. /\ runs' \in Seq(WorkflowRun) /\ DOMAIN runs \subseteq DOMAIN runs'
        /\ \A i \in DOMAIN runs : runs'[i] = runs[i]
        /\ branch' \in Commits
    <3> DEFINE new == [commit |-> commit[r], state |-> "running"]
    <3>a. runs \in Seq(WorkflowRun)
      BY RunsAreASequence
    <3>1. new \in WorkflowRun
      BY DEF WorkflowRun
    <3>2. runs' = runs \/ runs' = Append(runs, new)
      BY <1>1 DEF PushBuild
    <3>3. branch' \in Commits
      BY <1>1 DEF PushBuild
    <3> HIDE DEF new
    <3>4. CASE runs' = runs
      BY <3>a, <3>3, <3>4
    <3>5. CASE runs' = Append(runs, new)
      <4>1. runs' \in Seq(WorkflowRun) /\ Len(runs') = Len(runs) + 1
            /\ \A i \in 1 .. Len(runs) : runs'[i] = runs[i]
        BY <3>a, <3>1, <3>5, AppendProperties
      <4> QED
        BY <3>a, <3>3, <4>1
    <3> QED
      BY <3>2, <3>4, <3>5
  <2>2. UNCHANGED <<commit, bundled, status, tag, spec, deployed, written, clear, events>>
    BY <1>1 DEF PushBuild, argocdVars
  <2>3. /\ pc[r] = "push" /\ pc' = [pc EXCEPT ![r] = "wait"]
        /\ upToDate' = [upToDate EXCEPT ![r] = r \notin Watched] /\ viewer' = viewer
    BY <1>1 DEF PushBuild, Thread, Log
  <2>4. spec' \in Specs' /\ deployed' \in Specs' /\ tag' \in [Requests -> {NoTag} \union DOMAIN runs']
    BY <2>1, <2>2 DEF DeployTypeOK, Specs
  <2>5. DeployTypeOK'
    BY <2>1, <2>2, <2>3, <2>4 DEF DeployTypeOK, WorkflowRun
  <2>6. ImageOfCommit'
    BY <2>1, <2>2 DEF DeployTypeOK
  <2> QED
    BY <2>2, <2>3, <2>5, <2>6
<1>2. CASE Built(r)
  <2> DEFINE n == Newest(RunOf(r))
  <2>1. n \in DOMAIN runs /\ runs[n].commit = commit[r] /\ runs[n].state = "success"
    BY <1>2, NewestIsOfCommit DEF Built
  <2>2. runs[n] = [commit |-> commit[r], state |-> "success"]
    <3>1. runs[n] \in WorkflowRun
      BY <2>1, RunsAreASequence
    <3> HIDE DEF n
    <3> QED
      BY <2>1, <3>1 DEF WorkflowRun
  <2>3. /\ tag' = [tag EXCEPT ![r] = n]
        /\ upToDate' = [upToDate EXCEPT ![r] = r \notin Watched]
        /\ pc[r] = "wait"
        /\ pc' = [pc EXCEPT ![r] = IF bundled[r] THEN "materialize" ELSE "patch"]
        /\ UNCHANGED <<commit, bundled, status, spec, deployed, written, clear, branch,
                       runs, viewer>>
    BY <1>2 DEF Built, Thread, Log, argocdVars, githubVars
  <2> HIDE DEF n
  <2>4. ImageOfCommit'
    BY <2>1, <2>2, <2>3 DEF DeployTypeOK
  <2>5. DeployTypeOK'
    BY <2>1, <2>3 DEF DeployTypeOK, Specs
  <2> QED
    BY <2>3, <2>4, <2>5
<1>3. CASE Materialize(r)
  BY <1>3 DEF Materialize, Thread, Log, DeployTypeOK, Specs, githubVars
<1>4. CASE PatchTag(r)
  BY <1>4 DEF PatchTag, Thread, DeployTypeOK, Specs, githubVars, recordVars, viewerVars
<1>5. CASE Sync(r)
  BY <1>5 DEF Sync, Thread, Log, DeployTypeOK, Specs, githubVars
<1> QED
  BY <1>1, <1>2, <1>3, <1>4, <1>5

\* The endpoint, GitHub, and a restart.
LEMMA DeployFromOutside ==
    ASSUME DeployIInv, ClearPatches \/ ClearSyncs \/ WorkflowEnds \/ Restart
    PROVE  DeployIInv'
<1> USE DeployAssumption
    DEF DeployIInv, DeployInv, DeployShapes, EndsOnce, ReportIsComplete, Terminal, ImageOfCommit,
        ChangesAreSynced
<1>1. CASE ClearPatches \/ ClearSyncs
  BY <1>1 DEF ClearPatches, ClearSyncs, DeployTypeOK, Specs, githubVars, recordVars,
     viewerVars
<1>2. CASE WorkflowEnds
  <2>1. PICK i \in DOMAIN runs, state \in {"success", "failure"} :
            runs[i].state = "running" /\ runs' = [runs EXCEPT ![i].state = state]
    BY <1>2 DEF WorkflowEnds
  <2>2. UNCHANGED <<commit, bundled, pc, status, tag, spec, deployed, written, clear,
                    branch, viewer, upToDate>>
    BY <1>2 DEF WorkflowEnds, argocdVars, recordVars, viewerVars
  <2>3. /\ runs' \in Seq(WorkflowRun) /\ DOMAIN runs' = DOMAIN runs
        /\ \A j \in DOMAIN runs : runs[j].state = "success" => runs'[j] = runs[j]
    <3>1. runs \in Seq(WorkflowRun) /\ runs[i] \in WorkflowRun
      BY <2>1, RunsAreASequence
    <3>2. [runs[i] EXCEPT !.state = state] \in WorkflowRun
      BY <3>1 DEF WorkflowRun
    <3>3. runs' = [runs EXCEPT ![i] = [runs[i] EXCEPT !.state = state]]
      BY <2>1, <3>1
    <3>4. runs' \in Seq(WorkflowRun) /\ DOMAIN runs' = DOMAIN runs
      BY <3>1, <3>2, <3>3
    <3> QED
      BY <2>1, <3>1, <3>3, <3>4
  <2>4. spec' \in Specs' /\ deployed' \in Specs' /\ tag' \in [Requests -> {NoTag} \union DOMAIN runs']
    BY <2>2, <2>3 DEF DeployTypeOK, Specs
  <2>5. DeployTypeOK'
    BY <2>2, <2>3, <2>4 DEF DeployTypeOK, WorkflowRun
  <2>6. ImageOfCommit'
    BY <2>2, <2>3 DEF DeployTypeOK
  <2> QED
    BY <2>2, <2>5, <2>6
<1>3. CASE Restart
  BY <1>3 DEF Restart, AtWork, DeployTypeOK, Specs, argocdVars, githubVars, recordVars,
     viewerVars
<1> QED
  BY <1>1, <1>2, <1>3

\* The deploy broker: a request deploys the image of its own commit, the application runs
\* what it was told unless somebody is between the change and the sync, and who is told of
\* the end has the whole log, whichever requests interleave and whatever fails.
THEOREM BrokerIsSafe == DeploySpec => []DeployInv
<1>1. DeployIInv /\ [DeployNext]_deployVars => DeployIInv'
  <2> SUFFICES ASSUME DeployIInv, [DeployNext]_deployVars PROVE DeployIInv'
    OBVIOUS
  <2>1. CASE UNCHANGED deployVars
    BY <2>1 DEF deployVars, recordVars, argocdVars, githubVars, viewerVars, DeployIInv,
       DeployInv,
                DeployShapes, DeployTypeOK, Specs, EndsOnce, ImageOfCommit, ChangesAreSynced,
                ReportIsComplete
  <2>2. CASE DeployNext
    BY <2>2, RecordSteps, ThreadWorks, DeployFromOutside DEF DeployNext, ThreadStep
  <2> QED
    BY <2>1, <2>2
<1>2. DeployIInv => DeployInv
  BY DEF DeployIInv
<1> QED
  BY <1>1, <1>2, DeployInitIInv, PTL DEF DeploySpec

-----------------------------------------------------------------------------
(* The memories of the processes that resolve UUIDs (VisitResolution).      *)

NoRepeats(s) == \A i, j \in DOMAIN s : s[i] = s[j] => i = j

\* The inductive invariant.  A process remembers only what it opened, each once, and has
\* forgotten nothing until it opened more than the memory holds; what the lru_cache still
\* answers was opened.
ResolutionIInv ==
    /\ ResolutionInv
    /\ \A p \in Processes :
          /\ NoRepeats(remembered[p])
          /\ IsFiniteSet(opened[p])
          /\ Range(remembered[p]) \subseteq opened[p]
          /\ \A d \in Range(resolved[p]) : NameOf(d) \in opened[p]
          /\ Cardinality(opened[p]) <= MemoryCapacity => opened[p] \subseteq Range(remembered[p])

\* A part of a sequence has no other entries.
LEMMA PartEntries ==
    ASSUME NEW S, NEW s \in Seq(S), NEW m \in 1..(Len(s) + 1), NEW n \in 0..Len(s)
    PROVE  /\ SubSeq(s, m, n) \in Seq(S)
           /\ Len(SubSeq(s, m, n)) = IF m <= n THEN n - m + 1 ELSE 0
           /\ Range(SubSeq(s, m, n)) \subseteq Range(s)
<1>1. Len(s) \in Nat /\ DOMAIN s = 1..Len(s) /\ \A i \in 1..Len(s) : s[i] \in S
  BY LenProperties, ElementOfSeq
<1>2. m \in Int /\ n \in Int /\ \A i \in m..n : s[i] \in S
  BY <1>1
<1>3. /\ SubSeq(s, m, n) \in Seq(S)
      /\ Len(SubSeq(s, m, n)) = IF m <= n THEN n - m + 1 ELSE 0
      /\ \A i \in 1..(n - m + 1) : SubSeq(s, m, n)[i] = s[m + i - 1]
  BY <1>2, SubSeqProperties
<1>4. Range(SubSeq(s, m, n)) = {SubSeq(s, m, n)[i] : i \in 1..Len(SubSeq(s, m, n))}
  BY <1>3, RangeEquality
<1>5. \A i \in 1..Len(SubSeq(s, m, n)) :
        m + i - 1 \in 1..Len(s) /\ SubSeq(s, m, n)[i] = s[m + i - 1]
  BY <1>1, <1>3
<1>6. \A i \in 1..Len(s) : s[i] \in Range(s)
  BY <1>1, RangeEquality
<1> QED
  BY <1>3, <1>4, <1>5, <1>6

\* The entries after an entry more.
LEMMA EntriesAppend ==
    ASSUME NEW S, NEW s \in Seq(S), NEW d \in S
    PROVE  /\ Append(s, d) \in Seq(S) /\ Len(Append(s, d)) = Len(s) + 1
           /\ Range(Append(s, d)) = Range(s) \union {d}
           /\ NoRepeats(s) /\ d \notin Range(s) => NoRepeats(Append(s, d))
<1> DEFINE t == Append(s, d)
<1>1. Len(s) \in Nat /\ DOMAIN s = 1..Len(s) /\ Range(s) = {s[i] : i \in 1..Len(s)}
  BY LenProperties, RangeEquality
<1>2. /\ t \in Seq(S) /\ Len(t) = Len(s) + 1
      /\ \A i \in 1..Len(s) : t[i] = s[i]
      /\ t[Len(s) + 1] = d
  BY AppendProperties
<1>3. DOMAIN t = 1..(Len(s) + 1) /\ Range(t) = {t[i] : i \in 1..(Len(s) + 1)}
  BY <1>2, LenProperties, RangeEquality
<1> HIDE DEF t
<1>4. Range(t) = Range(s) \union {d}
  <2>1. \A i \in 1..(Len(s) + 1) : i \in 1..Len(s) \/ i = Len(s) + 1
    BY <1>1
  <2>2. \A i \in 1..Len(s) : i \in 1..(Len(s) + 1)
    BY <1>1
  <2>3. Len(s) + 1 \in 1..(Len(s) + 1)
    BY <1>1
  <2> QED
    BY <1>1, <1>2, <1>3, <2>1, <2>2, <2>3
<1>5. ASSUME NoRepeats(s), d \notin Range(s)
      PROVE  NoRepeats(t)
  <2> SUFFICES ASSUME NEW i \in 1..(Len(s) + 1), NEW j \in 1..(Len(s) + 1), t[i] = t[j]
               PROVE  i = j
    BY <1>3 DEF NoRepeats
  <2>1. \A k \in 1..(Len(s) + 1) : k \in 1..Len(s) \/ k = Len(s) + 1
    BY <1>1
  <2>2. \A k \in 1..Len(s) : s[k] # d
    BY <1>1, <1>5
  <2> QED
    BY <1>1, <1>2, <1>5, <2>1, <2>2 DEF NoRepeats
<1> QED
  BY <1>2, <1>4, <1>5 DEF t

\* An entry more in a memory: the oldest goes only from a full one.
LEMMA OneEntryMore ==
    ASSUME NEW S, NEW s \in Seq(S), NEW d \in S, Len(s) <= MemoryCapacity
    PROVE  LET t == NoMore(Append(s, d)) IN
           /\ t \in Seq(S) /\ Len(t) <= MemoryCapacity
           /\ Range(t) \subseteq Range(s) \union {d}
           /\ NoRepeats(s) /\ d \notin Range(s) => NoRepeats(t)
           /\ Len(s) < MemoryCapacity => Range(t) = Range(s) \union {d}
<1> DEFINE u == Append(s, d)
<1>1. MemoryCapacity \in Nat /\ Len(s) \in Nat
  BY ResolutionAssumption, LenProperties
<1>2. /\ u \in Seq(S) /\ Len(u) = Len(s) + 1
      /\ Range(u) = Range(s) \union {d}
      /\ NoRepeats(s) /\ d \notin Range(s) => NoRepeats(u)
  BY EntriesAppend
<1> HIDE DEF u
<1>3. CASE Len(u) <= MemoryCapacity
  BY <1>2, <1>3 DEF NoMore, u
<1>4. CASE ~(Len(u) <= MemoryCapacity)
  <2>1. u # <<>> /\ NoMore(u) = Tail(u)
    BY <1>1, <1>2, <1>4, EmptySeq DEF NoMore
  <2>2. /\ Tail(u) \in Seq(S) /\ Len(Tail(u)) = Len(u) - 1
        /\ \A i \in 1..Len(Tail(u)) : Tail(u)[i] = u[i + 1]
    BY <1>2, <2>1, HeadTailProperties
  <2>3. Len(Tail(u)) = Len(s) /\ ~(Len(s) < MemoryCapacity)
    BY <1>1, <1>2, <1>4, <2>2
  <2>4. /\ DOMAIN Tail(u) = 1..Len(s) /\ Range(Tail(u)) = {Tail(u)[i] : i \in 1..Len(s)}
        /\ DOMAIN u = 1..(Len(s) + 1) /\ Range(u) = {u[i] : i \in 1..(Len(s) + 1)}
    BY <1>2, <2>2, <2>3, LenProperties, RangeEquality
  <2>5. \A i \in 1..Len(s) : i + 1 \in 1..(Len(s) + 1) /\ Tail(u)[i] = u[i + 1]
    BY <1>1, <2>2, <2>3
  <2>6. Range(Tail(u)) \subseteq Range(u)
    BY <2>4, <2>5
  <2>7. NoRepeats(u) => NoRepeats(Tail(u))
    <3> SUFFICES ASSUME NoRepeats(u), NEW i \in 1..Len(s), NEW j \in 1..Len(s),
                        Tail(u)[i] = Tail(u)[j]
                 PROVE  i = j
      BY <2>4 DEF NoRepeats
    <3>1. i + 1 = j + 1
      BY <2>4, <2>5 DEF NoRepeats
    <3> QED
      BY <3>1, <1>1
  <2> QED
    BY <1>2, <2>1, <2>2, <2>3, <2>6, <2>7 DEF u
<1> QED
  BY <1>3, <1>4

\* A use of the lru_cache.
LEMMA OneUse ==
    ASSUME NEW S, NEW s \in Seq(S), NEW d \in S, Len(s) <= MemoryCapacity
    PROVE  /\ Use(s, d) \in Seq(S) /\ Len(Use(s, d)) <= MemoryCapacity
           /\ Range(Use(s, d)) \subseteq Range(s) \union {d}
<1>1. MemoryCapacity \in Nat /\ Len(s) \in Nat /\ DOMAIN s = 1..Len(s)
  BY ResolutionAssumption, LenProperties
<1>2. CASE \E i \in DOMAIN s : s[i] = d
  <2> DEFINE k == CHOOSE i \in DOMAIN s : s[i] = d
             a == SubSeq(s, 1, k - 1)  b == SubSeq(s, k + 1, Len(s))
  <2>1. k \in 1..Len(s)
    BY <1>1, <1>2
  <2>2. 1 \in 1..(Len(s) + 1) /\ k - 1 \in 0..Len(s) /\ k + 1 \in 1..(Len(s) + 1)
        /\ Len(s) \in 0..Len(s)
    BY <1>1, <2>1
  <2>9. Use(s, d) = Append(a \o b, d)
    BY <1>2 DEF Use, RemoveAt
  <2> HIDE DEF k
  <2>3. a \in Seq(S) /\ Len(a) = k - 1 /\ Range(a) \subseteq Range(s)
    <3>1. /\ a \in Seq(S) /\ Range(a) \subseteq Range(s)
          /\ Len(a) = IF 1 <= k - 1 THEN k - 1 - 1 + 1 ELSE 0
      BY <2>2, PartEntries
    <3> HIDE DEF a
    <3> QED
      BY <2>1, <1>1, <3>1
  <2>4. b \in Seq(S) /\ Len(b) = Len(s) - k /\ Range(b) \subseteq Range(s)
    <3>1. /\ b \in Seq(S) /\ Range(b) \subseteq Range(s)
          /\ Len(b) = IF k + 1 <= Len(s) THEN Len(s) - (k + 1) + 1 ELSE 0
      BY <2>2, PartEntries
    <3> HIDE DEF b
    <3>2. CASE k + 1 <= Len(s)
      BY <2>1, <1>1, <3>1, <3>2
    <3>3. CASE k = Len(s)
      BY <2>1, <1>1, <3>1, <3>3
    <3>4. \A l \in Nat : \A i \in 1..l : i + 1 <= l \/ i = l
      OBVIOUS
    <3> QED
      BY <1>1, <2>1, <3>2, <3>3, <3>4
  <2> HIDE DEF a, b
  <2>6. a \o b \in Seq(S) /\ Len(a \o b) = Len(s) - 1 /\ Range(a \o b) \subseteq Range(s)
    <3>1. Len(a \o b) = Len(a) + Len(b) /\ a \o b \in Seq(S)
      BY <2>3, <2>4, ConcatProperties
    <3>2. Range(a \o b) = Range(a) \union Range(b)
      BY <2>3, <2>4, RangeConcatenation
    <3>3. Len(a) + Len(b) = Len(s) - 1
      BY <2>1, <2>3, <2>4, <1>1
    <3> QED
      BY <2>3, <2>4, <3>1, <3>2, <3>3
  <2> DEFINE c == a \o b
  <2> HIDE DEF c
  <2>7. c \in Seq(S) /\ Len(c) = Len(s) - 1 /\ Range(c) \subseteq Range(s)
    BY <2>6 DEF c
  <2>5. /\ Append(c, d) \in Seq(S) /\ Len(Append(c, d)) = Len(c) + 1
        /\ Range(Append(c, d)) = Range(c) \union {d}
    BY <2>7, EntriesAppend
  <2> QED
    BY <1>1, <2>5, <2>7, <2>9 DEF c
<1>3. CASE ~\E i \in DOMAIN s : s[i] = d
  <2>1. Use(s, d) = NoMore(Append(s, d))
    BY <1>3 DEF Use
  <2> QED
    BY <2>1, OneEntryMore
<1> QED
  BY <1>2, <1>3

\* A sequence without repetitions is as long as it has entries.
LEMMA LengthIsCount ==
    ASSUME NEW S, NEW s \in Seq(S), NoRepeats(s)
    PROVE  IsFiniteSet(Range(s)) /\ Cardinality(Range(s)) = Len(s)
<1>1. Len(s) \in Nat /\ DOMAIN s = 1..Len(s) /\ s \in [1..Len(s) -> S]
  BY LenProperties
<1>2. Range(s) = {s[i] : i \in 1..Len(s)}
  BY RangeEquality
<1>3. s \in [1..Len(s) -> Range(s)]
  BY <1>1, <1>2
<1>4. s \in Bijection(1..Len(s), Range(s))
  BY <1>1, <1>2, <1>3 DEF Bijection, Injection, Surjection, NoRepeats, IsInjective
<1>5. IsFiniteSet(1..Len(s)) /\ Cardinality(1..Len(s)) = Len(s)
  BY <1>1, FS_Interval
<1> QED
  BY <1>4, <1>5, FS_Bijection DEF ExistsBijection

LEMMA ResolutionInitIInv == ResolutionInit => ResolutionIInv
<1> SUFFICES ASSUME ResolutionInit PROVE ResolutionIInv
  OBVIOUS
<1>1. /\ <<>> \in Seq(Datasets) /\ <<>> \in Seq(RunNames) /\ Len(<<>>) = 0
      /\ Range(<<>>) = {} /\ DOMAIN <<>> = {}
  <2>1. <<>> \in Seq(Datasets) /\ <<>> \in Seq(RunNames) /\ Len(<<>>) = 0
    BY EmptySeq
  <2>2. DOMAIN <<>> = 1..0 /\ 1..0 = {}
    BY <2>1, LenProperties
  <2> QED
    BY <2>1, <2>2 DEF Range
<1>2. MemoryCapacity \in Nat
  BY ResolutionAssumption
<1>3. ResolutionTypeOK
  BY <1>1, <1>2 DEF ResolutionInit, ResolutionTypeOK
<1>4. NoAnswer.ok = FALSE
  BY DEF NoAnswer
<1>5. ServedIsOfRun /\ ListedIsRead
  BY <1>4 DEF ResolutionInit, ServedIsOfRun, ListedIsRead
<1>6. NoRepeats(<<>>) /\ IsFiniteSet({})
  BY <1>1, FS_EmptySet DEF NoRepeats
<1> QED
  BY <1>1, <1>3, <1>5, <1>6 DEF ResolutionInit, ResolutionIInv, ResolutionInv

\* What is ingested makes no dataset of the other visits ambiguous.
LEMMA IngestStep ==
    ASSUME ResolutionIInv, NEW d \in Datasets, Ingest(d)
    PROVE  ResolutionIInv'
<1> USE DEF ResolutionIInv, ResolutionInv
<1>1. datasets \subseteq datasets' /\ UNCHANGED <<resolved, remembered, opened, listed>>
      /\ datasets' \subseteq Datasets /\ answered' = NoAnswer
  BY DEF Ingest, memory, ResolutionTypeOK
<1>2. ResolutionTypeOK'
  BY <1>1 DEF ResolutionTypeOK
<1>3. ServedIsOfRun'
  BY <1>1 DEF ServedIsOfRun, NoAnswer
<1>4. ListedIsRead'
  <2> SUFFICES ASSUME NEW p \in NameReaders, NEW l \in listed, l[1].visit \notin Differences
               PROVE  LET refs == QueryDatasets(p, l[1])'
                      IN  /\ \E e \in refs : e.detector = l[2]
                          /\ \A e, f \in refs : e.detector = f.detector => e = f
    BY <1>1 DEF ListedIsRead
  <2>1. \E e \in QueryDatasets(p, l[1]) : e.detector = l[2]
    BY DEF ListedIsRead
  <2>2. QueryDatasets(p, l[1])' = {e \in datasets' : e.visit = l[1].visit /\ e.run \in {l[1].run}}
    BY DEF QueryDatasets, QueryCollections
  <2>3. QueryDatasets(p, l[1]) = {e \in datasets : e.visit = l[1].visit /\ e.run \in {l[1].run}}
    BY DEF QueryDatasets, QueryCollections
  <2>4. \A e, f \in QueryDatasets(p, l[1])' : e.detector = f.detector => e = f
    BY <1>1, <2>2 DEF Datasets
  <2> QED
    BY <1>1, <2>1, <2>2, <2>3, <2>4
<1> QED
  BY <1>1, <1>2, <1>3, <1>4

\* A process resolves a UUID: the visit is opened, and remembered from then on.
LEMMA ResolveStep ==
    ASSUME ResolutionIInv, NEW p \in Resolvers, NEW d \in Datasets, Resolve(p, d)
    PROVE  ResolutionIInv'
<1> USE DEF ResolutionIInv, ResolutionInv
<1> DEFINE n == NameOf(d)
<1>1. p \in Processes /\ n \in RunNames /\ MemoryCapacity \in Nat
  BY ResolutionAssumption DEF Processes, NameOf, RunNames, Datasets
<1>2. /\ resolved[p] \in Seq(Datasets) /\ Len(resolved[p]) <= MemoryCapacity
      /\ remembered[p] \in Seq(RunNames) /\ Len(remembered[p]) <= MemoryCapacity
      /\ opened[p] \subseteq RunNames
  BY <1>1 DEF ResolutionTypeOK
<1>3. /\ UNCHANGED <<datasets, listed>> /\ answered' = NoAnswer
      /\ resolved' = [resolved EXCEPT ![p] = Use(resolved[p], d)]
      /\ remembered' = [remembered EXCEPT ![p] =
             IF d \in Range(resolved[p]) THEN remembered[p] ELSE Remember(remembered[p], n)]
      /\ opened' = [opened EXCEPT ![p] = opened[p] \union {n}]
  BY DEF Resolve
<1> HIDE DEF n
<1>4. /\ resolved'[p] = Use(resolved[p], d)
      /\ remembered'[p] = IF d \in Range(resolved[p]) THEN remembered[p]
                          ELSE Remember(remembered[p], n)
      /\ opened'[p] = opened[p] \union {n}
      /\ \A q \in Processes \ {p} : /\ resolved'[q] = resolved[q]
                                    /\ remembered'[q] = remembered[q]
                                    /\ opened'[q] = opened[q]
  BY <1>1, <1>3 DEF ResolutionTypeOK
<1>5. /\ Use(resolved[p], d) \in Seq(Datasets) /\ Len(Use(resolved[p], d)) <= MemoryCapacity
      /\ Range(Use(resolved[p], d)) \subseteq Range(resolved[p]) \union {d}
  BY <1>2, OneUse
<1> DEFINE s == remembered[p]  t == remembered'[p]
<1>6. /\ NoRepeats(s) /\ Range(s) \subseteq opened[p] /\ IsFiniteSet(opened[p])
      /\ Cardinality(opened[p]) <= MemoryCapacity => opened[p] \subseteq Range(s)
  BY <1>1
<1>7. /\ t \in Seq(RunNames) /\ Len(t) <= MemoryCapacity /\ NoRepeats(t)
      /\ Range(t) \subseteq Range(s) \union {n}
      /\ \/ t = s /\ n \in opened[p]
         \/ /\ n \notin Range(s)
            /\ Len(s) < MemoryCapacity => Range(t) = Range(s) \union {n}
  <2>1. CASE d \in Range(resolved[p])
    BY <1>1, <1>2, <1>4, <1>6, <2>1 DEF n
  <2>2. CASE d \notin Range(resolved[p]) /\ n \in Range(s)
    BY <1>1, <1>2, <1>4, <1>6, <2>2 DEF Remember
  <2>3. CASE d \notin Range(resolved[p]) /\ n \notin Range(s)
    <3> DEFINE u == NoMore(Append(s, n))
    <3>1. t = u
      BY <1>4, <2>3 DEF Remember
    <3>2. /\ u \in Seq(RunNames) /\ Len(u) <= MemoryCapacity
          /\ Range(u) \subseteq Range(s) \union {n}
          /\ NoRepeats(s) /\ n \notin Range(s) => NoRepeats(u)
          /\ Len(s) < MemoryCapacity => Range(u) = Range(s) \union {n}
      BY <1>1, <1>2, OneEntryMore
    <3> HIDE DEF u
    <3> QED
      BY <3>1, <3>2, <1>6, <2>3
  <2> QED
    BY <2>1, <2>2, <2>3
<1> HIDE DEF s, t
<1>8. IsFiniteSet(opened[p]) /\ IsFiniteSet(opened'[p])
  BY <1>4, <1>6, FS_AddElement
<1>9. ASSUME Cardinality(opened'[p]) <= MemoryCapacity
      PROVE  opened'[p] \subseteq Range(t)
  <2>1. opened[p] \subseteq opened'[p] /\ opened[p] \in SUBSET opened'[p]
    BY <1>4
  <2>2. Cardinality(opened[p]) \in Nat /\ Cardinality(opened'[p]) \in Nat
        /\ Cardinality(opened[p]) <= Cardinality(opened'[p])
    BY <1>8, <2>1, FS_CardinalityType, FS_Subset
  <2>3. opened[p] = Range(s)
    <3>1. Cardinality(opened[p]) <= MemoryCapacity
      BY <1>1, <1>9, <2>2
    <3> QED
      BY <1>6, <3>1
  <2>4. CASE t = s /\ n \in opened[p]
    BY <1>4, <2>3, <2>4
  <2>5. CASE n \notin Range(s) /\ (Len(s) < MemoryCapacity => Range(t) = Range(s) \union {n})
    <3>1. Cardinality(opened'[p]) = Cardinality(opened[p]) + 1
      BY <1>4, <1>8, <2>3, <2>5, FS_AddElement
    <3>2. Cardinality(opened[p]) = Len(s) /\ Len(s) \in Nat
      BY <1>2, <1>6, <2>3, LengthIsCount, LenProperties DEF s
    <3>3. Len(s) < MemoryCapacity
      BY <1>1, <1>9, <3>1, <3>2
    <3> QED
      BY <1>4, <2>3, <2>5, <3>3
  <2> QED
    BY <1>7, <2>4, <2>5
<1>10. ResolutionTypeOK'
  <2>1. /\ resolved' \in [Processes -> Seq(Datasets)]
        /\ remembered' \in [Processes -> Seq(RunNames)]
        /\ opened' \in [Processes -> SUBSET RunNames]
    BY <1>1, <1>2, <1>3, <1>4, <1>5, <1>7 DEF ResolutionTypeOK, t
  <2>2. ASSUME NEW q \in Processes
        PROVE  Len(resolved'[q]) <= MemoryCapacity /\ Len(remembered'[q]) <= MemoryCapacity
    BY <1>4, <1>5, <1>7 DEF ResolutionTypeOK, t
  <2> QED
    BY <1>3, <2>1, <2>2 DEF ResolutionTypeOK
<1>11. ASSUME NEW q \in Processes
       PROVE  /\ NoRepeats(remembered'[q])
              /\ IsFiniteSet(opened'[q])
              /\ Range(remembered'[q]) \subseteq opened'[q]
              /\ \A e \in Range(resolved'[q]) : NameOf(e) \in opened'[q]
              /\ Cardinality(opened'[q]) <= MemoryCapacity
                    => opened'[q] \subseteq Range(remembered'[q])
  <2>1. CASE q = p
    <3>1. Range(t) \subseteq opened'[p]
      BY <1>4, <1>6, <1>7
    <3>2. \A e \in Range(resolved'[p]) : NameOf(e) \in opened'[p]
      BY <1>1, <1>4, <1>5 DEF n
    <3> QED
      BY <1>7, <1>8, <1>9, <2>1, <3>1, <3>2 DEF t
  <2>2. CASE q # p
    BY <1>4, <2>2
  <2> QED
    BY <2>1, <2>2
<1>12. ServedIsOfRun'
  BY <1>3 DEF ServedIsOfRun, NoAnswer
<1>13. ListedIsRead'
  <2>1. ASSUME NEW q \in NameReaders, NEW l \in listed, l[1].visit \notin Differences
        PROVE  QueryDatasets(q, l[1])' = QueryDatasets(q, l[1])
    BY <1>3, <2>1 DEF QueryDatasets, QueryCollections
  <2> QED
    BY <1>3, <2>1 DEF ListedIsRead
<1> QED
  BY <1>10, <1>11, <1>12, <1>13

\* Nothing but the answer and the list of a question changes.
LEMMA QuestionStep ==
    ASSUME ResolutionIInv, NEW p \in Processes, NEW n \in RunNames, Question(p, n)
    PROVE  ResolutionIInv'
<1> USE DEF ResolutionIInv, ResolutionInv
<1>1. UNCHANGED <<datasets, resolved, remembered, opened>>
  BY DEF Question, ListCcds, RepresentativeUuid, GetData, GetMetadata, memory
<1>2. PICK refs \in SUBSET QueryDatasets(p, n), ok \in BOOLEAN : Answer(p, n, refs, ok)
  <2>1. QueryDatasets(p, n) \in SUBSET QueryDatasets(p, n) /\ {} \in SUBSET QueryDatasets(p, n)
    OBVIOUS
  <2>2. \A c : {d \in QueryDatasets(p, n) : d.detector = c} \in SUBSET QueryDatasets(p, n)
    OBVIOUS
  <2>3. \A d \in QueryDatasets(p, n) : {d} \in SUBSET QueryDatasets(p, n)
    OBVIOUS
  <2>4. CASE ListCcds(p, n)
    BY <2>1, <2>4 DEF ListCcds
  <2>5. CASE RepresentativeUuid(p, n)
    BY <2>1, <2>3, <2>5 DEF RepresentativeUuid
  <2>6. ASSUME NEW c \in Detectors, GetData(p, n, c)
        PROVE  \E refs \in SUBSET QueryDatasets(p, n), ok \in BOOLEAN : Answer(p, n, refs, ok)
    BY <2>2, <2>6, Zenon DEF GetData
  <2>7. ASSUME NEW c \in Detectors, GetMetadata(p, n, c)
        PROVE  \E refs \in SUBSET QueryDatasets(p, n), ok \in BOOLEAN : Answer(p, n, refs, ok)
    BY <2>2, <2>7, Zenon DEF GetMetadata
  <2> QED
    BY <2>4, <2>5, <2>6, <2>7 DEF Question
<1>3. ResolutionTypeOK' /\ ListedIsRead'
  <2>1. \/ UNCHANGED listed
        \/ p \in NameReaders /\ listed' = {<<n, d.detector>> : d \in QueryDatasets(p, n)}
    BY DEF Question, ListCcds, RepresentativeUuid, GetData, GetMetadata
  <2>2. CASE UNCHANGED listed
    <3>1. \A q, m : QueryDatasets(q, m)' = QueryDatasets(q, m)
      BY <1>1 DEF QueryDatasets, QueryCollections
    <3> QED
      BY <1>1, <2>2, <3>1 DEF ResolutionTypeOK, ListedIsRead
  <2>3. CASE p \in NameReaders /\ listed' = {<<n, d.detector>> : d \in QueryDatasets(p, n)}
    <3>1. \A d \in QueryDatasets(p, n) : d.detector \in Detectors
      BY DEF QueryDatasets, ResolutionTypeOK, Datasets
    <3>2. listed' \subseteq RunNames \X Detectors
      BY <2>3, <3>1
    <3>3. ASSUME NEW q \in NameReaders, NEW l \in listed', l[1].visit \notin Differences
          PROVE  LET there == QueryDatasets(q, l[1])'
                 IN  /\ \E e \in there : e.detector = l[2]
                     /\ \A e, f \in there : e.detector = f.detector => e = f
      <4>1. PICK d \in QueryDatasets(p, n) : l = <<n, d.detector>>
        BY <2>3
      <4>2. l[1] = n /\ l[2] = d.detector /\ n.visit \notin Differences
        BY <3>3, <4>1
      <4>3. QueryDatasets(q, l[1])' = {e \in datasets : e.visit = n.visit /\ e.run \in {n.run}}
        BY <1>1, <4>2 DEF QueryDatasets, QueryCollections
      <4>4. d \in QueryDatasets(q, l[1])'
        BY <4>1, <4>2, <4>3 DEF QueryDatasets, QueryCollections
      <4>5. \A e, f \in QueryDatasets(q, l[1])' : e.detector = f.detector => e = f
        <5>1. \A e \in datasets : e \in Datasets
          BY DEF ResolutionTypeOK
        <5>2. \A e, f \in Datasets :
                e.visit = f.visit /\ e.run = f.run /\ e.detector = f.detector => e = f
          BY DEF Datasets
        <5> QED
          BY <4>3, <5>1, <5>2
      <4> QED
        BY <4>2, <4>4, <4>5
    <3> QED
      BY <1>1, <3>2, <3>3 DEF ResolutionTypeOK, ListedIsRead
  <2> QED
    BY <2>1, <2>2, <2>3
<1>4. ServedIsOfRun'
  <2>1. answered' = [process |-> p, name |-> n, ok |-> ok, runs |-> {d.run : d \in refs}]
    BY <1>2 DEF Answer
  <2>2. answered'.process = p /\ answered'.name = n /\ answered'.runs = {d.run : d \in refs}
    BY <2>1
  <2>3. ASSUME \/ n.visit \notin Differences
               \/ n \in opened[p] /\ Cardinality(opened[p]) <= MemoryCapacity
        PROVE  answered'.runs \subseteq {n.run}
    <3>1. QueryCollections(p, n) = {n.run}
      BY <2>3 DEF QueryCollections
    <3>2. \A d \in QueryDatasets(p, n) : d.run = n.run
      BY <3>1 DEF QueryDatasets
    <3> QED
      BY <2>2, <3>2
  <2> QED
    BY <1>1, <2>2, <2>3 DEF ServedIsOfRun
<1> QED
  BY <1>1, <1>3, <1>4

\* The module keeps what it promises, for any visits, runs, processes and capacity.
THEOREM VisitsAreResolved == ResolutionSpec => []ResolutionInv
<1>1. ResolutionInit => ResolutionIInv
  BY ResolutionInitIInv
<1>2. ResolutionIInv /\ [ResolutionNext]_resolutionVars => ResolutionIInv'
  <2> SUFFICES ASSUME ResolutionIInv, [ResolutionNext]_resolutionVars
               PROVE  ResolutionIInv'
    OBVIOUS
  <2>1. CASE UNCHANGED resolutionVars
    <3>1. UNCHANGED <<datasets, resolved, remembered, opened, listed, answered>>
      BY <2>1 DEF resolutionVars, memory
    <3> QED
      BY <3>1 DEF ResolutionIInv, ResolutionInv, ResolutionTypeOK, ServedIsOfRun, ListedIsRead,
                  QueryDatasets, QueryCollections
  <2> QED
    BY <2>1, IngestStep, ResolveStep, QuestionStep DEF ResolutionNext
<1>3. ResolutionIInv => ResolutionInv
  BY DEF ResolutionIInv
<1> QED
  BY <1>1, <1>2, <1>3, PTL DEF ResolutionSpec

-----------------------------------------------------------------------------
(* The form of the queries.  The types and the strengthened invariant, per  *)
(* thread; then the places in the order of the names: the names of a set    *)
(* have the places 0 to one less than there are; then the loop of the       *)
(* batches and the steps.                                                   *)

\* What the threads do.
Doings == {"idle", "collection", "type", "collections", "again", "types", "batches"}
Selections == (Collections \union {NoName}) \X (Types \union {NoName})
Loops == [offset : Nat, found : SUBSET Types, seen : SUBSET Types, from : SUBSET Types]
Lists(S) == [values : SUBSET S, truncated : BOOLEAN, from : SUBSET S]
CacheSets == [collection : [Collections -> {"?", "yes", "no"}],
              type : [Types -> {"?", "yes", "no"}], supports : [Types -> {"?", "yes", "no"}],
              collections : [Collections \union {NoName} -> SUBSET Lists(Collections)],
              types : [Types \union {NoName} -> SUBSET Lists(Types)]]
Forms == [exact : BOOLEAN, collections : SUBSET Collections, types : SUBSET Types,
          cut : BOOLEAN]

\* A collection and a type that are looked up are names; the type after the collection was
\* found.
SelectionOK(cs, d, sel) ==
    /\ d = "collection" => sel[1] # NoName /\ sel[2] # NoName
    /\ d = "type" => sel[1] \in cs /\ sel[2] # NoName

\* What a cache says to be there is there, and FaultIsNotKept.
CachesOK(cs, ts, ca) ==
    /\ \A c \in Collections : ca.collection[c] = "yes" => c \in cs
    /\ \A c \in FirstCollections : ca.collection[c] # "no"
    /\ \A n \in Types : ca.type[n] = "yes" => n \in ts \intersect Supported
    /\ \A n \in Types : ca.supports[n] = "yes" => n \in Supported

Short(S) == Cardinality(S) <= SuggestionLimit

\* SuggestionsAreFirst, of one result.
FirstOnes(s, result) ==
    \A n \in Matching(result.from, s) \intersect Supported :
        \/ n \in result.values
        \/ /\ result.truncated /\ Cardinality(result.values) = SuggestionLimit
           /\ \A m \in result.values : m < n

ListsOK(ca) ==
    /\ \A s \in Collections \union {NoName} : \A r \in ca.collections[s] : Short(r.values)
    /\ \A s \in Types \union {NoName} : \A r \in ca.types[s] :
          Short(r.values) /\ FirstOnes(s, r)

FormOK(cs, ts, d, op) ==
    /\ Short(op.collections) /\ Short(op.types)
    /\ op.exact => /\ d = "idle"
                   /\ op.collections \subseteq cs /\ op.collections # {}
                   /\ op.types \subseteq ts \intersect Supported /\ op.types # {}

\* The names of the batches so far, of which all that are supported were found, are before
\* the others that were there from the start, and those are still to come.
BatchesOK(ts, search, lp) ==
    LET all == Matching(ts, search)
    IN  /\ lp.from \subseteq ts /\ lp.seen \subseteq all
        /\ lp.found = lp.seen \intersect Supported /\ Short(lp.found)
        /\ lp.offset <= Cardinality(all)
        /\ \A n \in Matching(lp.from, search) \ lp.seen :
              lp.offset <= Before(all, n) /\ \A m \in lp.seen : m < n

LoopOK(ts, d, sel, lp) == IF d = "batches" THEN BatchesOK(ts, sel[2], lp) ELSE lp = NoLoop

ThreadOK(cs, ts, d, sel, lp, ca, op) ==
    /\ SelectionOK(cs, d, sel) /\ CachesOK(cs, ts, ca) /\ ListsOK(ca)
    /\ FormOK(cs, ts, d, op) /\ LoopOK(ts, d, sel, lp)

OptionsTypes ==
    /\ FirstCollections \subseteq collections /\ collections \subseteq Collections
    /\ types \subseteq Types
    /\ doing \in [Threads -> Doings] /\ selection \in [Threads -> Selections]
    /\ loop \in [Threads -> Loops] /\ caches \in [Threads -> CacheSets]
    /\ options \in [Threads -> Forms]

OptionsIInv ==
    /\ OptionsTypes
    /\ \A t \in Threads :
          ThreadOK(collections, types, doing[t], selection[t], loop[t], caches[t], options[t])

LEMMA BeforeBounds ==
  ASSUME NEW S \in SUBSET Nat, IsFiniteSet(S), NEW x
  PROVE  /\ IsFiniteSet({y \in S : y < x})
         /\ Before(S, x) \in Nat /\ Before(S, x) <= Cardinality(S)
         /\ x \in S => Before(S, x) < Cardinality(S)
<1> DEFINE L == {y \in S : y < x}
<1>1. IsFiniteSet(L) /\ Cardinality(L) <= Cardinality(S) /\ (Cardinality(S) = Cardinality(L) => S = L)
  BY FS_Subset
<1>2. Cardinality(L) \in Nat /\ Cardinality(S) \in Nat
  BY <1>1, FS_CardinalityType
<1>3. x \in S => S # L
  OBVIOUS
<1>4. Before(S, x) = Cardinality(L)
  BY DEF Before
<1> QED
  BY <1>1, <1>2, <1>3, <1>4

LEMMA BeforeIsOrdered ==
  ASSUME NEW S \in SUBSET Nat, IsFiniteSet(S), NEW x \in S, NEW y \in S, x < y
  PROVE  Before(S, x) < Before(S, y)
<1> DEFINE T == {z \in S : z < y}
<1>1. IsFiniteSet(T) /\ T \in SUBSET Nat
  BY BeforeBounds
<1>2. x \in T
  OBVIOUS
<1>3. {z \in T : z < x} = {z \in S : z < x}
  <2>1. \A z \in S : z < x => z < y
    BY x \in Nat, y \in Nat, x < y, S \subseteq Nat
  <2> QED
    BY <2>1
<1>4. Before(T, x) < Cardinality(T)
  BY <1>1, <1>2, BeforeBounds
<1> QED
  BY <1>3, <1>4 DEF Before

LEMMA BeforeReflectsOrder ==
  ASSUME NEW S \in SUBSET Nat, IsFiniteSet(S), NEW x \in S, NEW y \in S,
         Before(S, x) < Before(S, y)
  PROVE  x < y
<1>1. Before(S, x) \in Nat /\ Before(S, y) \in Nat
  BY BeforeBounds
<1>2. y < x => Before(S, y) < Before(S, x)
  BY BeforeIsOrdered
<1> QED
  BY <1>1, <1>2

LEMMA BeforeGrows ==
  ASSUME NEW T \in SUBSET Nat, IsFiniteSet(T), NEW S \in SUBSET T, NEW x
  PROVE  Before(S, x) <= Before(T, x)
<1>1. {y \in S : y < x} \subseteq {y \in T : y < x}
  OBVIOUS
<1>2. IsFiniteSet({y \in T : y < x})
  BY BeforeBounds
<1> QED
  BY <1>1, <1>2, FS_Subset DEF Before

LEMMA PlacesAreTaken ==
  ASSUME NEW S \in SUBSET Nat, IsFiniteSet(S)
  PROVE  [x \in S |-> Before(S, x)] \in Bijection(S, 0 .. Cardinality(S) - 1)
<1> DEFINE f == [x \in S |-> Before(S, x)]
           N == 0 .. Cardinality(S) - 1
<1>1. Cardinality(S) \in Nat
  BY FS_CardinalityType
<1>2. f \in [S -> N]
  <2> SUFFICES ASSUME NEW x \in S PROVE Before(S, x) \in N
    OBVIOUS
  <2>1. Before(S, x) \in Nat /\ Before(S, x) < Cardinality(S)
    BY BeforeBounds
  <2> QED
    BY <1>1, <2>1
<1>3. \A x, y \in S : f[x] = f[y] => x = y
  <2> SUFFICES ASSUME NEW x \in S, NEW y \in S, Before(S, x) = Before(S, y), x # y
               PROVE  FALSE
    OBVIOUS
  <2>1. Before(S, x) \in Nat
    BY BeforeBounds
  <2>2. x < y => FALSE
    BY <2>1, BeforeIsOrdered
  <2>3. y < x => FALSE
    BY <2>1, BeforeIsOrdered
  <2> QED
    BY <2>2, <2>3
<1>4. f \in Injection(S, N)
  BY <1>2, <1>3, Fun_IsInj
<1>5. IsFiniteSet(N) /\ Cardinality(N) = Cardinality(S)
  <2>1. IsFiniteSet(N) /\ Cardinality(N) = IF 0 > Cardinality(S) - 1 THEN 0 ELSE Cardinality(S) - 1 - 0 + 1
    BY <1>1, FS_Interval
  <2> QED
    BY <1>1, <2>1
<1>6. f \in Surjection(S, N)
  <2> HIDE DEF f, N
  <2> QED
    BY <1>4, <1>5, FS_Injection
<1> QED
  BY <1>4, <1>6, Fun_IsBij

LEMMA PlacesCounted ==
  ASSUME NEW S \in SUBSET Nat, IsFiniteSet(S), NEW a \in Nat, NEW b \in Nat,
         a <= b, b <= Cardinality(S)
  PROVE  LET R == {x \in S : a <= Before(S, x) /\ Before(S, x) < b}
         IN  IsFiniteSet(R) /\ Cardinality(R) = b - a
<1> DEFINE R == {x \in S : a <= Before(S, x) /\ Before(S, x) < b}
           f == [x \in S |-> Before(S, x)]
           g == [x \in R |-> Before(S, x)]
           N == a .. b - 1
           M == 0 .. Cardinality(S) - 1
<1>1. f \in Bijection(S, M)
  BY PlacesAreTaken
<1>2. \A x \in S : Before(S, x) \in Nat
  BY BeforeBounds
<1>3. g \in [R -> N]
  <2> SUFFICES ASSUME NEW x \in R PROVE Before(S, x) \in N
    OBVIOUS
  <2>1. Before(S, x) \in Nat /\ a <= Before(S, x) /\ Before(S, x) < b
    BY <1>2
  <2> QED
    BY <2>1
<1>4. \A x, y \in R : g[x] = g[y] => x = y
  <2>1. \A x, y \in S : f[x] = f[y] => x = y
    <3> HIDE DEF f
    <3> QED
      BY <1>1, Fun_BijectionProperties
  <2> QED
    BY <2>1
<1>5. \A n \in N : \E x \in R : g[x] = n
  <2> SUFFICES ASSUME NEW n \in N PROVE \E x \in R : g[x] = n
    OBVIOUS
  <2>1. n \in M
    BY FS_CardinalityType
  <2>2. \A v \in M : \E x \in S : f[x] = v
    <3> HIDE DEF f, g, M, N, R
    <3> QED
      BY <1>1 DEF Bijection, Surjection
  <2>3. PICK x \in S : f[x] = n
    BY <2>1, <2>2
  <2>4. x \in R /\ g[x] = n
    BY <2>3
  <2> QED
    BY <2>4
<1>6. IsFiniteSet(R)
  BY FS_Subset
<1>7. IsFiniteSet(N) /\ Cardinality(N) = b - a
  <2>1. Cardinality(N) = (IF a > b - 1 THEN 0 ELSE b - 1 - a + 1) /\ IsFiniteSet(N)
    BY FS_Interval
  <2> QED
    BY <2>1
<1>8. ExistsBijection(R, N)
  <2> HIDE DEF g, R, N
  <2>1. g \in Bijection(R, N)
    BY <1>3, <1>4, <1>5, Fun_IsBij, Fun_IsInj, Fun_IsSurj
  <2> QED
    BY <2>1 DEF ExistsBijection
<1>9. Cardinality(N) = Cardinality(R)
  <2> HIDE DEF R, N
  <2> QED
    BY <1>6, <1>8, FS_Bijection
<1> QED
  BY <1>6, <1>7, <1>9

\* The first names of a set are as many as are asked for, or all.
LEMMA LeadingCounted ==
  ASSUME NEW S \in SUBSET Nat, IsFiniteSet(S), NEW n \in Nat
  PROVE  /\ IsFiniteSet(Leading(S, n)) /\ Leading(S, n) \subseteq S
         /\ n <= Cardinality(S) => Cardinality(Leading(S, n)) = n
         /\ Cardinality(S) <= n => Leading(S, n) = S
<1>0. Leading(S, n) \subseteq S /\ IsFiniteSet(Leading(S, n))
  <2>1. Leading(S, n) \subseteq S
    BY DEF Leading
  <2> QED
    BY <2>1, FS_Subset
<1>1. ASSUME n <= Cardinality(S) PROVE Cardinality(Leading(S, n)) = n
  <2> DEFINE R == {x \in S : 0 <= Before(S, x) /\ Before(S, x) < n}
  <2>1. Cardinality(R) = n - 0
    <3>1. 0 \in Nat /\ 0 <= n
      OBVIOUS
    <3> QED
      BY <1>1, <3>1, PlacesCounted
  <2>2. \A x \in S : Before(S, x) \in Nat
    BY BeforeBounds
  <2>3. \A x \in S : 0 <= Before(S, x)
    BY <2>2
  <2>4. R = Leading(S, n)
    BY <2>3 DEF Leading
  <2> QED
    BY <2>1, <2>4
<1>2. ASSUME Cardinality(S) <= n PROVE Leading(S, n) = S
  <2>1. \A x \in S : Before(S, x) < n
    <3> TAKE x \in S
    <3>1. Before(S, x) \in Nat /\ Before(S, x) < Cardinality(S) /\ Cardinality(S) \in Nat
      BY BeforeBounds, FS_CardinalityType
    <3> QED
      BY <1>2, <3>1
  <2> QED
    BY <2>1 DEF Leading
<1> QED
  BY <1>0, <1>1, <1>2

\* Who is not among the first names comes after them.
LEMMA LeadingIsBefore ==
  ASSUME NEW S \in SUBSET Nat, IsFiniteSet(S), NEW n \in Nat,
         NEW x \in S, x \notin Leading(S, n)
  PROVE  n < Cardinality(S) /\ \A y \in Leading(S, n) : y < x
<1>1. Before(S, x) \in Nat /\ Before(S, x) < Cardinality(S) /\ Cardinality(S) \in Nat
  BY BeforeBounds, FS_CardinalityType
<1>2. n <= Before(S, x)
  BY <1>1 DEF Leading
<1>3. ASSUME NEW y \in Leading(S, n) PROVE y < x
  <2>1. y \in S /\ Before(S, y) < n /\ Before(S, y) \in Nat
    BY <1>3, BeforeBounds DEF Leading
  <2>2. Before(S, y) < Before(S, x)
    BY <1>1, <1>2, <2>1
  <2> QED
    BY <2>1, <2>2, BeforeReflectsOrder
<1> QED
  BY <1>1, <1>2, <1>3

\* What one step of the loop looks at, finds and would answer.
BatchNames(ts, s, lp) ==
    {n \in Matching(ts, s) : /\ lp.offset <= Before(Matching(ts, s), n)
                             /\ Before(Matching(ts, s), n) < lp.offset + BatchSize}
BatchGood(ts, s, lp) == (BatchNames(ts, s, lp) \ lp.seen) \intersect Supported
BatchFound(ts, s, lp, n) ==
    lp.found \union Leading(BatchGood(ts, s, lp), n - Cardinality(lp.found))
BatchResult(ts, s, lp) ==
    [values |-> BatchFound(ts, s, lp, SuggestionLimit),
     truncated |-> Cardinality(BatchFound(ts, s, lp, SuggestionLimit + 1)) > SuggestionLimit,
     from |-> lp.from]
BatchAfter(ts, s, lp) ==
    [offset |-> lp.offset + Cardinality(BatchNames(ts, s, lp)),
     found |-> BatchFound(ts, s, lp, SuggestionLimit + 1),
     seen |-> lp.seen \union BatchNames(ts, s, lp), from |-> lp.from]

LEMMA NamesAreFinite ==
  ASSUME NEW S, S \subseteq Collections \/ S \subseteq Types, NEW s
  PROVE  /\ S \in SUBSET Nat /\ IsFiniteSet(S) /\ Matching(S, s) \subseteq S
         /\ Matching(S, s) \in SUBSET Nat /\ IsFiniteSet(Matching(S, s))
         /\ Matching(S, s) \intersect Supported \in SUBSET Nat
         /\ IsFiniteSet(Matching(S, s) \intersect Supported)
<1>1. S \in SUBSET Nat
  BY OptionsAssumption
<1>2. IsFiniteSet(S)
  BY OptionsAssumption, FS_Subset
<1>3. Matching(S, s) \subseteq S
  BY DEF Matching
<1>4. \A T \in SUBSET S : IsFiniteSet(T) /\ T \in SUBSET Nat
  BY <1>1, <1>2, FS_Subset
<1> QED
  BY <1>1, <1>2, <1>3, <1>4

\* The first names up to the limit.
LEMMA LimitIsApplied ==
  ASSUME NEW S \in SUBSET Nat, IsFiniteSet(S)
  PROVE  /\ Short(Leading(S, SuggestionLimit)) /\ Leading(S, SuggestionLimit) \subseteq S
         /\ \A x \in S \ Leading(S, SuggestionLimit) :
              /\ Cardinality(S) > SuggestionLimit
              /\ Cardinality(Leading(S, SuggestionLimit)) = SuggestionLimit
              /\ \A y \in Leading(S, SuggestionLimit) : y < x
<1>1. SuggestionLimit \in Nat /\ Cardinality(S) \in Nat
  BY OptionsAssumption, FS_CardinalityType
<1>2. /\ Leading(S, SuggestionLimit) \subseteq S
      /\ SuggestionLimit <= Cardinality(S)
           => Cardinality(Leading(S, SuggestionLimit)) = SuggestionLimit
      /\ Cardinality(S) <= SuggestionLimit => Leading(S, SuggestionLimit) = S
  BY <1>1, LeadingCounted
<1>3. Short(Leading(S, SuggestionLimit))
  BY <1>1, <1>2 DEF Short
<1>4. ASSUME NEW x \in S \ Leading(S, SuggestionLimit)
      PROVE  /\ Cardinality(S) > SuggestionLimit
             /\ Cardinality(Leading(S, SuggestionLimit)) = SuggestionLimit
             /\ \A y \in Leading(S, SuggestionLimit) : y < x
  <2>1. SuggestionLimit < Cardinality(S) /\ \A y \in Leading(S, SuggestionLimit) : y < x
    BY <1>1, LeadingIsBefore
  <2> QED
    BY <1>1, <1>2, <2>1
<1> QED
  BY <1>2, <1>3, <1>4

LEMMA ListType ==
  ASSUME NEW S, NEW v \in SUBSET S, NEW cut \in BOOLEAN, NEW from \in SUBSET S
  PROVE  [values |-> v, truncated |-> cut, from |-> from] \in Lists(S)
BY DEF Lists

LEMMA CollectionsAreListed ==
  ASSUME NEW S \in SUBSET Collections, NEW s
  PROVE  LET r == Limited(Matching(S, s), S) IN r \in Lists(Collections) /\ Short(r.values)
<1> DEFINE M == Matching(S, s)
<1>1. M \in SUBSET Nat /\ IsFiniteSet(M) /\ M \subseteq S
  BY NamesAreFinite
<1>2. Short(Leading(M, SuggestionLimit)) /\ Leading(M, SuggestionLimit) \subseteq M
  BY <1>1, LimitIsApplied
<1> HIDE DEF M
<1>3. Limited(M, S).values = Leading(M, SuggestionLimit)
  BY DEF Limited
<1>4. Limited(M, S) \in Lists(Collections)
  <2> DEFINE v == Leading(M, SuggestionLimit)
             cut == Cardinality(M) > SuggestionLimit
  <2>0. Cardinality(M) \in Nat /\ SuggestionLimit \in Nat
    BY <1>1, FS_CardinalityType, OptionsAssumption
  <2>1. v \in SUBSET Collections /\ cut \in BOOLEAN /\ S \in SUBSET Collections
    <3>1. v \in SUBSET Collections
      BY <1>1, <1>2
    <3> QED
      BY <2>0, <3>1
  <2>2. Limited(M, S) = [values |-> v, truncated |-> cut, from |-> S]
    BY DEF Limited
  <2> HIDE DEF v, cut
  <2> QED
    BY <2>1, <2>2, ListType
<1>5. Limited(M, S) \in Lists(Collections) /\ Short(Limited(M, S).values)
  BY <1>2, <1>3, <1>4
<1> QED
  BY <1>5 DEF M

LEMMA TypesAreListed ==
  ASSUME NEW S \in SUBSET Types, NEW s
  PROVE  LET r == Limited(Matching(S, s) \intersect Supported, S)
         IN  r \in Lists(Types) /\ Short(r.values) /\ FirstOnes(s, r)
<1> DEFINE M == Matching(S, s) \intersect Supported
           r == Limited(M, S)
<1>1. M \in SUBSET Nat /\ IsFiniteSet(M) /\ M \subseteq S
  BY NamesAreFinite
<1>2. /\ Short(Leading(M, SuggestionLimit)) /\ Leading(M, SuggestionLimit) \subseteq M
      /\ \A x \in M \ Leading(M, SuggestionLimit) :
              /\ Cardinality(M) > SuggestionLimit
              /\ Cardinality(Leading(M, SuggestionLimit)) = SuggestionLimit
              /\ \A y \in Leading(M, SuggestionLimit) : y < x
  BY <1>1, LimitIsApplied
<1>3. /\ r.values = Leading(M, SuggestionLimit) /\ r.from = S
      /\ r.truncated = (Cardinality(M) > SuggestionLimit)
  BY DEF Limited
<1>4. M = Matching(r.from, s) \intersect Supported
  BY <1>3
<1> HIDE DEF M
<1>5. r \in Lists(Types)
  <2> DEFINE v == Leading(M, SuggestionLimit)
             cut == Cardinality(M) > SuggestionLimit
  <2>0. Cardinality(M) \in Nat /\ SuggestionLimit \in Nat
    BY <1>1, FS_CardinalityType, OptionsAssumption
  <2>1. v \in SUBSET Types /\ cut \in BOOLEAN /\ S \in SUBSET Types
    <3>1. v \in SUBSET Types
      BY <1>1, <1>2
    <3> QED
      BY <2>0, <3>1
  <2>2. r = [values |-> v, truncated |-> cut, from |-> S]
    BY DEF Limited
  <2> HIDE DEF v, cut, r
  <2> QED
    BY <2>1, <2>2, ListType
<1> HIDE DEF r
<1>6. FirstOnes(s, r)
  BY <1>2, <1>3, <1>4 DEF FirstOnes
<1>7. r \in Lists(Types) /\ Short(r.values) /\ FirstOnes(s, r)
  BY <1>2, <1>3, <1>5, <1>6
<1> QED
  BY <1>7 DEF r, M

\* Of what was found and what is added to it up to n.
LEMMA FoundCounted ==
  ASSUME NEW F \in SUBSET Nat, IsFiniteSet(F), NEW G \in SUBSET Nat, IsFiniteSet(G),
         F \intersect G = {}, NEW n \in Nat, Cardinality(F) <= n
  PROVE  LET X == F \union Leading(G, n - Cardinality(F))
         IN  /\ Cardinality(X) <= n
             /\ n <= Cardinality(F) + Cardinality(G) => Cardinality(X) = n
             /\ Cardinality(F) + Cardinality(G) <= n => X = F \union G
<1> DEFINE k == n - Cardinality(F)
           L == Leading(G, k)
<1>1. Cardinality(F) \in Nat /\ Cardinality(G) \in Nat
  BY FS_CardinalityType
<1>2. k \in Nat
  BY <1>1
<1>3. /\ IsFiniteSet(L) /\ L \subseteq G
      /\ k <= Cardinality(G) => Cardinality(L) = k
      /\ Cardinality(G) <= k => L = G
  <2> HIDE DEF k
  <2> QED
    BY <1>2, LeadingCounted
<1> HIDE DEF L
<1>4. Cardinality(F \union L) = Cardinality(F) + Cardinality(L) /\ Cardinality(L) \in Nat
  <2>1. F \intersect L = {}
    BY <1>3
  <2>2. Cardinality(F \union L) = Cardinality(F) + Cardinality(L) - Cardinality(F \intersect L)
    BY <1>3, FS_Union
  <2>3. Cardinality({}) = 0 /\ Cardinality(L) \in Nat
    BY <1>3, FS_EmptySet, FS_CardinalityType
  <2>4. Cardinality(F \intersect L) = 0
    BY <2>1, <2>3
  <2> HIDE DEF k
  <2> QED
    BY <1>1, <2>2, <2>3, <2>4
<1>5. Cardinality(F \union L) <= n
  BY <1>1, <1>3, <1>4
<1>6. n <= Cardinality(F) + Cardinality(G) => Cardinality(F \union L) = n
  BY <1>1, <1>3, <1>4
<1>7. Cardinality(F) + Cardinality(G) <= n => F \union L = F \union G
  BY <1>1, <1>3
<1> QED
  BY <1>5, <1>6, <1>7 DEF L

\* A batch is full or the last; what is after a batch is after its names.
LEMMA BatchCounted ==
  ASSUME NEW S \in SUBSET Nat, IsFiniteSet(S), NEW a \in Nat, a <= Cardinality(S), NEW b \in Nat,
         NEW batch \in SUBSET S,
         \A x \in S : x \in batch <=> (a <= Before(S, x) /\ Before(S, x) < a + b)
  PROVE  /\ IsFiniteSet(batch) /\ Cardinality(batch) <= b
         /\ a + Cardinality(batch) <= Cardinality(S)
         /\ \A x \in S \ batch : a <= Before(S, x) =>
               /\ Cardinality(batch) = b /\ a + Cardinality(batch) <= Before(S, x)
               /\ \A y \in batch : y < x
<1> DEFINE P(x, c) == a <= Before(S, x) /\ Before(S, x) < c
           R == {x \in S : P(x, a + b)}
<1> SUFFICES /\ IsFiniteSet(R) /\ Cardinality(R) <= b /\ a + Cardinality(R) <= Cardinality(S)
             /\ \A x \in S \ R : a <= Before(S, x) =>
                   /\ Cardinality(R) = b /\ a + Cardinality(R) <= Before(S, x)
                   /\ \A y \in R : y < x
  <2>1. batch = R
    OBVIOUS
  <2> HIDE DEF R
  <2> QED
    BY <2>1
<1>1. Cardinality(S) \in Nat
  BY FS_CardinalityType
<1>2. \A x \in S : Before(S, x) \in Nat /\ Before(S, x) < Cardinality(S)
  BY BeforeBounds
<1>3. \A c \in Nat : a <= c /\ c <= Cardinality(S) =>
         IsFiniteSet({x \in S : P(x, c)}) /\ Cardinality({x \in S : P(x, c)}) = c - a
  <2> TAKE c \in Nat
  <2> HAVE a <= c /\ c <= Cardinality(S)
  <2> QED
    BY PlacesCounted
<1>4. CASE a + b <= Cardinality(S)
  <2>1. a + b \in Nat /\ a <= a + b
    OBVIOUS
  <2>2. IsFiniteSet(R) /\ Cardinality(R) = a + b - a
    BY <1>3, <1>4, <2>1
  <2>3. Cardinality(R) = b
    BY <2>2
  <2>4. ASSUME NEW x \in S \ R, a <= Before(S, x)
        PROVE  a + b <= Before(S, x) /\ \A y \in R : y < x
    <3>1. Before(S, x) \in Nat /\ a + b <= Before(S, x)
      BY <1>2, <2>1, <2>4
    <3>2. ASSUME NEW y \in R PROVE y < x
      <4>1. y \in S /\ Before(S, y) < Before(S, x)
        BY <1>2, <3>1
      <4> QED
        BY <4>1, BeforeReflectsOrder
    <3> QED
      BY <3>1, <3>2
  <2> HIDE DEF R
  <2> SUFFICES /\ IsFiniteSet(R) /\ Cardinality(R) <= b /\ a + Cardinality(R) <= Cardinality(S)
               /\ \A x \in S \ R : a <= Before(S, x) =>
                     /\ Cardinality(R) = b /\ a + Cardinality(R) <= Before(S, x)
                     /\ \A y \in R : y < x
    BY DEF R
  <2> QED
    BY <1>4, <2>2, <2>3, <2>4
<1>5. CASE Cardinality(S) < a + b
  <2>1. IsFiniteSet({x \in S : P(x, Cardinality(S))})
        /\ Cardinality({x \in S : P(x, Cardinality(S))}) = Cardinality(S) - a
    BY <1>1, <1>3
  <2>2. \A x \in S : P(x, Cardinality(S)) <=> P(x, a + b)
    BY <1>1, <1>2, <1>5
  <2>3. {x \in S : P(x, Cardinality(S))} = R
    BY <2>2
  <2>4. \A x \in S : a <= Before(S, x) => x \in R
    BY <1>1, <1>2, <1>5
  <2> HIDE DEF R
  <2>5. IsFiniteSet(R) /\ Cardinality(R) = Cardinality(S) - a
    BY <2>1, <2>3
  <2>6. Cardinality(R) <= b /\ a + Cardinality(R) <= Cardinality(S)
    BY <1>1, <1>5, <2>5
  <2> SUFFICES /\ IsFiniteSet(R) /\ Cardinality(R) <= b /\ a + Cardinality(R) <= Cardinality(S)
               /\ \A x \in S \ R : a <= Before(S, x) =>
                     /\ Cardinality(R) = b /\ a + Cardinality(R) <= Before(S, x)
                     /\ \A y \in R : y < x
    BY DEF R
  <2> QED
    BY <2>4, <2>5, <2>6
<1> QED
  BY <1>1, <1>4, <1>5

\* The names of a batch in the loop of a search.
LEMMA BatchNamesCounted ==
  ASSUME NEW ts \in SUBSET Types, NEW s, NEW lp \in Loops, BatchesOK(ts, s, lp)
  PROVE  LET all == Matching(ts, s)
             names == BatchNames(ts, s, lp)
         IN  /\ names \subseteq all /\ IsFiniteSet(names) /\ Cardinality(names) \in Nat
             /\ Cardinality(names) <= BatchSize
             /\ lp.offset + Cardinality(names) <= Cardinality(all)
             /\ \A x \in Matching(lp.from, s) \ (lp.seen \union names) :
                   /\ x \in all /\ Cardinality(names) = BatchSize
                   /\ lp.offset + Cardinality(names) <= Before(all, x)
                   /\ \A y \in lp.seen \union names : y < x
<1> DEFINE all == Matching(ts, s)
           names == BatchNames(ts, s, lp)
<1>1. all \in SUBSET Nat /\ IsFiniteSet(all)
  BY NamesAreFinite
<1>2. lp.offset \in Nat /\ lp.offset <= Cardinality(all) /\ BatchSize \in Nat
  BY OptionsAssumption DEF Loops, BatchesOK, BatchSize
<1>3. names = {x \in all : lp.offset <= Before(all, x) /\ Before(all, x) < lp.offset + BatchSize}
  BY DEF BatchNames
<1>4. \A x \in Matching(lp.from, s) \ lp.seen :
         x \in all /\ lp.offset <= Before(all, x) /\ \A y \in lp.seen : y < x
  BY DEF BatchesOK, Matching
<1> HIDE DEF all, names
<1>5. /\ IsFiniteSet(names) /\ Cardinality(names) <= BatchSize
      /\ lp.offset + Cardinality(names) <= Cardinality(all)
      /\ \A x \in all \ names : lp.offset <= Before(all, x) =>
            /\ Cardinality(names) = BatchSize
            /\ lp.offset + Cardinality(names) <= Before(all, x)
            /\ \A y \in names : y < x
  <2>1. names \in SUBSET all
    BY <1>3
  <2>2. \A x \in all : x \in names <=>
          (lp.offset <= Before(all, x) /\ Before(all, x) < lp.offset + BatchSize)
    BY <1>3
  <2>3. lp.offset \in Nat /\ lp.offset <= Cardinality(all) /\ BatchSize \in Nat
    BY <1>2
  <2> QED
    BY ONLY <1>1, <2>1, <2>2, <2>3, BatchCounted
<1>6. names \subseteq all /\ Cardinality(names) \in Nat
  BY <1>3, <1>5, FS_CardinalityType
<1>7. \A x \in Matching(lp.from, s) \ (lp.seen \union names) :
         /\ x \in all /\ Cardinality(names) = BatchSize
         /\ lp.offset + Cardinality(names) <= Before(all, x)
         /\ \A y \in lp.seen \union names : y < x
  BY <1>4, <1>5
<1> QED
  BY <1>5, <1>6, <1>7 DEF all, names

\* What is found until a limit n, SuggestionLimit or one more.
LEMMA BatchFinds ==
  ASSUME NEW ts \in SUBSET Types, NEW s, NEW lp \in Loops, BatchesOK(ts, s, lp),
         NEW n \in Nat, SuggestionLimit <= n
  PROVE  LET X == BatchFound(ts, s, lp, n)
             G == BatchGood(ts, s, lp)
         IN  /\ X \subseteq (lp.seen \union BatchNames(ts, s, lp)) \intersect Supported
             /\ lp.found \subseteq X
             /\ IsFiniteSet(G) /\ Cardinality(G) \in Nat /\ Cardinality(lp.found) \in Nat
             /\ Cardinality(X) <= n
             /\ n <= Cardinality(lp.found) + Cardinality(G) => Cardinality(X) = n
             /\ Cardinality(lp.found) + Cardinality(G) <= n
                  => X = (lp.seen \union BatchNames(ts, s, lp)) \intersect Supported
<1> DEFINE F == lp.found
           G == BatchGood(ts, s, lp)
           N == BatchNames(ts, s, lp)
<1>1. N \subseteq Matching(ts, s) /\ IsFiniteSet(N)
  BY BatchNamesCounted
<1>2. /\ Matching(ts, s) \in SUBSET Nat /\ IsFiniteSet(Matching(ts, s))
  BY NamesAreFinite
<1>3. F = lp.seen \intersect Supported /\ lp.seen \subseteq Matching(ts, s) /\ Short(F)
  BY DEF BatchesOK
<1>4. G = (N \ lp.seen) \intersect Supported
  BY DEF BatchGood
<1>5. F \in SUBSET Nat /\ G \in SUBSET Nat /\ F \intersect G = {}
      /\ IsFiniteSet(F) /\ IsFiniteSet(G)
  <2>1. F \subseteq Matching(ts, s) /\ G \subseteq Matching(ts, s) /\ F \intersect G = {}
    BY <1>1, <1>3, <1>4
  <2> QED
    BY <1>2, <2>1, FS_Subset
<1>6. Cardinality(F) \in Nat /\ Cardinality(G) \in Nat
  BY <1>5, FS_CardinalityType
<1>7. Cardinality(F) <= n
  BY <1>3, <1>6, OptionsAssumption DEF Short
<1> DEFINE X == F \union Leading(G, n - Cardinality(F))
<1>8. X = BatchFound(ts, s, lp, n)
  BY DEF BatchFound
<1> HIDE DEF F, G, N
<1>9. /\ Cardinality(X) <= n
      /\ n <= Cardinality(F) + Cardinality(G) => Cardinality(X) = n
      /\ Cardinality(F) + Cardinality(G) <= n => X = F \union G
  BY <1>5, <1>7, FoundCounted
<1>10. X \subseteq (lp.seen \union N) \intersect Supported /\ F \subseteq X
  <2>1. Leading(G, n - Cardinality(F)) \subseteq G
    BY DEF Leading
  <2> QED
    BY <1>3, <1>4, <2>1
<1>11. F \union G = (lp.seen \union N) \intersect Supported
  BY <1>3, <1>4
<1> HIDE DEF X
<1>12. /\ X \subseteq (lp.seen \union N) \intersect Supported /\ F \subseteq X
       /\ IsFiniteSet(G) /\ Cardinality(G) \in Nat /\ Cardinality(F) \in Nat
       /\ Cardinality(X) <= n
       /\ n <= Cardinality(F) + Cardinality(G) => Cardinality(X) = n
       /\ Cardinality(F) + Cardinality(G) <= n => X = (lp.seen \union N) \intersect Supported
  BY <1>5, <1>6, <1>9, <1>10, <1>11
<1> QED
  BY <1>8, <1>12 DEF F, G, N

\* What the last batch leaves is a list of the first names.
LEMMA LastBatchLists ==
  ASSUME NEW ts \in SUBSET Types, NEW s, NEW lp \in Loops, BatchesOK(ts, s, lp),
         LastBatch(BatchNames(ts, s, lp), BatchFound(ts, s, lp, SuggestionLimit + 1))
  PROVE  LET r == BatchResult(ts, s, lp)
         IN  r \in Lists(Types) /\ Short(r.values) /\ FirstOnes(s, r)
<1> DEFINE F == lp.found
           G == BatchGood(ts, s, lp)
           N == BatchNames(ts, s, lp)
           L == SuggestionLimit
           X == BatchFound(ts, s, lp, L)
           Y == BatchFound(ts, s, lp, L + 1)
           r == BatchResult(ts, s, lp)
           All == (lp.seen \union N) \intersect Supported
<1>1. L \in Nat /\ L + 1 \in Nat /\ L <= L /\ L <= L + 1
  BY OptionsAssumption
<1>2. /\ X \subseteq All /\ F \subseteq X
      /\ IsFiniteSet(G) /\ Cardinality(G) \in Nat /\ Cardinality(F) \in Nat
      /\ Cardinality(X) <= L
      /\ L <= Cardinality(F) + Cardinality(G) => Cardinality(X) = L
      /\ Cardinality(F) + Cardinality(G) <= L => X = All
  BY <1>1, BatchFinds
<1>3. /\ L + 1 <= Cardinality(F) + Cardinality(G) => Cardinality(Y) = L + 1
      /\ Cardinality(F) + Cardinality(G) <= L + 1 => Y = All
      /\ Y \subseteq All /\ Cardinality(Y) <= L + 1
  <2> HIDE DEF F, G, N, Y
  <2> QED
    BY <1>1, BatchFinds DEF F, G, N, Y
<1>4. /\ N \subseteq Matching(ts, s) /\ Cardinality(N) \in Nat
      /\ \A x \in Matching(lp.from, s) \ (lp.seen \union N) :
            /\ Cardinality(N) = BatchSize
            /\ \A y \in lp.seen \union N : y < x
  BY BatchNamesCounted
<1>5. /\ F = lp.seen \intersect Supported /\ lp.seen \subseteq Matching(ts, s) /\ Short(F)
      /\ \A x \in Matching(lp.from, s) \ lp.seen : \A y \in lp.seen : y < x
  BY DEF BatchesOK
<1>6. G = (N \ lp.seen) \intersect Supported /\ X = F \union Leading(G, L - Cardinality(F))
  BY DEF BatchGood, BatchFound
<1>7. Matching(ts, s) \in SUBSET Nat /\ Matching(ts, s) \subseteq Types
  BY NamesAreFinite
<1>8. Cardinality(N) < BatchSize \/ Cardinality(Y) > L
  BY DEF LastBatch
<1>9. r.values = X /\ r.truncated = (Cardinality(Y) > L) /\ r.from = lp.from
  BY DEF BatchResult
<1>10. IsFiniteSet(Y) /\ Cardinality(Y) \in Nat
  <2>1. IsFiniteSet(Matching(ts, s)) /\ Y \subseteq Matching(ts, s)
    <3>1. IsFiniteSet(Matching(ts, s))
      BY NamesAreFinite
    <3> QED
      BY <1>3, <1>4, <1>5, <3>1
  <2> QED
    BY <2>1, FS_Subset, FS_CardinalityType
<1>11. r \in Lists(Types)
  <2> DEFINE cut == Cardinality(Y) > L
  <2>1. cut \in BOOLEAN
    BY <1>1, <1>10
  <2>2. X \in SUBSET Types /\ lp.from \in SUBSET Types
    BY <1>2, <1>4, <1>5, <1>7 DEF Loops
  <2>3. r = [values |-> X, truncated |-> cut, from |-> lp.from]
    BY DEF BatchResult
  <2> HIDE DEF cut, X, r
  <2> QED
    BY <2>1, <2>2, <2>3, ListType
<1>12. Short(X)
  BY <1>2 DEF Short
<1> HIDE DEF F, G, N, X, Y, r
<1>13. ASSUME NEW n \in Matching(lp.from, s) \intersect Supported, n \notin X
       PROVE  Cardinality(Y) > L /\ Cardinality(X) = L /\ \A m \in X : m < n
  <2>1. n \notin lp.seen
    BY <1>2, <1>5, <1>13
  <2>2. CASE n \in N
    <3>1. n \in G /\ n \notin Leading(G, L - Cardinality(F))
      BY <1>6, <1>13, <2>1, <2>2
    <3>2. G \in SUBSET Nat /\ L - Cardinality(F) \in Nat
      BY <1>1, <1>2, <1>4, <1>5, <1>6, <1>7 DEF Short
    <3>3. L - Cardinality(F) < Cardinality(G)
          /\ \A y \in Leading(G, L - Cardinality(F)) : y < n
      BY <1>2, <3>1, <3>2, LeadingIsBefore
    <3>4. Cardinality(X) = L /\ Cardinality(Y) = L + 1
      BY <1>1, <1>2, <1>3, <3>3
    <3>5. \A m \in F : m < n
      BY <1>5, <1>13, <2>1
    <3>6. Cardinality(Y) > L
      BY <1>1, <3>4
    <3> QED
      BY <1>6, <3>3, <3>4, <3>5, <3>6
  <2>3. CASE n \notin N
    <3>1. Cardinality(N) = BatchSize /\ \A y \in lp.seen \union N : y < n
      BY <1>4, <1>13, <2>1, <2>3
    <3>2. Cardinality(Y) > L
      BY <1>4, <1>8, <3>1
    <3>3. ASSUME Cardinality(F) + Cardinality(G) <= L PROVE FALSE
      <4>1. X = All /\ Y = All
        BY <1>1, <1>2, <1>3, <3>3
      <4> QED
        BY <1>1, <1>2, <1>10, <3>2, <4>1
    <3>4. Cardinality(X) = L
      BY <1>1, <1>2, <3>3
    <3> QED
      BY <1>2, <3>1, <3>2, <3>4
  <2> QED
    BY <2>2, <2>3
<1>14. FirstOnes(s, r)
  BY <1>9, <1>13 DEF FirstOnes
<1>15. r \in Lists(Types) /\ Short(r.values) /\ FirstOnes(s, r)
  BY <1>9, <1>11, <1>12, <1>14
<1> QED
  BY <1>15 DEF r

\* After another batch the rest is still to come.
LEMMA NextBatchContinues ==
  ASSUME NEW ts \in SUBSET Types, NEW s, NEW lp \in Loops, BatchesOK(ts, s, lp),
         ~LastBatch(BatchNames(ts, s, lp), BatchFound(ts, s, lp, SuggestionLimit + 1))
  PROVE  LET after == BatchAfter(ts, s, lp) IN after \in Loops /\ BatchesOK(ts, s, after)
<1> DEFINE F == lp.found
           G == BatchGood(ts, s, lp)
           N == BatchNames(ts, s, lp)
           L == SuggestionLimit
           Y == BatchFound(ts, s, lp, L + 1)
           all == Matching(ts, s)
           after == BatchAfter(ts, s, lp)
           All == (lp.seen \union N) \intersect Supported
<1>1. L \in Nat /\ L + 1 \in Nat /\ L <= L + 1
  BY OptionsAssumption
<1>3. /\ Cardinality(G) \in Nat /\ Cardinality(F) \in Nat
      /\ L + 1 <= Cardinality(F) + Cardinality(G) => Cardinality(Y) = L + 1
      /\ Cardinality(F) + Cardinality(G) <= L + 1 => Y = All
      /\ Y \subseteq All
  <2> HIDE DEF F, G, N, Y
  <2> QED
    BY <1>1, BatchFinds DEF F, G, N, Y
<1>4. /\ N \subseteq all /\ Cardinality(N) \in Nat
      /\ lp.offset + Cardinality(N) <= Cardinality(all)
      /\ \A x \in Matching(lp.from, s) \ (lp.seen \union N) :
            /\ lp.offset + Cardinality(N) <= Before(all, x)
            /\ \A y \in lp.seen \union N : y < x
  BY BatchNamesCounted
<1>5. lp.from \subseteq ts /\ lp.seen \subseteq all /\ lp.offset \in Nat
  BY DEF BatchesOK, Loops
<1>6. all \subseteq Types /\ IsFiniteSet(all)
  BY NamesAreFinite
<1>7. /\ after.offset = lp.offset + Cardinality(N) /\ after.found = Y
      /\ after.seen = lp.seen \union N /\ after.from = lp.from
  BY DEF BatchAfter
<1>8. after \in Loops
  <2>1. Y \in SUBSET Types /\ lp.seen \union N \in SUBSET Types /\ lp.from \in SUBSET Types
    BY <1>3, <1>4, <1>5, <1>6 DEF Loops
  <2>2. lp.offset + Cardinality(N) \in Nat
    BY <1>4, <1>5
  <2>3. after = [offset |-> lp.offset + Cardinality(N), found |-> Y,
                 seen |-> lp.seen \union N, from |-> lp.from]
    BY DEF BatchAfter
  <2> HIDE DEF N, Y, after
  <2> QED
    BY <2>1, <2>2, <2>3 DEF Loops
<1>9. Cardinality(Y) \in Nat
  <2>1. Y \subseteq all
    BY <1>3, <1>4, <1>5
  <2> QED
    BY <1>6, <2>1, FS_Subset, FS_CardinalityType
<1>10. Cardinality(Y) <= L
  BY <1>1, <1>9 DEF LastBatch
<1> HIDE DEF F, G, N, Y, all, after
<1>11. Y = All
  BY <1>1, <1>3, <1>9, <1>10
<1>12. /\ after.from \subseteq ts /\ after.seen \subseteq all
       /\ after.found = after.seen \intersect Supported /\ Short(after.found)
       /\ after.offset <= Cardinality(all)
       /\ \A n \in Matching(after.from, s) \ after.seen :
             after.offset <= Before(all, n) /\ \A m \in after.seen : m < n
  BY <1>4, <1>5, <1>7, <1>10, <1>11 DEF Short
<1>13. BatchesOK(ts, s, after)
  BY <1>12 DEF BatchesOK, all
<1> QED
  BY <1>8, <1>13 DEF after

\* The first batch, and a name that is registered between two batches.
LEMMA FirstBatchBegins ==
  ASSUME NEW ts \in SUBSET Types, NEW s
  PROVE  LET lp == [NoLoop EXCEPT !.from = ts] IN lp \in Loops /\ BatchesOK(ts, s, lp)
<1> DEFINE lp == [NoLoop EXCEPT !.from = ts]
           all == Matching(ts, s)
<1>1. lp.offset = 0 /\ lp.found = {} /\ lp.seen = {} /\ lp.from = ts
  BY DEF NoLoop
<1>2. all \in SUBSET Nat /\ IsFiniteSet(all) /\ Cardinality(all) \in Nat
  BY NamesAreFinite, FS_CardinalityType
<1>3. \A n : Before(all, n) \in Nat
  <2> HIDE DEF all
  <2> QED
    BY <1>2, BeforeBounds
<1>4. Cardinality({}) = 0 /\ SuggestionLimit \in Nat
  BY FS_EmptySet, OptionsAssumption
<1>5. Short({})
  BY <1>4 DEF Short
<1>6. lp \in Loops
  BY DEF NoLoop, Loops
<1> HIDE DEF lp
<1>7. /\ 0 <= Cardinality(all) /\ \A n : 0 <= Before(all, n)
  BY <1>2, <1>3
<1>8. BatchesOK(ts, s, lp)
  BY <1>1, <1>5, <1>7 DEF BatchesOK
<1> QED
  BY <1>6, <1>8 DEF lp

LEMMA BatchesGoOn ==
  ASSUME NEW us \in SUBSET Types, NEW ts \in SUBSET us, NEW s, NEW lp \in Loops,
         BatchesOK(ts, s, lp)
  PROVE  BatchesOK(us, s, lp)
<1> DEFINE old == Matching(ts, s)
           new == Matching(us, s)
<1>1. old \subseteq new
  BY DEF Matching
<1>2. new \in SUBSET Nat /\ IsFiniteSet(new) /\ Cardinality(new) \in Nat
  BY NamesAreFinite, FS_CardinalityType
<1>3. /\ lp.from \subseteq ts /\ lp.seen \subseteq old /\ lp.offset \in Nat
      /\ lp.found = lp.seen \intersect Supported /\ Short(lp.found)
      /\ lp.offset <= Cardinality(old)
      /\ \A n \in Matching(lp.from, s) \ lp.seen :
            lp.offset <= Before(old, n) /\ \A m \in lp.seen : m < n
  BY DEF BatchesOK, Loops
<1> HIDE DEF old, new
<1>4. Cardinality(old) \in Nat /\ Cardinality(old) <= Cardinality(new) /\ IsFiniteSet(old)
  BY <1>1, <1>2, FS_Subset, FS_CardinalityType
<1>5. \A n : /\ Before(old, n) \in Nat /\ Before(new, n) \in Nat
             /\ Before(old, n) <= Before(new, n)
  <2> TAKE n
  <2> QED
    BY <1>1, <1>2, <1>4, BeforeBounds, BeforeGrows
<1>6. /\ lp.from \subseteq us /\ lp.seen \subseteq new
      /\ lp.offset <= Cardinality(new)
      /\ \A n \in Matching(lp.from, s) \ lp.seen : lp.offset <= Before(new, n)
  <2>1. lp.from \subseteq us /\ lp.seen \subseteq new
    BY <1>1, <1>3
  <2>2. lp.offset <= Cardinality(new)
    BY <1>2, <1>3, <1>4
  <2>3. ASSUME NEW n \in Matching(lp.from, s) \ lp.seen PROVE lp.offset <= Before(new, n)
    <3>1. lp.offset <= Before(old, n) /\ lp.offset \in Nat
      BY <1>3
    <3> QED
      BY <1>5, <3>1
  <2> QED
    BY <2>1, <2>2, <2>3
<1> QED
  BY <1>3, <1>6 DEF BatchesOK, new

\* A step of a thread, which leaves the registry and the other threads alone.
LEMMA OthersWait ==
  ASSUME OptionsIInv, NEW t \in Threads, UNCHANGED registered,
         selection' \in [Threads -> Selections],
         doing' \in [Threads -> Doings], loop' \in [Threads -> Loops],
         caches' \in [Threads -> CacheSets], options' \in [Threads -> Forms],
         \A u \in Threads \ {t} : /\ selection'[u] = selection[u]
                                  /\ doing'[u] = doing[u] /\ loop'[u] = loop[u]
                                  /\ caches'[u] = caches[u] /\ options'[u] = options[u],
         ThreadOK(collections, types, doing'[t], selection'[t], loop'[t], caches'[t], options'[t])
  PROVE  OptionsIInv'
<1>1. collections' = collections /\ types' = types
  BY DEF registered
<1>2. OptionsTypes'
  BY <1>1 DEF OptionsIInv, OptionsTypes
<1>3. ASSUME NEW u \in Threads
      PROVE  ThreadOK(collections', types', doing'[u], selection'[u], loop'[u], caches'[u],
                      options'[u])
  <2>1. u # t => ThreadOK(collections, types, doing'[u], selection'[u], loop'[u], caches'[u],
                          options'[u])
    BY DEF OptionsIInv
  <2> QED
    BY <1>1, <2>1
<1> QED
  BY <1>2, <1>3 DEF OptionsIInv

\* What is registered takes nothing from a thread.
LEMMA RegistryGrows ==
  ASSUME OptionsIInv, UNCHANGED work, collections' \subseteq Collections, types' \subseteq Types,
         collections \subseteq collections', types \subseteq types'
  PROVE  OptionsIInv'
<1>1. /\ doing' = doing /\ selection' = selection /\ loop' = loop /\ caches' = caches
      /\ options' = options
  BY DEF work
<1>2. OptionsTypes'
  BY <1>1 DEF OptionsIInv, OptionsTypes
<1>3. ASSUME NEW u \in Threads
      PROVE  ThreadOK(collections', types', doing[u], selection[u], loop[u], caches[u], options[u])
  <2>1. ThreadOK(collections, types, doing[u], selection[u], loop[u], caches[u], options[u])
    BY DEF OptionsIInv
  <2>2. SelectionOK(collections', doing[u], selection[u])
    BY <2>1 DEF ThreadOK, SelectionOK
  <2>3. CachesOK(collections', types', caches[u])
    BY <2>1 DEF ThreadOK, CachesOK
  <2>4. FormOK(collections', types', doing[u], options[u])
    BY <2>1 DEF ThreadOK, FormOK
  <2>5. LoopOK(types', doing[u], selection[u], loop[u])
    <3>1. loop[u] \in Loops
      BY DEF OptionsIInv, OptionsTypes
    <3>2. BatchesOK(types, selection[u][2], loop[u]) => BatchesOK(types', selection[u][2], loop[u])
      BY <3>1, BatchesGoOn
    <3> QED
      BY <2>1, <3>2 DEF ThreadOK, LoopOK
  <2> QED
    BY <2>1, <2>2, <2>3, <2>4, <2>5 DEF ThreadOK
<1> QED
  BY <1>1, <1>2, <1>3 DEF OptionsIInv

LEMMA ShortOnes ==
  Short({}) /\ \A x : Short({x})
<1>1. Cardinality({}) = 0 /\ \A x : Cardinality({x}) = 1
  BY FS_EmptySet, FS_Singleton
<1> QED
  BY <1>1, OptionsAssumption DEF Short

LEMMA OptionsBegin == OptionsInit => OptionsIInv
<1> SUFFICES ASSUME OptionsInit PROVE OptionsIInv
  OBVIOUS
<1> USE DEF OptionsInit
<1>1. NoLoop \in Loops /\ NoOptions \in Forms
  BY DEF NoLoop, Loops, NoOptions, Forms
<1>2. Nothing \in CacheSets
  BY DEF Nothing, CacheSets
<1>3. OptionsTypes
  BY <1>1, <1>2, OptionsAssumption DEF OptionsTypes, Doings, Selections
<1>4. ASSUME NEW t \in Threads
      PROVE  ThreadOK(collections, types, doing[t], selection[t], loop[t], caches[t], options[t])
  <2>1. /\ doing[t] = "idle" /\ loop[t] = NoLoop /\ caches[t] = Nothing
        /\ options[t] = NoOptions
    OBVIOUS
  <2>2. SelectionOK(collections, doing[t], selection[t])
    BY <2>1 DEF SelectionOK
  <2>3. CachesOK(collections, types, Nothing)
    BY OptionsAssumption DEF CachesOK, Nothing
  <2>4. ListsOK(Nothing)
    BY DEF ListsOK, Nothing
  <2>5. FormOK(collections, types, doing[t], NoOptions)
    BY ShortOnes DEF FormOK, NoOptions
  <2>6. LoopOK(types, doing[t], selection[t], NoLoop)
    BY <2>1 DEF LoopOK
  <2> QED
    BY <2>1, <2>2, <2>3, <2>4, <2>5, <2>6 DEF ThreadOK
<1> QED
  BY <1>3, <1>4 DEF OptionsIInv

LEMMA ThreadFacts ==
  ASSUME OptionsIInv, NEW t \in Threads
  PROVE  /\ ThreadOK(collections, types, doing[t], selection[t], loop[t], caches[t], options[t])
         /\ doing[t] \in Doings /\ selection[t] \in Selections /\ loop[t] \in Loops
         /\ caches[t] \in CacheSets /\ options[t] \in Forms
         /\ FirstCollections \subseteq collections /\ collections \subseteq Collections
         /\ types \subseteq Types
BY DEF OptionsIInv, OptionsTypes

\* A step that leaves the loop and the answer.
LEMMA LooksItUp ==
  ASSUME OptionsIInv, NEW t \in Threads, doing[t] \notin {"idle", "batches"},
         NEW d \in Doings \ {"batches"}, SelectionOK(collections, d, selection[t]),
         NEW ca \in CacheSets, CachesOK(collections, types, ca), ListsOK(ca),
         doing' = [doing EXCEPT ![t] = d], caches' = [caches EXCEPT ![t] = ca],
         UNCHANGED <<registered, selection, loop, options>>
  PROVE  OptionsIInv'
<1>1. /\ ThreadOK(collections, types, doing[t], selection[t], loop[t], caches[t], options[t])
      /\ OptionsTypes
  BY ThreadFacts DEF OptionsIInv
<1>2. /\ doing' \in [Threads -> Doings] /\ caches' \in [Threads -> CacheSets]
      /\ doing'[t] = d /\ caches'[t] = ca
      /\ \A u \in Threads \ {t} : doing'[u] = doing[u] /\ caches'[u] = caches[u]
  BY <1>1 DEF OptionsTypes
<1>3. FormOK(collections, types, d, options[t])
  BY <1>1 DEF ThreadOK, FormOK
<1>4. LoopOK(types, d, selection[t], loop[t])
  BY <1>1 DEF ThreadOK, LoopOK
<1>5. ThreadOK(collections, types, d, selection[t], loop[t], ca, options[t])
  BY <1>3, <1>4 DEF ThreadOK
<1>6. /\ selection' \in [Threads -> Selections] /\ loop' \in [Threads -> Loops]
      /\ options' \in [Threads -> Forms] /\ UNCHANGED registered
  BY <1>1 DEF OptionsTypes
<1> QED
  BY <1>2, <1>5, <1>6, OthersWait

\* A step that leaves the loop and the caches as they are, and answers.
LEMMA AnswersIt ==
  ASSUME OptionsIInv, NEW t \in Threads, doing[t] \notin {"idle", "batches"},
         NEW d \in Doings \ {"batches"}, SelectionOK(collections, d, selection[t]),
         NEW ca \in CacheSets, CachesOK(collections, types, ca), ListsOK(ca),
         NEW op \in Forms, FormOK(collections, types, d, op),
         doing' = [doing EXCEPT ![t] = d], caches' = [caches EXCEPT ![t] = ca],
         options' = [options EXCEPT ![t] = op],
         UNCHANGED <<registered, selection, loop>>
  PROVE  OptionsIInv'
<1>1. /\ ThreadOK(collections, types, doing[t], selection[t], loop[t], caches[t], options[t])
      /\ OptionsTypes
  BY ThreadFacts DEF OptionsIInv
<1>2. /\ doing' \in [Threads -> Doings] /\ caches' \in [Threads -> CacheSets]
      /\ options' \in [Threads -> Forms]
      /\ doing'[t] = d /\ caches'[t] = ca /\ options'[t] = op
      /\ \A u \in Threads \ {t} :
            doing'[u] = doing[u] /\ caches'[u] = caches[u] /\ options'[u] = options[u]
  BY <1>1 DEF OptionsTypes
<1>4. LoopOK(types, d, selection[t], loop[t])
  BY <1>1 DEF ThreadOK, LoopOK
<1>5. ThreadOK(collections, types, d, selection[t], loop[t], ca, op)
  BY <1>4 DEF ThreadOK
<1>6. /\ selection' \in [Threads -> Selections] /\ loop' \in [Threads -> Loops]
      /\ UNCHANGED registered
  BY <1>1 DEF OptionsTypes
<1> QED
  BY <1>2, <1>5, <1>6, OthersWait

LEMMA AskKeeps ==
  ASSUME OptionsIInv, NEW t \in Threads, NEW c \in Collections \union {NoName},
         NEW n \in Types \union {NoName}, AskOptions(t, c, n)
  PROVE  OptionsIInv'
<1> DEFINE d == IF c # NoName /\ n # NoName THEN "collection" ELSE "collections"
<1>1. /\ ThreadOK(collections, types, doing[t], selection[t], loop[t], caches[t], options[t])
      /\ OptionsTypes
  BY ThreadFacts DEF OptionsIInv
<1>2. /\ doing[t] = "idle" /\ doing' = [doing EXCEPT ![t] = d]
      /\ selection' = [selection EXCEPT ![t] = <<c, n>>]
      /\ options' = [options EXCEPT ![t] = NoOptions]
      /\ UNCHANGED <<registered, loop, caches>>
  BY DEF AskOptions, GoTo
<1>3. d \in Doings /\ d \notin {"type", "batches"} /\ <<c, n>> \in Selections
      /\ NoOptions \in Forms
  BY DEF Doings, Selections, NoOptions, Forms
<1>4. SelectionOK(collections, d, <<c, n>>)
  BY DEF SelectionOK
<1>5. FormOK(collections, types, d, NoOptions)
  BY ShortOnes DEF FormOK, NoOptions
<1> HIDE DEF d
<1>6. LoopOK(types, d, <<c, n>>, loop[t])
  BY <1>1, <1>2, <1>3 DEF ThreadOK, LoopOK
<1>7. ThreadOK(collections, types, d, <<c, n>>, loop[t], caches[t], NoOptions)
  BY <1>1, <1>4, <1>5, <1>6 DEF ThreadOK
<1>8. /\ doing' \in [Threads -> Doings] /\ selection' \in [Threads -> Selections]
      /\ options' \in [Threads -> Forms]
      /\ loop' \in [Threads -> Loops] /\ caches' \in [Threads -> CacheSets]
      /\ doing'[t] = d /\ selection'[t] = <<c, n>> /\ options'[t] = NoOptions
      /\ loop'[t] = loop[t] /\ caches'[t] = caches[t]
      /\ \A u \in Threads \ {t} : /\ selection'[u] = selection[u]
                                  /\ doing'[u] = doing[u] /\ loop'[u] = loop[u]
                                  /\ caches'[u] = caches[u] /\ options'[u] = options[u]
  BY <1>1, <1>2, <1>3 DEF OptionsTypes
<1> QED
  BY <1>2, <1>7, <1>8, OthersWait

LEMMA LearntCollection ==
  ASSUME NEW cs, NEW ts, FirstCollections \subseteq cs, NEW ca \in CacheSets,
         CachesOK(cs, ts, ca), ListsOK(ca), NEW c \in Collections
  PROVE  LET new == [ca EXCEPT !.collection = [ca.collection EXCEPT ![c] = YesNo(c \in cs)]]
         IN  new \in CacheSets /\ CachesOK(cs, ts, new) /\ ListsOK(new)
<1> DEFINE v == YesNo(c \in cs)
           f == [ca.collection EXCEPT ![c] = v]
           new == [ca EXCEPT !.collection = f]
<1>1. v \in {"yes", "no"} /\ (v = "yes" <=> c \in cs)
  BY DEF YesNo
<1> HIDE DEF v
<1>2. f \in [Collections -> {"?", "yes", "no"}] /\ f[c] = v
      /\ \A b \in Collections \ {c} : f[b] = ca.collection[b]
  BY <1>1 DEF CacheSets
<1> HIDE DEF f
<1>3. new \in CacheSets
  BY <1>2 DEF CacheSets
<1>4. /\ new.collection = f /\ new.type = ca.type /\ new.supports = ca.supports
      /\ new.collections = ca.collections /\ new.types = ca.types
  BY DEF CacheSets
<1> HIDE DEF new
<1>5. CachesOK(cs, ts, new)
  BY <1>1, <1>2, <1>4, OptionsAssumption DEF CachesOK
<1>6. ListsOK(new)
  BY <1>4 DEF ListsOK
<1>7. new \in CacheSets /\ CachesOK(cs, ts, new) /\ ListsOK(new)
  BY <1>3, <1>5, <1>6
<1> QED
  BY <1>7 DEF new, f, v

LEMMA CollectionExistsKeeps ==
  ASSUME OptionsIInv, NEW t \in Threads, CollectionExists(t)
  PROVE  OptionsIInv'
<1> DEFINE c == selection[t][1]
           To(yes) == IF doing[t] = "again" THEN "types"
                      ELSE IF yes THEN "type" ELSE "collections"
           new == [caches[t] EXCEPT !.collection =
                      [caches[t].collection EXCEPT ![c] = YesNo(c \in collections)]]
<1>1. /\ ThreadOK(collections, types, doing[t], selection[t], loop[t], caches[t], options[t])
      /\ selection[t] \in Selections /\ caches[t] \in CacheSets
      /\ FirstCollections \subseteq collections /\ OptionsTypes
  BY ThreadFacts DEF OptionsIInv
<1>2. /\ doing[t] \in {"collection", "again"} /\ c \in Collections
      /\ UNCHANGED <<registered, selection, loop, options>>
  BY <1>1 DEF CollectionExists, Selections
<1>3. CachesOK(collections, types, caches[t]) /\ ListsOK(caches[t])
      /\ SelectionOK(collections, doing[t], selection[t])
  BY <1>1 DEF ThreadOK
<1>4. caches = [caches EXCEPT ![t] = caches[t]]
  BY <1>1 DEF OptionsTypes
<1>5. \/ /\ caches[t].collection[c] # "?" /\ UNCHANGED caches
         /\ doing' = [doing EXCEPT ![t] = To(caches[t].collection[c] = "yes")]
      \/ /\ caches' = [caches EXCEPT ![t] = new]
         /\ doing' = [doing EXCEPT ![t] = To(c \in collections)]
      \/ UNCHANGED caches /\ doing' = [doing EXCEPT ![t] = To(FALSE)]
  BY <1>1 DEF CollectionExists, GoTo, Learn, Fallback, OptionsTypes
<1>6. \A yes \in BOOLEAN : (yes => c \in collections) =>
        To(yes) \in Doings \ {"batches"} /\ SelectionOK(collections, To(yes), selection[t])
  BY <1>2, <1>3 DEF Doings, SelectionOK
<1>7. new \in CacheSets /\ CachesOK(collections, types, new) /\ ListsOK(new)
  BY <1>1, <1>2, <1>3, LearntCollection
<1>8. caches[t].collection[c] = "yes" => c \in collections
  BY <1>2, <1>3 DEF CachesOK
<1> HIDE DEF new, To
<1>9. CASE /\ caches[t].collection[c] # "?" /\ UNCHANGED caches
           /\ doing' = [doing EXCEPT ![t] = To(caches[t].collection[c] = "yes")]
  <2> DEFINE yes == caches[t].collection[c] = "yes"
  <2>1. yes \in BOOLEAN /\ (yes => c \in collections)
    BY <1>8
  <2> HIDE DEF yes
  <2>2. To(yes) \in Doings \ {"batches"} /\ SelectionOK(collections, To(yes), selection[t])
    BY <1>6, <2>1
  <2> QED
    BY <1>1, <1>2, <1>3, <1>4, <1>9, <2>2, LooksItUp DEF yes
<1>10. CASE /\ caches' = [caches EXCEPT ![t] = new]
            /\ doing' = [doing EXCEPT ![t] = To(c \in collections)]
  <2> DEFINE yes == c \in collections
  <2>1. yes \in BOOLEAN /\ (yes => c \in collections)
    OBVIOUS
  <2> HIDE DEF yes
  <2>2. To(yes) \in Doings \ {"batches"} /\ SelectionOK(collections, To(yes), selection[t])
    BY <1>6, <2>1
  <2> QED
    BY <1>2, <1>7, <1>10, <2>2, LooksItUp DEF yes
<1>11. CASE UNCHANGED caches /\ doing' = [doing EXCEPT ![t] = To(FALSE)]
  <2>1. To(FALSE) \in Doings \ {"batches"} /\ SelectionOK(collections, To(FALSE), selection[t])
    BY <1>6
  <2> QED
    BY <1>1, <1>2, <1>3, <1>4, <1>11, <2>1, LooksItUp
<1> QED
  BY <1>5, <1>9, <1>10, <1>11

LEMMA NoCollectionKeeps ==
  ASSUME OptionsIInv, NEW t \in Threads, NoCollection(t)
  PROVE  OptionsIInv'
<1>1. /\ ThreadOK(collections, types, doing[t], selection[t], loop[t], caches[t], options[t])
      /\ caches[t] \in CacheSets /\ OptionsTypes
  BY ThreadFacts DEF OptionsIInv
<1>2. /\ doing[t] = "again" /\ doing' = [doing EXCEPT ![t] = "types"]
      /\ UNCHANGED <<registered, selection, loop, caches, options>>
  BY DEF NoCollection, GoTo
<1>3. CachesOK(collections, types, caches[t]) /\ ListsOK(caches[t])
  BY <1>1 DEF ThreadOK
<1>4. caches' = [caches EXCEPT ![t] = caches[t]]
  BY <1>1, <1>2 DEF OptionsTypes
<1>5. "types" \in Doings \ {"batches"} /\ SelectionOK(collections, "types", selection[t])
  BY DEF Doings, SelectionOK
<1> QED
  BY <1>1, <1>2, <1>3, <1>4, <1>5, LooksItUp

\* The caches of a thread with other answers about a dataset type.
Learns(ca, n, v, w) == [ca EXCEPT !.type[n] = v, !.supports[n] = w]

\* What the caches hold after a type was looked up.
LEMMA LearntType ==
  ASSUME NEW cs, NEW ts, NEW ca \in CacheSets, CachesOK(cs, ts, ca), ListsOK(ca),
         NEW n \in Types, NEW v \in {"?", "yes", "no"}, NEW w \in {"?", "yes", "no"},
         v = "yes" => n \in ts \intersect Supported, w = "yes" => n \in Supported
  PROVE  /\ Learns(ca, n, v, w) \in CacheSets
         /\ CachesOK(cs, ts, Learns(ca, n, v, w)) /\ ListsOK(Learns(ca, n, v, w))
<1> DEFINE f == [ca.type EXCEPT ![n] = v]
           g == [ca.supports EXCEPT ![n] = w]
           new == [ca EXCEPT !.type[n] = v, !.supports[n] = w]
<1>1. /\ f \in [Types -> {"?", "yes", "no"}] /\ g \in [Types -> {"?", "yes", "no"}]
      /\ f[n] = v /\ g[n] = w
      /\ \A m \in Types \ {n} : f[m] = ca.type[m] /\ g[m] = ca.supports[m]
  BY DEF CacheSets
<1>2. /\ new.collection = ca.collection /\ new.type = f /\ new.supports = g
      /\ new.collections = ca.collections /\ new.types = ca.types
  BY DEF CacheSets
<1>3. new \in CacheSets
  <2>1. new = [ca EXCEPT !.type = f, !.supports = g]
    BY DEF CacheSets
  <2> HIDE DEF f, g, new
  <2> QED
    BY <1>1, <2>1 DEF CacheSets
<1> HIDE DEF f, g, new
<1>4. CachesOK(cs, ts, new)
  BY <1>1, <1>2 DEF CachesOK
<1>5. ListsOK(new)
  BY <1>2 DEF ListsOK
<1>6. new \in CacheSets /\ CachesOK(cs, ts, new) /\ ListsOK(new)
  BY <1>3, <1>4, <1>5
<1> QED
  BY <1>6 DEF new, Learns

LEMMA TypeExistsKeeps ==
  ASSUME OptionsIInv, NEW t \in Threads, TypeExists(t)
  PROVE  OptionsIInv'
<1> DEFINE n == selection[t][2]
<1>1. /\ ThreadOK(collections, types, doing[t], selection[t], loop[t], caches[t], options[t])
      /\ selection[t] \in Selections /\ caches[t] \in CacheSets
      /\ options[t] \in Forms /\ OptionsTypes
      /\ collections \subseteq Collections
  BY ThreadFacts DEF OptionsIInv
<1>2. doing[t] = "type" /\ UNCHANGED <<registered, selection, loop>>
  BY DEF TypeExists
<1>3. /\ CachesOK(collections, types, caches[t]) /\ ListsOK(caches[t])
      /\ SelectionOK(collections, doing[t], selection[t])
      /\ FormOK(collections, types, doing[t], options[t])
  BY <1>1 DEF ThreadOK
<1>4. n \in Types /\ selection[t][1] \in collections
  BY <1>1, <1>2, <1>3 DEF SelectionOK, Selections
<1>. PICK fails \in BOOLEAN : \E after \in TypeAnswers(t, n, fails) :
        /\ caches' = [caches EXCEPT ![t] = after]
        /\ IF after.type[n] = "yes"
             THEN /\ doing' = [doing EXCEPT ![t] = "idle"]
                  /\ options' = [options EXCEPT ![t] = Exact(t, n)]
             ELSE doing' = [doing EXCEPT ![t] = "collections"] /\ UNCHANGED options
  BY DEF TypeExists, GoTo
<1>5. PICK after \in TypeAnswers(t, n, fails) :
        /\ caches' = [caches EXCEPT ![t] = after]
        /\ IF after.type[n] = "yes"
             THEN /\ doing' = [doing EXCEPT ![t] = "idle"]
                  /\ options' = [options EXCEPT ![t] = Exact(t, n)]
             ELSE doing' = [doing EXCEPT ![t] = "collections"] /\ UNCHANGED options
  OBVIOUS
<1>6. after \in CacheSets /\ CachesOK(collections, types, after) /\ ListsOK(after)
  <2> DEFINE Keeps(v, w) == Learns(caches[t], n, v, w)
             there == n \in types /\ n \in Supported
             inner == caches[t].supports[n]
  <2>1. inner \in {"?", "yes", "no"} /\ (inner = "yes" => n \in Supported)
    BY <1>1, <1>3, <1>4 DEF CacheSets, CachesOK
  <2>2. \A b \in BOOLEAN : YesNo(b) \in {"?", "yes", "no"} /\ (YesNo(b) = "yes" <=> b)
    BY DEF YesNo
  <2> HIDE DEF n
  <2>3. \/ after = caches[t]
        \/ after = Keeps(YesNo(there), inner)
        \/ after = Keeps("no", "?")
        \/ after = Keeps(YesNo(there), YesNo(there))
        \/ after = Keeps(YesNo(inner = "yes" /\ n \in types), inner)
    BY DEF TypeAnswers, Learns
  <2> HIDE DEF inner
  <2>4. there \in BOOLEAN /\ (inner = "yes" /\ n \in types) \in BOOLEAN
    OBVIOUS
  <2>5. PICK v \in {"?", "yes", "no"}, w \in {"?", "yes", "no"} :
           /\ after = caches[t] \/ after = Keeps(v, w)
           /\ v = "yes" => n \in types \intersect Supported
           /\ w = "yes" => n \in Supported
    <3> HIDE DEF Keeps
    <3>1. CASE after = caches[t] \/ after = Keeps("no", "?")
      BY <3>1
    <3>2. CASE after = Keeps(YesNo(there), inner)
      BY <2>1, <2>2, <2>4, <3>2
    <3>3. CASE after = Keeps(YesNo(there), YesNo(there))
      BY <2>1, <2>2, <2>4, <3>3
    <3>4. CASE after = Keeps(YesNo(inner = "yes" /\ n \in types), inner)
      BY <2>1, <2>2, <2>4, <3>4
    <3> QED
      BY <2>3, <3>1, <3>2, <3>3, <3>4
  <2>6. LET new == Keeps(v, w)
        IN  new \in CacheSets /\ CachesOK(collections, types, new) /\ ListsOK(new)
    <3>1. caches[t] \in CacheSets
      BY <1>1
    <3>2. CachesOK(collections, types, caches[t]) /\ ListsOK(caches[t]) /\ n \in Types
      BY <1>3, <1>4
    <3>3. /\ v = "yes" => n \in types \intersect Supported
          /\ w = "yes" => n \in Supported
      BY <2>5
    <3> QED
      BY ONLY <3>1, <3>2, <3>3, LearntType
  <2> HIDE DEF Keeps
  <2>7. CASE after = caches[t]
    BY <1>1, <1>3, <2>7
  <2>8. CASE after = Keeps(v, w)
    BY <2>6, <2>8
  <2> QED
    BY <2>5, <2>7, <2>8
<1>7. CASE after.type[n] = "yes"
  <2> DEFINE op == Exact(t, n)
  <2>1. n \in types \intersect Supported
    BY <1>4, <1>6, <1>7 DEF CachesOK
  <2>2. /\ op.exact = TRUE /\ op.collections = {selection[t][1]} /\ op.types = {n}
        /\ op \in Forms
    BY <1>1, <1>4 DEF Exact, NoOptions, Forms
  <2> HIDE DEF op, n
  <2>3. FormOK(collections, types, "idle", op)
    <3>0. Short({selection[t][1]}) /\ Short({n})
      BY ShortOnes
    <3>1. Short(op.collections) /\ Short(op.types)
      BY <2>2, <3>0
    <3>2. op.collections \subseteq collections /\ op.collections # {}
      BY <1>4, <2>2
    <3>3. op.types \subseteq types \intersect Supported /\ op.types # {}
      BY <2>1, <2>2
    <3> QED
      BY <3>1, <3>2, <3>3 DEF FormOK
  <2>4. "idle" \in Doings \ {"batches"} /\ SelectionOK(collections, "idle", selection[t])
    BY DEF Doings, SelectionOK
  <2>5. doing' = [doing EXCEPT ![t] = "idle"] /\ options' = [options EXCEPT ![t] = op]
    BY <1>5, <1>7 DEF op
  <2> QED
    BY <1>2, <1>5, <1>6, <2>2, <2>3, <2>4, <2>5, AnswersIt
<1>8. CASE after.type[n] # "yes"
  <2>1. "collections" \in Doings \ {"batches"}
        /\ SelectionOK(collections, "collections", selection[t])
    BY DEF Doings, SelectionOK
  <2>2. doing' = [doing EXCEPT ![t] = "collections"] /\ UNCHANGED options
    BY <1>5, <1>8
  <2> QED
    BY <1>2, <1>5, <1>6, <2>1, <2>2, LooksItUp
<1> QED
  BY <1>7, <1>8

LEMMA SuggestCollectionsKeeps ==
  ASSUME OptionsIInv, NEW t \in Threads, SuggestCollections(t)
  PROVE  OptionsIInv'
<1> DEFINE c == selection[t][1]
           kept == caches[t].collections[c]
           found == Limited(Matching(collections, c), collections)
           Shown(r) == [options[t] EXCEPT !.collections = r.values]
           new == [caches[t] EXCEPT !.collections[c] = {found}]
<1>1. /\ ThreadOK(collections, types, doing[t], selection[t], loop[t], caches[t], options[t])
      /\ selection[t] \in Selections /\ caches[t] \in CacheSets
      /\ options[t] \in Forms /\ OptionsTypes
      /\ collections \subseteq Collections
  BY ThreadFacts DEF OptionsIInv
<1>2. /\ doing[t] = "collections" /\ doing' = [doing EXCEPT ![t] = "again"]
      /\ UNCHANGED <<registered, selection, loop>>
  BY DEF SuggestCollections, GoTo
<1>3. /\ CachesOK(collections, types, caches[t]) /\ ListsOK(caches[t])
      /\ FormOK(collections, types, doing[t], options[t])
  BY <1>1 DEF ThreadOK
<1>4. c \in Collections \union {NoName}
  BY <1>1 DEF Selections
<1>5. found \in Lists(Collections) /\ Short(found.values)
  BY <1>1, CollectionsAreListed
<1>6. "again" \in Doings \ {"batches"} /\ SelectionOK(collections, "again", selection[t])
  BY DEF Doings, SelectionOK
<1>7. \/ /\ kept # {} /\ options' = [options EXCEPT ![t] = Shown(CHOOSE r \in kept : TRUE)]
         /\ UNCHANGED caches
      \/ /\ options' = [options EXCEPT ![t] = Shown(found)]
         /\ caches' = [caches EXCEPT ![t] = new]
      \/ UNCHANGED <<caches, options>>
  <2> HIDE DEF found
  <2> QED
    BY <1>1 DEF SuggestCollections, Fallback, found, OptionsTypes
<1>8. ASSUME NEW r \in Lists(Collections), Short(r.values)
      PROVE  Shown(r) \in Forms /\ FormOK(collections, types, "again", Shown(r))
  <2>1. r.values \subseteq Collections
    BY <1>8 DEF Lists
  <2>2. /\ Shown(r) \in Forms
        /\ Shown(r).exact = options[t].exact /\ Shown(r).collections = r.values
        /\ Shown(r).types = options[t].types
    BY <1>1, <2>1 DEF Forms
  <2> HIDE DEF Shown
  <2> QED
    BY <1>2, <1>3, <1>8, <2>2 DEF FormOK
<1>9. caches = [caches EXCEPT ![t] = caches[t]]
  BY <1>1 DEF OptionsTypes
<1> HIDE DEF found, Shown
<1>10. CASE /\ kept # {} /\ options' = [options EXCEPT ![t] = Shown(CHOOSE r \in kept : TRUE)]
            /\ UNCHANGED caches
  <2> DEFINE r == CHOOSE r \in kept : TRUE
  <2>1. r \in kept
    BY <1>10
  <2>2. kept \subseteq Lists(Collections) /\ \A x \in kept : Short(x.values)
    BY <1>1, <1>3, <1>4 DEF CacheSets, ListsOK
  <2> HIDE DEF r
  <2>3. Shown(r) \in Forms /\ FormOK(collections, types, "again", Shown(r))
    BY <1>8, <2>1, <2>2
  <2>4. options' = [options EXCEPT ![t] = Shown(r)] /\ caches' = [caches EXCEPT ![t] = caches[t]]
    BY <1>9, <1>10 DEF r
  <2> QED
    BY <1>1, <1>2, <1>3, <1>6, <2>3, <2>4, AnswersIt
<1>11. CASE /\ options' = [options EXCEPT ![t] = Shown(found)]
            /\ caches' = [caches EXCEPT ![t] = new]
  <2>1. Shown(found) \in Forms /\ FormOK(collections, types, "again", Shown(found))
    BY <1>5, <1>8
  <2> DEFINE f == [caches[t].collections EXCEPT ![c] = {found}]
  <2>2. /\ f \in [Collections \union {NoName} -> SUBSET Lists(Collections)] /\ f[c] = {found}
        /\ \A s \in Collections \union {NoName} : s # c => f[s] = caches[t].collections[s]
    BY <1>1, <1>4, <1>5 DEF CacheSets
  <2>3. new = [caches[t] EXCEPT !.collections = f]
    BY <1>1 DEF CacheSets
  <2> HIDE DEF f, new
  <2>4. new \in CacheSets
    BY <1>1, <2>2, <2>3 DEF CacheSets
  <2>5. /\ new.collection = caches[t].collection /\ new.type = caches[t].type
        /\ new.supports = caches[t].supports /\ new.collections = f
        /\ new.types = caches[t].types
    BY <1>1, <2>3 DEF CacheSets
  <2>6. CachesOK(collections, types, new)
    BY <1>3, <2>5 DEF CachesOK
  <2>7. ListsOK(new)
    BY <1>3, <1>5, <2>2, <2>5 DEF ListsOK
  <2> QED
    BY <1>2, <1>6, <1>11, <2>1, <2>4, <2>6, <2>7, AnswersIt
<1>12. CASE UNCHANGED <<caches, options>>
  <2>1. caches' = [caches EXCEPT ![t] = caches[t]] /\ UNCHANGED options
    BY <1>9, <1>12
  <2> QED
    BY <1>1, <1>2, <1>3, <1>6, <2>1, LooksItUp
<1> QED
  BY <1>7, <1>10, <1>11, <1>12

\* The list of types that is kept and shown at the end of a search.
LEMMA KeptTypes ==
  ASSUME OptionsIInv, NEW t \in Threads, doing[t] \notin {"idle", "collection", "type"},
         NEW r \in Lists(Types), Short(r.values), FirstOnes(selection[t][2], r)
  PROVE  LET new == [caches[t] EXCEPT !.types[selection[t][2]] = {r}]
             op == [options[t] EXCEPT !.types = r.values, !.cut = r.truncated]
         IN  /\ new \in CacheSets /\ CachesOK(collections, types, new) /\ ListsOK(new)
             /\ op \in Forms /\ FormOK(collections, types, "idle", op)
<1> DEFINE s == selection[t][2]
           new == [caches[t] EXCEPT !.types[s] = {r}]
           op == [options[t] EXCEPT !.types = r.values, !.cut = r.truncated]
           f == [caches[t].types EXCEPT ![s] = {r}]
<1>1. /\ ThreadOK(collections, types, doing[t], selection[t], loop[t], caches[t], options[t])
      /\ selection[t] \in Selections /\ caches[t] \in CacheSets
      /\ options[t] \in Forms
  BY ThreadFacts
<1>2. /\ CachesOK(collections, types, caches[t]) /\ ListsOK(caches[t])
      /\ FormOK(collections, types, doing[t], options[t])
  BY <1>1 DEF ThreadOK
<1>3. s \in Types \union {NoName} /\ FirstOnes(s, r)
  BY <1>1 DEF Selections
<1> HIDE DEF s
<1>4. /\ f \in [Types \union {NoName} -> SUBSET Lists(Types)] /\ f[s] = {r}
      /\ \A u \in Types \union {NoName} : u # s => f[u] = caches[t].types[u]
  BY <1>1, <1>3 DEF CacheSets
<1>5. new = [caches[t] EXCEPT !.types = f]
  BY <1>1 DEF CacheSets
<1> HIDE DEF f, new
<1>6. new \in CacheSets
  BY <1>1, <1>4, <1>5 DEF CacheSets
<1>7. /\ new.collection = caches[t].collection /\ new.type = caches[t].type
      /\ new.supports = caches[t].supports /\ new.collections = caches[t].collections
      /\ new.types = f
  BY <1>1, <1>5 DEF CacheSets
<1>8. CachesOK(collections, types, new)
  BY <1>2, <1>7 DEF CachesOK
<1>9. ListsOK(new)
  <2>1. ASSUME NEW u \in Types \union {NoName}, NEW x \in new.types[u]
        PROVE  Short(x.values) /\ FirstOnes(u, x)
    <3>1. CASE u = s
      BY <1>3, <1>4, <1>7, <2>1, <3>1
    <3>2. CASE u # s
      BY <1>2, <1>4, <1>7, <2>1, <3>2 DEF ListsOK
    <3> QED
      BY <3>1, <3>2
  <2> QED
    BY <1>2, <1>7, <2>1 DEF ListsOK
<1>10. r.values \subseteq Types /\ r.truncated \in BOOLEAN
  BY DEF Lists
<1>11. /\ op \in Forms /\ op.exact = options[t].exact
       /\ op.collections = options[t].collections /\ op.types = r.values
  BY <1>1, <1>10 DEF Forms
<1> HIDE DEF op
<1>12. FormOK(collections, types, "idle", op)
  BY <1>2, <1>11 DEF FormOK
<1>13. /\ new \in CacheSets /\ CachesOK(collections, types, new) /\ ListsOK(new)
       /\ op \in Forms /\ FormOK(collections, types, "idle", op)
  BY <1>6, <1>8, <1>9, <1>11, <1>12
<1> QED
  BY <1>13 DEF new, op, s

LEMMA SuggestTypesKeeps ==
  ASSUME OptionsIInv, NEW t \in Threads, SuggestTypes(t)
  PROVE  OptionsIInv'
<1> DEFINE n == selection[t][2]
           kept == caches[t].types[n]
           found == Limited(Matching(types, n) \intersect Supported, types)
           Shown(r) == [options[t] EXCEPT !.types = r.values, !.cut = r.truncated]
           New(r) == [caches[t] EXCEPT !.types[n] = {r}]
           begun == [loop[t] EXCEPT !.from = types]
<1>1. /\ ThreadOK(collections, types, doing[t], selection[t], loop[t], caches[t], options[t])
      /\ selection[t] \in Selections /\ caches[t] \in CacheSets /\ loop[t] \in Loops
      /\ options[t] \in Forms /\ OptionsTypes /\ types \subseteq Types
  BY ThreadFacts DEF OptionsIInv
<1>2. doing[t] = "types" /\ UNCHANGED <<registered, selection>>
  BY DEF SuggestTypes
<1>3. /\ CachesOK(collections, types, caches[t]) /\ ListsOK(caches[t])
      /\ FormOK(collections, types, doing[t], options[t]) /\ loop[t] = NoLoop
  BY <1>1, <1>2 DEF ThreadOK, LoopOK
<1>4. n \in Types \union {NoName}
  BY <1>1 DEF Selections
<1>5. found \in Lists(Types) /\ Short(found.values) /\ FirstOnes(n, found)
  BY <1>1, TypesAreListed
<1>6. "idle" \in Doings \ {"batches"} /\ SelectionOK(collections, "idle", selection[t])
  BY DEF Doings, SelectionOK
<1>7. caches = [caches EXCEPT ![t] = caches[t]]
  BY <1>1 DEF OptionsTypes
<1>8. \/ /\ kept # {} /\ options' = [options EXCEPT ![t] = Shown(CHOOSE r \in kept : TRUE)]
         /\ doing' = [doing EXCEPT ![t] = "idle"] /\ UNCHANGED <<loop, caches>>
      \/ /\ options' = [options EXCEPT ![t] = Shown(found)]
         /\ caches' = [caches EXCEPT ![t] = New(found)]
         /\ doing' = [doing EXCEPT ![t] = "idle"] /\ UNCHANGED loop
      \/ /\ loop' = [loop EXCEPT ![t] = begun]
         /\ doing' = [doing EXCEPT ![t] = "batches"] /\ UNCHANGED <<caches, options>>
      \/ doing' = [doing EXCEPT ![t] = "idle"] /\ UNCHANGED <<loop, caches, options>>
  <2> HIDE DEF found, n
  <2> QED
    BY <1>1 DEF SuggestTypes, Fallback, AnswerTypes, KeepTypes, GoTo, found, n, OptionsTypes
<1>9. ASSUME NEW r \in Lists(Types), Short(r.values), FirstOnes(n, r)
      PROVE  /\ New(r) \in CacheSets /\ CachesOK(collections, types, New(r)) /\ ListsOK(New(r))
             /\ Shown(r) \in Forms /\ FormOK(collections, types, "idle", Shown(r))
  BY <1>2, <1>9, KeptTypes
<1> HIDE DEF found, Shown, New
<1>10. CASE /\ kept # {} /\ options' = [options EXCEPT ![t] = Shown(CHOOSE r \in kept : TRUE)]
            /\ doing' = [doing EXCEPT ![t] = "idle"] /\ UNCHANGED <<loop, caches>>
  <2> DEFINE r == CHOOSE r \in kept : TRUE
  <2>1. r \in kept
    BY <1>10
  <2>2. kept \subseteq Lists(Types) /\ \A x \in kept : Short(x.values) /\ FirstOnes(n, x)
    BY <1>1, <1>3, <1>4 DEF CacheSets, ListsOK
  <2>3. options' = [options EXCEPT ![t] = Shown(r)] /\ caches' = [caches EXCEPT ![t] = caches[t]]
    BY <1>7, <1>10
  <2> HIDE DEF r, kept
  <2>4. Shown(r) \in Forms /\ FormOK(collections, types, "idle", Shown(r))
    BY <1>9, <2>1, <2>2
  <2>5. doing' = [doing EXCEPT ![t] = "idle"] /\ UNCHANGED <<registered, selection, loop>>
    BY <1>2, <1>10
  <2>6. doing[t] \notin {"idle", "batches"}
    BY <1>2
  <2>7. /\ caches[t] \in CacheSets
        /\ CachesOK(collections, types, caches[t]) /\ ListsOK(caches[t])
    BY <1>1, <1>3
  <2> QED
    BY <1>6, <2>3, <2>4, <2>5, <2>6, <2>7, AnswersIt
<1>11. CASE /\ options' = [options EXCEPT ![t] = Shown(found)]
            /\ caches' = [caches EXCEPT ![t] = New(found)]
            /\ doing' = [doing EXCEPT ![t] = "idle"] /\ UNCHANGED loop
  BY <1>2, <1>5, <1>6, <1>9, <1>11, AnswersIt
<1>12. CASE /\ loop' = [loop EXCEPT ![t] = begun]
            /\ doing' = [doing EXCEPT ![t] = "batches"] /\ UNCHANGED <<caches, options>>
  <2>1. begun \in Loops /\ BatchesOK(types, n, begun)
    BY <1>1, <1>3, FirstBatchBegins
  <2> HIDE DEF begun
  <2>2. LoopOK(types, "batches", selection[t], begun)
    BY <2>1 DEF LoopOK
  <2>3. SelectionOK(collections, "batches", selection[t]) /\ "batches" \in Doings
    BY DEF SelectionOK, Doings
  <2>4. FormOK(collections, types, "batches", options[t])
    BY <1>2, <1>3 DEF FormOK
  <2>5. ThreadOK(collections, types, "batches", selection[t], begun, caches[t], options[t])
    BY <1>3, <2>2, <2>3, <2>4 DEF ThreadOK
  <2>6. /\ doing' \in [Threads -> Doings] /\ loop' \in [Threads -> Loops]
        /\ selection' \in [Threads -> Selections] /\ caches' \in [Threads -> CacheSets]
        /\ options' \in [Threads -> Forms]
        /\ doing'[t] = "batches" /\ loop'[t] = begun /\ selection'[t] = selection[t]
        /\ caches'[t] = caches[t] /\ options'[t] = options[t]
        /\ \A u \in Threads \ {t} : /\ selection'[u] = selection[u]
                                    /\ doing'[u] = doing[u] /\ loop'[u] = loop[u]
                                    /\ caches'[u] = caches[u] /\ options'[u] = options[u]
    BY <1>1, <1>2, <1>12, <2>1, <2>3 DEF OptionsTypes
  <2> QED
    BY <1>2, <2>5, <2>6, OthersWait
<1>13. CASE doing' = [doing EXCEPT ![t] = "idle"] /\ UNCHANGED <<loop, caches, options>>
  <2>1. caches' = [caches EXCEPT ![t] = caches[t]] /\ UNCHANGED <<loop, options>>
    BY <1>7, <1>13
  <2> QED
    BY <1>1, <1>2, <1>3, <1>6, <1>13, <2>1, LooksItUp
<1> QED
  BY <1>8, <1>10, <1>11, <1>12, <1>13

\* What a step of the loop does, in terms of what it looks at.
LEMMA BatchDoes ==
  ASSUME NEW t \in Threads, Batch(t)
  PROVE  LET s == selection[t][2]
             lp == loop[t]
             r == BatchResult(types, s, lp)
         IN  /\ doing[t] = "batches" /\ UNCHANGED <<registered, selection>>
             /\ \/ /\ LastBatch(BatchNames(types, s, lp),
                                BatchFound(types, s, lp, SuggestionLimit + 1))
                   /\ caches' = [caches EXCEPT ![t].types[s] = {r}]
                   /\ options' = [options EXCEPT ![t].types = r.values, ![t].cut = r.truncated]
                   /\ doing' = [doing EXCEPT ![t] = "idle"]
                   /\ loop' = [loop EXCEPT ![t] = NoLoop]
                \/ /\ ~LastBatch(BatchNames(types, s, lp),
                                 BatchFound(types, s, lp, SuggestionLimit + 1))
                   /\ loop' = [loop EXCEPT ![t] = BatchAfter(types, s, lp)]
                   /\ UNCHANGED <<doing, caches, options>>
BY DEF Batch, BatchNames, BatchGood, BatchFound, BatchResult, BatchAfter, AnswerTypes,
       KeepTypes, GoTo

LEMMA BatchKeeps ==
  ASSUME OptionsIInv, NEW t \in Threads, Batch(t)
  PROVE  OptionsIInv'
<1> DEFINE s == selection[t][2]
           lp == loop[t]
           r == BatchResult(types, s, lp)
           new == [caches[t] EXCEPT !.types[s] = {r}]
           op == [options[t] EXCEPT !.types = r.values, !.cut = r.truncated]
           after == BatchAfter(types, s, lp)
           Ended == LastBatch(BatchNames(types, s, lp),
                             BatchFound(types, s, lp, SuggestionLimit + 1))
<1>1. /\ ThreadOK(collections, types, doing[t], selection[t], loop[t], caches[t], options[t])
      /\ caches[t] \in CacheSets /\ lp \in Loops
      /\ options[t] \in Forms /\ OptionsTypes /\ types \in SUBSET Types
  BY ThreadFacts DEF OptionsIInv
<1>2. /\ doing[t] = "batches" /\ UNCHANGED <<registered, selection>>
      /\ \/ /\ Ended
            /\ caches' = [caches EXCEPT ![t].types[s] = {r}]
            /\ options' = [options EXCEPT ![t].types = r.values, ![t].cut = r.truncated]
            /\ doing' = [doing EXCEPT ![t] = "idle"]
            /\ loop' = [loop EXCEPT ![t] = NoLoop]
         \/ /\ ~Ended
            /\ loop' = [loop EXCEPT ![t] = after]
            /\ UNCHANGED <<doing, caches, options>>
  BY BatchDoes
<1>3. BatchesOK(types, s, lp)
  BY <1>1, <1>2 DEF ThreadOK, LoopOK
<1>4. /\ SelectionOK(collections, doing[t], selection[t])
      /\ CachesOK(collections, types, caches[t]) /\ ListsOK(caches[t])
      /\ FormOK(collections, types, doing[t], options[t])
  BY <1>1 DEF ThreadOK
<1>5. NoLoop \in Loops
  BY DEF NoLoop, Loops
<1>6. ASSUME Ended,
             caches' = [caches EXCEPT ![t].types[s] = {r}],
             options' = [options EXCEPT ![t].types = r.values, ![t].cut = r.truncated],
             doing' = [doing EXCEPT ![t] = "idle"], loop' = [loop EXCEPT ![t] = NoLoop]
      PROVE  OptionsIInv'
  <2>1. r \in Lists(Types) /\ Short(r.values) /\ FirstOnes(s, r)
    BY <1>1, <1>3, <1>6, LastBatchLists
  <2> HIDE DEF r
  <2>2. /\ new \in CacheSets /\ CachesOK(collections, types, new) /\ ListsOK(new)
        /\ op \in Forms /\ FormOK(collections, types, "idle", op)
    BY <1>2, <2>1, KeptTypes
  <2>3. caches' = [caches EXCEPT ![t] = new] /\ options' = [options EXCEPT ![t] = op]
    BY <1>1, <1>6 DEF OptionsTypes
  <2> HIDE DEF new, op
  <2>4. LoopOK(types, "idle", selection[t], NoLoop) /\ SelectionOK(collections, "idle", selection[t])
        /\ "idle" \in Doings
    BY DEF LoopOK, SelectionOK, Doings
  <2>5. ThreadOK(collections, types, "idle", selection[t], NoLoop, new, op)
    BY <2>2, <2>4 DEF ThreadOK
  <2>6. /\ doing \in [Threads -> Doings] /\ loop \in [Threads -> Loops]
        /\ selection \in [Threads -> Selections] /\ caches \in [Threads -> CacheSets]
        /\ options \in [Threads -> Forms] /\ t \in Threads
    BY <1>1 DEF OptionsTypes
  <2>7. doing' = [doing EXCEPT ![t] = "idle"] /\ loop' = [loop EXCEPT ![t] = NoLoop]
        /\ selection' = selection
    BY <1>2, <1>6
  <2>8. doing' \in [Threads -> Doings] /\ doing'[t] = "idle"
        /\ \A u \in Threads \ {t} : doing'[u] = doing[u]
    BY <2>4, <2>6, <2>7
  <2>9. loop' \in [Threads -> Loops] /\ loop'[t] = NoLoop
        /\ \A u \in Threads \ {t} : loop'[u] = loop[u]
    BY <1>5, <2>6, <2>7
  <2>10. selection' \in [Threads -> Selections] /\ selection'[t] = selection[t]
         /\ \A u \in Threads \ {t} : selection'[u] = selection[u]
    BY <2>6, <2>7
  <2>11. caches' \in [Threads -> CacheSets] /\ caches'[t] = new
         /\ \A u \in Threads \ {t} : caches'[u] = caches[u]
    BY <2>2, <2>3, <2>6
  <2>12. options' \in [Threads -> Forms] /\ options'[t] = op
         /\ \A u \in Threads \ {t} : options'[u] = options[u]
    BY <2>2, <2>3, <2>6
  <2>13. /\ doing' \in [Threads -> Doings] /\ loop' \in [Threads -> Loops]
         /\ selection' \in [Threads -> Selections] /\ caches' \in [Threads -> CacheSets]
         /\ options' \in [Threads -> Forms]
         /\ doing'[t] = "idle" /\ loop'[t] = NoLoop /\ selection'[t] = selection[t]
         /\ caches'[t] = new /\ options'[t] = op
         /\ \A u \in Threads \ {t} : /\ selection'[u] = selection[u]
                                     /\ doing'[u] = doing[u] /\ loop'[u] = loop[u]
                                     /\ caches'[u] = caches[u] /\ options'[u] = options[u]
    BY <2>8, <2>9, <2>10, <2>11, <2>12
  <2> QED
    BY <1>2, <2>5, <2>13, OthersWait
<1>7. ASSUME ~Ended, loop' = [loop EXCEPT ![t] = after], UNCHANGED <<doing, caches, options>>
      PROVE  OptionsIInv'
  <2>1. after \in Loops /\ BatchesOK(types, s, after)
    BY <1>1, <1>3, <1>7, NextBatchContinues
  <2> HIDE DEF after
  <2>2. LoopOK(types, doing[t], selection[t], after)
    BY <1>2, <2>1 DEF LoopOK
  <2>3. ThreadOK(collections, types, doing[t], selection[t], after, caches[t], options[t])
    BY <1>4, <2>2 DEF ThreadOK
  <2>4. /\ doing' \in [Threads -> Doings] /\ loop' \in [Threads -> Loops]
        /\ selection' \in [Threads -> Selections] /\ caches' \in [Threads -> CacheSets]
        /\ options' \in [Threads -> Forms]
        /\ doing'[t] = doing[t] /\ loop'[t] = after /\ selection'[t] = selection[t]
        /\ caches'[t] = caches[t] /\ options'[t] = options[t]
        /\ \A u \in Threads \ {t} : /\ selection'[u] = selection[u]
                                    /\ doing'[u] = doing[u] /\ loop'[u] = loop[u]
                                    /\ caches'[u] = caches[u] /\ options'[u] = options[u]
    BY <1>1, <1>2, <1>7, <2>1 DEF OptionsTypes
  <2> QED
    BY <1>2, <2>3, <2>4, OthersWait
<1> QED
  BY <1>2, <1>6, <1>7

LEMMA BatchFailsKeeps ==
  ASSUME OptionsIInv, NEW t \in Threads, BatchFails(t)
  PROVE  OptionsIInv'
<1>1. /\ ThreadOK(collections, types, doing[t], selection[t], loop[t], caches[t], options[t])
      /\ OptionsTypes
  BY ThreadFacts DEF OptionsIInv
<1>2. /\ doing' = [doing EXCEPT ![t] = "idle"] /\ loop' = [loop EXCEPT ![t] = NoLoop]
      /\ doing[t] = "batches" /\ UNCHANGED <<registered, selection, caches, options>>
  BY DEF BatchFails, Fallback, GoTo
<1>3. LoopOK(types, "idle", selection[t], NoLoop) /\ SelectionOK(collections, "idle", selection[t])
      /\ "idle" \in Doings /\ NoLoop \in Loops
  BY DEF LoopOK, SelectionOK, Doings, NoLoop, Loops
<1>4. FormOK(collections, types, "idle", options[t])
  BY <1>1, <1>2 DEF ThreadOK, FormOK
<1>5. ThreadOK(collections, types, "idle", selection[t], NoLoop, caches[t], options[t])
  BY <1>1, <1>3, <1>4 DEF ThreadOK
<1>6. /\ doing' \in [Threads -> Doings] /\ loop' \in [Threads -> Loops]
      /\ selection' \in [Threads -> Selections] /\ caches' \in [Threads -> CacheSets]
      /\ options' \in [Threads -> Forms]
      /\ doing'[t] = "idle" /\ loop'[t] = NoLoop /\ selection'[t] = selection[t]
      /\ caches'[t] = caches[t] /\ options'[t] = options[t]
      /\ \A u \in Threads \ {t} : /\ selection'[u] = selection[u]
                                  /\ doing'[u] = doing[u] /\ loop'[u] = loop[u]
                                  /\ caches'[u] = caches[u] /\ options'[u] = options[u]
  BY <1>1, <1>2, <1>3 DEF OptionsTypes
<1> QED
  BY <1>2, <1>5, <1>6, OthersWait

LEMMA OptionsIInvHolds == OptionsSpec => []OptionsIInv
<1>1. OptionsIInv /\ [OptionsNext]_optionsVars => OptionsIInv'
  <2> SUFFICES ASSUME OptionsIInv, [OptionsNext]_optionsVars PROVE OptionsIInv'
    OBVIOUS
  <2>0. /\ collections \subseteq Collections /\ types \subseteq Types
    BY DEF OptionsIInv, OptionsTypes
  <2>1. CASE MakeDatasource
    <3>1. UNCHANGED <<collections, types, work>>
      BY <2>1 DEF MakeDatasource, registered
    <3> QED
      BY <2>0, <3>1, RegistryGrows
  <2>2. ASSUME NEW c \in Collections, RegisterCollection(c) PROVE OptionsIInv'
    BY <2>0, <2>2, RegistryGrows DEF RegisterCollection
  <2>3. ASSUME NEW n \in Types, RegisterType(n) PROVE OptionsIInv'
    BY <2>0, <2>3, RegistryGrows DEF RegisterType
  <2>4. ASSUME NEW t \in Threads, FormStep(t) PROVE OptionsIInv'
    <3>1. ASSUME NEW c \in Collections \union {NoName}, NEW n \in Types \union {NoName},
                 AskOptions(t, c, n)
          PROVE  OptionsIInv'
      BY <3>1, AskKeeps
    <3>2. CollectionExists(t) \/ NoCollection(t) \/ TypeExists(t) => OptionsIInv'
      BY CollectionExistsKeeps, NoCollectionKeeps, TypeExistsKeeps
    <3>3. SuggestCollections(t) \/ SuggestTypes(t) \/ Batch(t) \/ BatchFails(t) => OptionsIInv'
      BY SuggestCollectionsKeeps, SuggestTypesKeeps, BatchKeeps, BatchFailsKeeps
    <3> QED
      BY <2>4, <3>1, <3>2, <3>3 DEF FormStep
  <2>5. CASE UNCHANGED optionsVars
    <3>1. UNCHANGED <<collections, types, work>>
      BY <2>5 DEF optionsVars, registered
    <3> QED
      BY <2>0, <3>1, RegistryGrows
  <2> QED
    BY <2>1, <2>2, <2>3, <2>4, <2>5 DEF OptionsNext
<1> QED
  BY <1>1, OptionsBegin, PTL DEF OptionsSpec

\* Suggestions: no list is longer than the limit, no failure of the registry is kept, what
\* is shown as exact is there, and the dataset types suggested are the first ones, whatever
\* was registered between the batches.
THEOREM SuggestionsAreSound == OptionsSpec => []OptionsInv
<1>1. OptionsIInv => OptionsInv
  <2> SUFFICES ASSUME OptionsIInv PROVE OptionsInv
    OBVIOUS
  <2>1. ASSUME NEW t \in Threads
        PROVE  /\ ThreadOK(collections, types, doing[t], selection[t], loop[t], caches[t], options[t])
               /\ caches[t] \in CacheSets /\ loop[t] \in Loops
               /\ collections \subseteq Collections /\ types \subseteq Types
    BY ThreadFacts
  <2>2. collections \subseteq Collections /\ types \subseteq Types
        /\ FirstCollections \subseteq collections
    BY DEF OptionsIInv, OptionsTypes
  <2>3. ASSUME NEW t \in Threads
        PROVE  /\ Short(options[t].collections) /\ Short(options[t].types)
               /\ loop[t].offset <= Cardinality(types) /\ Short(loop[t].found)
               /\ doing[t] = "batches" \/ loop[t] = NoLoop
    <3>1. /\ FormOK(collections, types, doing[t], options[t])
          /\ LoopOK(types, doing[t], selection[t], loop[t])
      BY <2>1 DEF ThreadOK
    <3>2. Short(options[t].collections) /\ Short(options[t].types)
      BY <3>1 DEF FormOK
    <3>3. IsFiniteSet(types) /\ Cardinality(types) \in Nat
      BY <2>2, NamesAreFinite, FS_CardinalityType
    <3>4. CASE doing[t] = "batches"
      <4> DEFINE all == Matching(types, selection[t][2])
      <4>1. /\ BatchesOK(types, selection[t][2], loop[t])
            /\ loop[t].offset \in Nat
        BY <2>1, <3>1, <3>4 DEF LoopOK, Loops
      <4>2. all \subseteq types
        BY <2>2, NamesAreFinite
      <4>3. Cardinality(all) <= Cardinality(types) /\ Cardinality(all) \in Nat
        <5> HIDE DEF all
        <5> QED
          BY <3>3, <4>2, FS_Subset, FS_CardinalityType
      <4>4. Short(loop[t].found) /\ loop[t].offset <= Cardinality(all)
        BY <4>1 DEF BatchesOK
      <4> QED
        BY <3>2, <3>3, <3>4, <4>1, <4>3, <4>4
    <3>5. CASE doing[t] # "batches"
      <4>1. loop[t] = NoLoop
        BY <3>1, <3>5 DEF LoopOK
      <4>2. loop[t].offset = 0 /\ loop[t].found = {}
        BY <4>1 DEF NoLoop
      <4>3. Short(loop[t].found)
        BY <4>2, ShortOnes
      <4> QED
        BY <3>2, <3>3, <4>1, <4>2, <4>3
    <3> QED
      BY <3>4, <3>5
  <2>4. OptionsTypeOK
    BY <2>2, <2>3 DEF OptionsTypeOK, Short
  <2>5. FaultIsNotKept
    BY <2>1 DEF FaultIsNotKept, ThreadOK, CachesOK
  <2>6. ExactIsThere
    BY <2>1 DEF ExactIsThere, ThreadOK, FormOK
  <2>7. SuggestionsAreFirst
    <3> SUFFICES ASSUME NEW t \in Threads, NEW s \in DOMAIN caches[t].types,
                        NEW r \in caches[t].types[s]
                 PROVE  FirstOnes(s, r)
      BY DEF SuggestionsAreFirst, FirstOnes
    <3>1. DOMAIN caches[t].types = Types \union {NoName}
      BY <2>1 DEF CacheSets
    <3> QED
      BY <2>1, <3>1 DEF ThreadOK, ListsOK
  <2> QED
    BY <2>4, <2>5, <2>6, <2>7 DEF OptionsInv
<1> QED
  BY <1>1, OptionsIInvHolds, PTL
-----------------------------------------------------------------------------
(* The bundle of a dirty worktree. *)

\* A line that brings the file of a path.
Brings(line, p) == line.path = p /\ line.x # "U" /\ ~Deleted(line)

\* A line that makes a path of the clone what it is in the worktree.
Settling(line, p) ==
    IF Has(worktree, p) THEN Brings(line, p)
    ELSE (line.path = p /\ Deleted(line)) \/ (line.x = "R" /\ line.old = p)

\* A line has its place among the paths.
PathsOfLines == \A line \in lines : line.path \in Paths

\* What is left of the lines is what git printed last.
RestIsLast ==
    /\ lines \subseteq Status
    /\ \A e \in lines, f \in Status : Comes(e, f) => f \in lines

\* Where the clone is not yet the worktree, a line is left for it.
RestSettles == \A p \in Paths : clone[p] # worktree[p] => \E line \in lines : Settling(line, p)

\* The file that a rename takes away is there until then, if others of the index came under
\* its name; so these were not yet copied.
RenamesBlock ==
    \A e \in lines, q \in Paths :
        (e.x = "R" /\ e.old \in Above[q] /\ q # e.path /\ Has(index, q) /\ Has(worktree, q)) =>
            Has(clone, e.old) /\ \E f \in lines : Brings(f, q)

WorktreeIInv ==
    /\ WorktreeTypeOK /\ PathsOfLines
    /\ SnapshotIsWorktree /\ RefusedForAReason
    /\ (making = "running" /\ ~touched) =>
         /\ RestIsLast
         /\ unmerged # {} => \E line \in lines : line.x = "U"
         /\ unmerged = {} => RestSettles /\ RenamesBlock

\* What the letters of a line can be.
LEMMA LettersOfStatus ==
  ASSUME NEW p \in Paths
  PROVE  /\ Staged(p) \in {" ", "A", "D", "M"} /\ Unstaged(p) \in {" ", "D", "M"}
         /\ Staged(p) = "D" => Has(head, p) /\ ~Has(index, p)
         /\ Staged(p) = "A" => ~Has(head, p) /\ Has(index, p)
         /\ Staged(p) = " " => head[p] = index[p]
         /\ Unstaged(p) = "D" => Has(index, p) /\ ~Has(worktree, p)
         /\ (Unstaged(p) # "D" /\ Has(index, p)) => Has(worktree, p)
         /\ (Unstaged(p) = " " /\ Has(index, p)) => worktree[p] = index[p]
BY DEF Staged, Unstaged, Has

\* A renamed file left the index, its new name came; each file is renamed once.
LEMMA RenamesOfStatus ==
  ASSUME NEW q \in Paths, NEW p \in Paths, Renamed(q, p)
  PROVE  /\ Staged(q) = "D" /\ Staged(p) = "A"
         /\ \A r \in Paths : Renamed(q, r) => r = p
<1>1. SameFile(q, p) /\ FirstSame(q, p)
  BY DEF Renamed, FirstSame
<1>2. ASSUME NEW r \in Paths, Renamed(q, r)
      PROVE  r = p
  <2>1. r <= p /\ p <= r
    BY <1>1, <1>2 DEF Renamed
  <2> QED
    BY <2>1, WorktreeAssumption
<1> QED
  BY <1>1, <1>2 DEF SameFile

\* What a line of the status is made of.
LEMMA LinesOfStatus ==
  ASSUME WorktreeTypeOK, NEW line \in Status
  PROVE  /\ line.path \in Paths
         /\ \/ /\ Tracked(line.path) /\ line.x = Staged(line.path) /\ line.y = Unstaged(line.path)
            \/ /\ line.x = "R" /\ line.old \in Paths /\ Renamed(line.old, line.path)
               /\ line.y = Unstaged(line.path)
            \/ /\ line.x = "?" /\ line.y = "?"
               /\ Has(worktree, line.path) /\ ~Has(index, line.path)
            \/ line.x = "U" /\ line.path \in unmerged
<1>1. CASE line \in {Line(Staged(p), Unstaged(p), 0, p) : p \in {q \in Paths : Tracked(q)}}
  BY <1>1 DEF Line
<1>2. CASE line \in {e \in {Line("R", Unstaged(p), q, p) : q, p \in Paths} : Renamed(e.old, e.path)}
  <2>1. PICK q \in Paths, p \in Paths : line = Line("R", Unstaged(p), q, p)
    BY <1>2
  <2> QED
    BY <1>2, <2>1 DEF Line
<1>3. CASE line \in {Line("U", "U", 0, p) : p \in unmerged}
  BY <1>3 DEF Line, WorktreeTypeOK
<1>4. CASE line \in UntrackedLines
  BY <1>4 DEF Line, UntrackedLines
<1> QED
  BY <1>1, <1>2, <1>3, <1>4 DEF Status, TrackedLines

\* The lines that are there.
LEMMA LinesOfPaths ==
  ASSUME WorktreeTypeOK, unmerged = {}, NEW p \in Paths
  PROVE  /\ Tracked(p) => Line(Staged(p), Unstaged(p), 0, p) \in Status
         /\ \A q \in Paths : Renamed(q, p) => Line("R", Unstaged(p), q, p) \in Status
         /\ (Has(worktree, p) /\ ~Has(index, p)) => Line("?", "?", 0, p) \in Status
<1>1. Tracked(p) => Line(Staged(p), Unstaged(p), 0, p) \in Status
  BY DEF Status, TrackedLines
<1>2. ASSUME NEW q \in Paths, Renamed(q, p)
      PROVE  Line("R", Unstaged(p), q, p) \in Status
  <2>1. Line("R", Unstaged(p), q, p).old = q /\ Line("R", Unstaged(p), q, p).path = p
    BY DEF Line
  <2> QED
    BY <1>2, <2>1 DEF Status, TrackedLines
<1>3. (Has(worktree, p) /\ ~Has(index, p)) => Line("?", "?", 0, p) \in Status
  BY DEF Status, UntrackedLines
<1> QED
  BY <1>1, <1>2, <1>3

\* A file of the index and of the worktree that is not in HEAD as it is has a line that brings it.
LEMMA ChangedIsBrought ==
  ASSUME WorktreeTypeOK, unmerged = {}, NEW p \in Paths, Has(index, p), Has(worktree, p),
         Staged(p) # " " \/ Unstaged(p) # " "
  PROVE  \E line \in Status : Brings(line, p) /\ line.x # "?"
<1>1. CASE Tracked(p)
  <2>1. Line(Staged(p), Unstaged(p), 0, p) \in Status
    BY <1>1, LinesOfPaths
  <2>2. Staged(p) # "D" /\ Unstaged(p) # "D" /\ Staged(p) # "U" /\ Staged(p) # "?" /\ Staged(p) # "R"
    BY LettersOfStatus
  <2> QED
    BY <2>1, <2>2 DEF Brings, Deleted, Line
<1>2. CASE ~Tracked(p)
  <2>1. PICK q \in Paths : Renamed(q, p) \/ Renamed(p, q)
    BY <1>2 DEF Tracked
  <2>2. ~Renamed(p, q)
    BY RenamesOfStatus, LettersOfStatus
  <2>3. Line("R", Unstaged(p), q, p) \in Status
    BY <2>1, <2>2, LinesOfPaths
  <2> QED
    BY <2>3 DEF Brings, Deleted, Line
<1> QED
  BY <1>1, <1>2

\* A deletion is of a tracked path that the index or the worktree has no longer.
LEMMA DeletionsOfStatus ==
  ASSUME WorktreeTypeOK, unmerged = {}, NEW line \in Status, Deleted(line)
  PROVE  /\ line.path \in Paths /\ line.x # "?" /\ line.x # "R" /\ Tracked(line.path)
         /\ \/ Has(head, line.path) /\ ~Has(index, line.path)
            \/ Has(index, line.path) /\ ~Has(worktree, line.path)
<1>1. line.path \in Paths /\ Tracked(line.path) /\ line.x = Staged(line.path) /\ line.y = Unstaged(line.path)
  BY LinesOfStatus DEF Deleted
<1> QED
  BY <1>1, LettersOfStatus DEF Deleted

\* What comes after a line that is tracked.
LEMMA NewFilesComeLast ==
  ASSUME WorktreeTypeOK, unmerged = {}, NEW line \in Status, line.x # "?",
         NEW q \in Paths, Has(worktree, q), ~Has(index, q)
  PROVE  \E f \in Status : Brings(f, q) /\ Comes(line, f)
<1>1. Line("?", "?", 0, q) \in Status
  BY LinesOfPaths
<1> QED
  BY <1>1 DEF Brings, Comes, Deleted, Line

\* A file that a deletion takes along is brought by a later line.
LEMMA DeletionsSpareFiles ==
  ASSUME WorktreeTypeOK, unmerged = {}, NEW line \in Status, Deleted(line),
         NEW q \in Paths, Has(worktree, q), line.path = q \/ line.path \in Above[q]
  PROVE  \E f \in Status : Brings(f, q) /\ Comes(line, f)
<1>1. CASE ~Has(index, q)
  BY <1>1, NewFilesComeLast, DeletionsOfStatus
<1>2. CASE Has(index, q)
  <2>1. line.path # q
    BY <1>2, DeletionsOfStatus
  <2>2. line.path \in Above[q] /\ line.path < q /\ line.path \in Paths
    BY <2>1, DeletionsOfStatus, WorktreeAssumption
  <2>3. ~Has(index, line.path)
    BY <1>2, <2>2 DEF WorktreeTypeOK, Sound
  <2>4. ~Has(head, q)
    BY <2>2, <2>3, DeletionsOfStatus DEF WorktreeTypeOK, Sound
  <2>5. Staged(q) # " "
    BY <1>2, <2>4 DEF Staged, Has
  <2>6. PICK f \in Status : Brings(f, q) /\ f.x # "?"
    BY <1>2, <2>5, ChangedIsBrought
  <2>7. Comes(line, f)
    BY <2>2, <2>6, DeletionsOfStatus DEF Comes, Brings
  <2> QED
    BY <2>6, <2>7
<1> QED
  BY <1>1, <1>2

\* Lines that are copied have their file, unless they are renames.
LEMMA CopiesHaveFiles ==
  ASSUME WorktreeTypeOK, unmerged = {}, NEW line \in Status, ~Deleted(line), line.x # "R"
  PROVE  line.path \in Paths /\ line.x # "U" /\ Has(worktree, line.path)
<1>1. CASE Tracked(line.path) /\ line.x = Staged(line.path) /\ line.y = Unstaged(line.path) /\ line.path \in Paths
  <2>1. line.x # "D" /\ line.y # "D"
    BY <1>1 DEF Deleted
  <2>2. CASE Has(index, line.path)
    BY <1>1, <2>1, <2>2, LettersOfStatus
  <2>3. CASE ~Has(index, line.path)
    <3>1. Unstaged(line.path) = " " /\ Staged(line.path) # " "
      BY <1>1, <2>3 DEF Unstaged, Tracked
    <3>2. Staged(line.path) = "D"
      BY <3>1, <2>3 DEF Staged, Has
    <3> QED
      BY <3>2, <2>1, <1>1
  <2> QED
    BY <1>1, <2>2, <2>3, LettersOfStatus
<1> QED
  BY <1>1, LinesOfStatus

\* The lines of one rename.
LEMMA RenamesAreLines ==
  ASSUME WorktreeTypeOK, NEW line \in Status, line.x = "R"
  PROVE  /\ line.path \in Paths /\ line.old \in Paths /\ ~Deleted(line)
         /\ Renamed(line.old, line.path)
         /\ Has(head, line.old) /\ ~Has(index, line.old)
         /\ \A other \in Status : (other.x = "R" /\ other.old = line.old) => other = line
<1>1. ASSUME NEW other \in Status, other.x = "R"
      PROVE  /\ other.path \in Paths /\ other.old \in Paths
             /\ Renamed(other.old, other.path)
             /\ other = Line("R", Unstaged(other.path), other.old, other.path)
  <2>1. other \notin UntrackedLines
    BY <1>1 DEF UntrackedLines, Line
  <2>2. other \notin {Line("U", "U", 0, p) : p \in unmerged}
    BY <1>1 DEF Line
  <2>3. ASSUME NEW p \in Paths
        PROVE  other # Line(Staged(p), Unstaged(p), 0, p)
    <3>1. Staged(p) # "R" /\ Line(Staged(p), Unstaged(p), 0, p).x = Staged(p)
      BY LettersOfStatus DEF Line
    <3> QED
      BY <1>1, <3>1
  <2>4. other \in {e \in {Line("R", Unstaged(p), q, p) : q, p \in Paths} : Renamed(e.old, e.path)}
    BY <2>1, <2>2, <2>3 DEF Status, TrackedLines
  <2>5. PICK q \in Paths, p \in Paths : other = Line("R", Unstaged(p), q, p)
    BY <2>4
  <2>6. other.old = q /\ other.path = p
    BY <2>5 DEF Line
  <2> QED
    BY <2>4, <2>5, <2>6
<1>2. Staged(line.old) = "D"
  BY <1>1, RenamesOfStatus
<1>3. Has(head, line.old) /\ ~Has(index, line.old)
  BY <1>1, <1>2, LettersOfStatus
<1>4. ASSUME NEW other \in Status, other.x = "R", other.old = line.old
      PROVE  other = line
  <2>1. other.path = line.path
    BY <1>1, <1>4, RenamesOfStatus
  <2> QED
    BY <1>1, <1>4, <2>1
<1> QED
  BY <1>1, <1>3, <1>4 DEF Deleted

\* Every difference of the worktree to HEAD has a line that settles it.
LEMMA StatusSettles ==
  ASSUME WorktreeTypeOK, unmerged = {}, NEW p \in Paths, head[p] # worktree[p]
  PROVE  \E line \in Status : Settling(line, p)
<1>1. CASE Has(worktree, p) /\ Has(index, p)
  <2>1. Staged(p) # " " \/ Unstaged(p) # " "
    BY <1>1, LettersOfStatus
  <2> QED
    BY <1>1, <2>1, ChangedIsBrought DEF Settling
<1>2. CASE Has(worktree, p) /\ ~Has(index, p)
  <2>1. Line("?", "?", 0, p) \in Status
    BY <1>2, LinesOfPaths
  <2> QED
    BY <1>2, <2>1 DEF Settling, Brings, Deleted, Line
<1>3. CASE ~Has(worktree, p)
  <2>1. Has(head, p)
    BY <1>3 DEF Has
  <2>2. Staged(p) = "D" \/ Unstaged(p) = "D"
    BY <1>3, <2>1 DEF Staged, Unstaged, Has
  <2>3. CASE Tracked(p)
    <3>1. Line(Staged(p), Unstaged(p), 0, p) \in Status
      BY <2>3, LinesOfPaths
    <3> QED
      BY <1>3, <2>2, <3>1, LettersOfStatus DEF Settling, Deleted, Line
  <2>4. CASE ~Tracked(p)
    <3>1. PICK q \in Paths : Renamed(p, q) \/ Renamed(q, p)
      BY <2>2, <2>4 DEF Tracked
    <3>2. Renamed(p, q)
      BY <2>1, <3>1, RenamesOfStatus, LettersOfStatus
    <3>3. Line("R", Unstaged(q), p, q) \in Status
      BY <3>2, LinesOfPaths
    <3> QED
      BY <1>3, <3>3 DEF Settling, Line
  <2> QED
    BY <2>3, <2>4
<1> QED
  BY <1>1, <1>2, <1>3

\* The first line that is left.
FirstLine(line) == line \in lines /\ \A other \in lines \ {line} : Comes(line, other)

\* The lines that follow the first one are left.
LEMMA FollowersAreLeft ==
  ASSUME WorktreeTypeOK, RestIsLast, NEW line, FirstLine(line), NEW f \in Status, Comes(line, f)
  PROVE  f \in lines \ {line}
<1>1. f \in lines /\ line \in lines /\ lines \subseteq Status
  BY DEF RestIsLast, FirstLine
<1>2. ~Comes(line, line)
  <2>1. line.path \in Nat
    BY <1>1, LinesOfStatus, WorktreeAssumption
  <2> QED
    BY <2>1 DEF Comes
<1> QED
  BY <1>1, <1>2

\* No line comes before the first.
LEMMA FirstIsFirst ==
  ASSUME WorktreeTypeOK, RestIsLast, NEW line, FirstLine(line), NEW e \in lines
  PROVE  ~Comes(e, line)
<1>1. e.path \in Nat /\ line.path \in Nat
  BY LinesOfStatus, WorktreeAssumption DEF RestIsLast, FirstLine
<1>2. e = line \/ Comes(line, e)
  BY DEF FirstLine
<1> QED
  BY <1>1, <1>2 DEF Comes

\* What is left after the first line is again what git printed last.
LEMMA RestStaysLast ==
  ASSUME WorktreeTypeOK, RestIsLast, NEW line, FirstLine(line)
  PROVE  /\ lines \ {line} \subseteq Status
         /\ \A e \in lines \ {line}, f \in Status : Comes(e, f) => f \in lines \ {line}
BY FirstIsFirst DEF RestIsLast

\* The paths of a tree after a line is applied to it.
LEMMA RemovedPaths ==
  ASSUME NEW tree \in Trees, Sound(tree), NEW p
  PROVE  /\ RemovePath(tree, p) \in Trees /\ Sound(RemovePath(tree, p))
         /\ \A q \in Paths : /\ (q = p \/ p \in Above[q]) => ~Has(RemovePath(tree, p), q)
                             /\ (q # p /\ p \notin Above[q]) => RemovePath(tree, p)[q] = tree[q]
<1>1. RemovePath(tree, p) \in Trees
  BY DEF RemovePath, Trees
<1>2. \A q \in Paths : /\ (q = p \/ p \in Above[q]) => ~Has(RemovePath(tree, p), q)
                       /\ (q # p /\ p \notin Above[q]) => RemovePath(tree, p)[q] = tree[q]
  BY DEF RemovePath, Has
<1>3. \A q \in Paths : Has(RemovePath(tree, p), q) => Has(tree, q)
  BY DEF RemovePath, Has
<1>4. Sound(RemovePath(tree, p))
  <2>1. \A q \in Paths : Above[q] \subseteq Paths
    BY WorktreeAssumption
  <2> QED
    BY <1>3, <2>1 DEF Sound
<1> QED
  BY <1>1, <1>2, <1>4

LEMMA CopiedPaths ==
  ASSUME WorktreeTypeOK, NEW tree \in Trees, Sound(tree), NEW p \in Paths, CanCopy(tree, p)
  PROVE  /\ Copy(tree, p) \in Trees /\ Sound(Copy(tree, p))
         /\ Copy(tree, p)[p] = worktree[p] /\ Has(worktree, p)
         /\ \A q \in Paths : /\ p \in Above[q] => ~Has(Copy(tree, p), q)
                             /\ (q # p /\ p \notin Above[q]) => Copy(tree, p)[q] = tree[q]
<1> DEFINE removed == RemovePath(tree, p)
<1>1. /\ removed \in Trees /\ Sound(removed)
      /\ \A q \in Paths : /\ (q = p \/ p \in Above[q]) => ~Has(removed, q)
                          /\ (q # p /\ p \notin Above[q]) => removed[q] = tree[q]
  BY RemovedPaths
<1>2. Copy(tree, p) = [removed EXCEPT ![p] = worktree[p]]
  BY DEF Copy, Put
<1> HIDE DEF removed
<1>3. worktree[p] \in Contents \union {NoFile}
  BY DEF WorktreeTypeOK, Trees
<1>4. Copy(tree, p) \in Trees
  BY <1>1, <1>2, <1>3 DEF Trees
<1>5. Copy(tree, p)[p] = worktree[p] /\ Has(worktree, p) /\ \A d \in Above[p] : ~Has(tree, d)
  BY <1>1, <1>2 DEF Trees, CanCopy
<1>6. \A q \in Paths : q # p => Copy(tree, p)[q] = removed[q]
  BY <1>1, <1>2 DEF Trees
<1>7. \A q \in Paths : p \in Above[q] => p # q
  BY WorktreeAssumption
<1>8. \A q \in Paths : /\ p \in Above[q] => ~Has(Copy(tree, p), q)
                       /\ (q # p /\ p \notin Above[q]) => Copy(tree, p)[q] = tree[q]
  BY <1>1, <1>6, <1>7 DEF Has
<1>9. ASSUME NEW q \in Paths, Has(Copy(tree, p), q), NEW d \in Above[q]
      PROVE  ~Has(Copy(tree, p), d)
  <2>1. d \in Paths /\ d # q
    BY WorktreeAssumption
  <2>2. CASE q = p
    <3>1. p \notin Above[d]
      BY <2>1, <2>2, WorktreeAssumption
    <3> QED
      BY <1>5, <1>8, <2>1, <2>2, <3>1 DEF Has
  <2>3. CASE q # p
    <3>1. p \notin Above[q]
      BY <1>8, <1>9
    <3>2. d # p /\ p \notin Above[d]
      BY <3>1, WorktreeAssumption
    <3>3. Copy(tree, p)[q] = tree[q] /\ Copy(tree, p)[d] = tree[d]
      BY <1>8, <2>1, <2>3, <3>1, <3>2
    <3> QED
      BY <1>9, <3>3 DEF Has, Sound
  <2> QED
    BY <2>2, <2>3
<1> QED
  BY <1>4, <1>5, <1>8, <1>9 DEF Sound

\* The clone after a line.
Becomes(line, after) ==
    \/ Deleted(line) /\ after = RemovePath(clone, line.path)
    \/ /\ ~Deleted(line) /\ CanCopy(Cleared(line), line.path)
       /\ after = Copy(Cleared(line), line.path)

\* What a line takes away.
Takes(line, q) ==
    \/ Deleted(line) /\ (q = line.path \/ line.path \in Above[q])
    \/ ~Deleted(line) /\ line.path \in Above[q] /\ Has(worktree, line.path)
    \/ line.x = "R" /\ q # line.path /\ (q = line.old \/ line.old \in Above[q])

LEMMA PathsAfterLine ==
  ASSUME WorktreeTypeOK, NEW line, line.path \in Paths, NEW after, Becomes(line, after)
  PROVE  /\ after \in Trees /\ Sound(after)
         /\ ~Deleted(line) => after[line.path] = worktree[line.path] /\ Has(worktree, line.path)
         /\ \A q \in Paths : \/ ~Deleted(line) /\ q = line.path
                             \/ ~Has(after, q) /\ Takes(line, q)
                             \/ after[q] = clone[q]
<1>1. clone \in Trees /\ Sound(clone)
  BY DEF WorktreeTypeOK
<1>2. CASE Deleted(line)
  <2>1. after = RemovePath(clone, line.path)
    BY <1>2 DEF Becomes
  <2> QED
    BY <1>1, <1>2, <2>1, RemovedPaths DEF Takes
<1>3. CASE ~Deleted(line)
  <2>1. CanCopy(Cleared(line), line.path) /\ after = Copy(Cleared(line), line.path)
    BY <1>3 DEF Becomes
  <2>2. /\ Cleared(line) \in Trees /\ Sound(Cleared(line))
        /\ \A q \in Paths :
             \/ line.x = "R" /\ (q = line.old \/ line.old \in Above[q]) /\ ~Has(Cleared(line), q)
             \/ Cleared(line)[q] = clone[q]
    <3>1. CASE line.x = "R"
      BY <1>1, <3>1, RemovedPaths DEF Cleared
    <3>2. CASE line.x # "R"
      BY <1>1, <3>2 DEF Cleared
    <3> QED
      BY <3>1, <3>2
  <2>3. /\ after \in Trees /\ Sound(after)
        /\ after[line.path] = worktree[line.path] /\ Has(worktree, line.path)
        /\ \A q \in Paths :
             /\ line.path \in Above[q] => ~Has(after, q)
             /\ (q # line.path /\ line.path \notin Above[q]) => after[q] = Cleared(line)[q]
    BY <2>1, <2>2, CopiedPaths
  <2>4. ASSUME NEW q \in Paths, q # line.path
        PROVE  (~Has(after, q) /\ Takes(line, q)) \/ after[q] = clone[q]
    <3>1. CASE line.path \in Above[q]
      BY <1>3, <2>3, <3>1 DEF Takes
    <3>2. CASE line.path \notin Above[q]
      <4>1. after[q] = Cleared(line)[q]
        BY <2>3, <2>4, <3>2
      <4> QED
        BY <2>2, <2>4, <4>1 DEF Takes, Has
    <3> QED
      BY <3>1, <3>2
  <2> QED
    BY <1>3, <2>3, <2>4
<1> QED
  BY <1>2, <1>3

\* A file of the worktree that a line takes away is brought by a line that is left.
LEMMA TakenFilesAreBrought ==
  ASSUME WorktreeTypeOK, unmerged = {}, RestIsLast, RenamesBlock,
         NEW line, FirstLine(line), line.path \in Paths,
         NEW q \in Paths, Takes(line, q), Has(worktree, q)
  PROVE  \E f \in lines \ {line} : Brings(f, q)
<1>1. line \in Status /\ line \in lines
  BY DEF RestIsLast, FirstLine
<1>2. CASE Deleted(line) /\ (q = line.path \/ line.path \in Above[q])
  BY <1>1, <1>2, DeletionsSpareFiles, FollowersAreLeft
<1>3. CASE line.path \in Above[q] /\ Has(worktree, line.path)
  BY <1>3 DEF WorktreeTypeOK, Sound
<1>4. CASE line.x = "R" /\ q # line.path /\ (q = line.old \/ line.old \in Above[q])
  <2>1. CASE ~Has(index, q)
    <3>1. PICK f \in Status : Brings(f, q) /\ Comes(line, f)
      BY <1>1, <1>4, <2>1, NewFilesComeLast
    <3> QED
      BY <3>1, FollowersAreLeft
  <2>2. CASE Has(index, q)
    <3>1. q # line.old
      BY <1>1, <1>4, <2>2, RenamesAreLines
    <3>2. PICK f \in lines : Brings(f, q)
      BY <1>1, <1>4, <2>2, <3>1 DEF RenamesBlock
    <3>3. f # line
      BY <1>4, <3>2 DEF Brings
    <3> QED
      BY <3>2, <3>3
  <2> QED
    BY <2>1, <2>2
<1> QED
  BY <1>2, <1>3, <1>4 DEF Takes

LEMMA RestStillSettles ==
  ASSUME WorktreeTypeOK, unmerged = {}, RestIsLast, RestSettles, RenamesBlock,
         NEW line, FirstLine(line), line.x # "U", line.path \in Paths,
         NEW after, Becomes(line, after), NEW p \in Paths, after[p] # worktree[p]
  PROVE  \E l \in lines \ {line} : Settling(l, p)
<1>1. CASE ~Deleted(line) /\ p = line.path
  BY <1>1, PathsAfterLine
<1>2. CASE ~Has(after, p) /\ Takes(line, p)
  <2>1. Has(worktree, p)
    BY <1>2 DEF Has
  <2> QED
    BY <1>2, <2>1, TakenFilesAreBrought DEF Settling
<1>3. CASE after[p] = clone[p] /\ ~(~Deleted(line) /\ p = line.path)
  <2>1. PICK l \in lines : Settling(l, p)
    BY <1>3 DEF RestSettles
  <2>2. l # line
    <3>1. SUFFICES ASSUME l = line
                   PROVE  FALSE
      OBVIOUS
    <3>2. ~Has(worktree, p)
      BY <1>3, <2>1, <3>1 DEF Settling, Brings
    <3>3. ~Has(after, p)
      <4>1. line \in Status
        BY DEF RestIsLast, FirstLine
      <4>2. CASE line.path = p /\ Deleted(line)
        <5>1. after = RemovePath(clone, p) /\ clone \in Trees /\ Sound(clone)
          BY <4>2 DEF Becomes, WorktreeTypeOK
        <5> QED
          BY <5>1, RemovedPaths
      <4>3. CASE line.x = "R" /\ line.old = p
        <5>1. ~Deleted(line)
          BY <4>3 DEF Deleted
        <5>2. after = Copy(Cleared(line), line.path) /\ CanCopy(Cleared(line), line.path)
          BY <5>1 DEF Becomes
        <5>3. Cleared(line) = RemovePath(clone, p) /\ clone \in Trees /\ Sound(clone)
          BY <4>3 DEF Cleared, WorktreeTypeOK
        <5>4. Cleared(line) \in Trees /\ Sound(Cleared(line)) /\ ~Has(Cleared(line), p)
          BY <5>3, RemovedPaths
        <5>5. p # line.path
          BY <1>3, <5>1
        <5> QED
          BY <5>2, <5>4, <5>5, CopiedPaths DEF Has
      <4> QED
        BY <2>1, <3>1, <3>2, <4>2, <4>3 DEF Settling
    <3> QED
      BY <3>2, <3>3 DEF Has
  <2> QED
    BY <2>1, <2>2
<1> QED
  BY <1>1, <1>2, <1>3, PathsAfterLine

LEMMA RenamesStillBlock ==
  ASSUME WorktreeTypeOK, unmerged = {}, RestIsLast, RenamesBlock,
         NEW line, FirstLine(line), line.x # "U", line.path \in Paths,
         NEW after, Becomes(line, after),
         NEW e \in lines \ {line}, NEW q \in Paths, e.x = "R", e.old \in Above[q], q # e.path,
         Has(index, q), Has(worktree, q)
  PROVE  Has(after, e.old) /\ \E f \in lines \ {line} : Brings(f, q)
<1>1. PICK f \in lines : Has(clone, e.old) /\ Brings(f, q)
  BY DEF RenamesBlock
<1>2. e \in Status /\ line \in Status
  BY DEF RestIsLast, FirstLine
<1>3. e.old \in Paths /\ Has(head, e.old) /\ ~Has(index, e.old) /\ e.old \in Above[q]
  BY <1>2, RenamesAreLines
<1>4. ASSUME line.x = "R"
      PROVE  line.old # e.old /\ line.old \notin Above[e.old]
  <2>1. line.old # e.old
    BY <1>2, <1>4, RenamesAreLines
  <2>2. Has(head, line.old)
    BY <1>2, <1>4, RenamesAreLines
  <2> QED
    BY <1>3, <2>1, <2>2 DEF WorktreeTypeOK, Sound
<1>5. line.path \notin Above[e.old] \/ (Deleted(line) /\ ~Has(index, line.path))
  <2> SUFFICES ASSUME line.path \in Above[e.old]
               PROVE  Deleted(line) /\ ~Has(index, line.path)
    OBVIOUS
  <2>1. line.path \in Above[q]
    BY <1>3, WorktreeAssumption
  <2>2. ~Has(worktree, line.path) /\ ~Has(index, line.path)
    BY <2>1 DEF WorktreeTypeOK, Sound
  <2> QED
    BY <2>2, PathsAfterLine
<1>6. ~Takes(line, e.old)
  <2>1. CASE Deleted(line) /\ e.old = line.path
    <3>1. Tracked(line.path) /\ Renamed(e.old, e.path) /\ e.path \in Paths
      BY <1>2, <2>1, DeletionsOfStatus, RenamesAreLines
    <3> QED
      BY <2>1, <3>1 DEF Tracked
  <2>2. CASE line.path \in Above[e.old]
    <3>1. Deleted(line) /\ ~Has(index, line.path)
      BY <1>5, <2>2
    <3>2. Has(head, line.path)
      BY <1>2, <3>1, DeletionsOfStatus
    <3> QED
      BY <1>3, <2>2, <3>2 DEF WorktreeTypeOK, Sound
  <2> QED
    BY <1>4, <2>1, <2>2 DEF Takes
<1>7. Has(after, e.old)
  <2>1. CASE ~Deleted(line) /\ e.old = line.path
    BY <2>1, PathsAfterLine DEF Has
  <2>2. CASE after[e.old] = clone[e.old]
    BY <1>1, <2>2 DEF Has
  <2> QED
    BY <1>3, <1>6, <2>1, <2>2, PathsAfterLine
<1>8. f # line
  <2> SUFFICES ASSUME f = line
               PROVE  FALSE
    OBVIOUS
  <2>1. ~Deleted(line) /\ line.path = q
    BY <1>1 DEF Brings
  <2>2. ~Has(Cleared(line), e.old)
    BY <2>1 DEF Becomes, CanCopy
  <2>3. CASE line.x = "R"
    <3>1. Cleared(line)[e.old] = clone[e.old]
      BY <1>3, <1>4, <2>3, RemovedPaths DEF Cleared, WorktreeTypeOK
    <3> QED
      BY <1>1, <2>2, <3>1 DEF Has
  <2>4. CASE line.x # "R"
    BY <1>1, <2>2, <2>4 DEF Cleared
  <2> QED
    BY <2>3, <2>4
<1> QED
  BY <1>1, <1>7, <1>8

\* The status is of the trees.
LEMMA StatusIsKept ==
  ASSUME UNCHANGED <<head, index, worktree, unmerged>>
  PROVE  Status' = Status
<1>1. \A p \in Paths : Staged(p)' = Staged(p) /\ Unstaged(p)' = Unstaged(p)
  BY DEF Staged, Unstaged, Has
<1>2. \A q, p \in Paths : SameFile(q, p)' <=> SameFile(q, p)
  BY <1>1 DEF SameFile
<1>3. \A q, p \in Paths : FirstSame(q, p)' <=> FirstSame(q, p)
  BY <1>2 DEF FirstSame
<1>4. \A q, p \in Paths : Renamed(q, p)' <=> Renamed(q, p)
  BY <1>3 DEF Renamed
<1>5. \A p \in Paths : Tracked(p)' <=> Tracked(p)
  BY <1>1, <1>4 DEF Tracked
<1>6. UntrackedLines' = UntrackedLines
  BY DEF UntrackedLines, Has, Line
<1>7. TrackedLines' = TrackedLines
  <2>1. {Line(Staged(p), Unstaged(p), 0, p) : p \in {q \in Paths : Tracked(q)}}'
          = {Line(Staged(p), Unstaged(p), 0, p) : p \in {q \in Paths : Tracked(q)}}
    BY <1>1, <1>5 DEF Line
  <2>2. {e \in {Line("R", Unstaged(p), q, p) : q, p \in Paths} : Renamed(e.old, e.path)}'
          = {e \in {Line("R", Unstaged(p), q, p) : q, p \in Paths} : Renamed(e.old, e.path)}
    BY <1>1, <1>4 DEF Line
  <2>3. {Line("U", "U", 0, p) : p \in unmerged}' = {Line("U", "U", 0, p) : p \in unmerged}
    BY DEF Line
  <2> QED
    BY <2>1, <2>2, <2>3 DEF TrackedLines
<1> QED
  BY <1>6, <1>7 DEF Status

\* The start of the bundle.
LEMMA StartKeepsWorktree ==
  ASSUME WorktreeIInv, StartBundle
  PROVE  WorktreeIInv'
<1> USE DEF WorktreeIInv
<1>1. /\ making = "none" /\ lines' = Status /\ clone' = head
      /\ UNCHANGED <<head, index, worktree, unmerged, touched>>
  BY DEF StartBundle, repository
<1>2. Status' = Status
  BY <1>1, StatusIsKept
<1>3. WorktreeTypeOK'
  BY <1>1 DEF WorktreeTypeOK, StartBundle
<1>4. PathsOfLines'
  BY <1>1, LinesOfStatus DEF PathsOfLines
<1>5. RestIsLast'
  BY <1>1, <1>2 DEF RestIsLast
<1>6. ASSUME unmerged # {}
      PROVE  \E line \in Status : line.x = "U"
  <2>1. PICK p \in unmerged : TRUE
    BY <1>6
  <2>2. Line("U", "U", 0, p) \in Status
    BY <2>1 DEF Status, TrackedLines
  <2> QED
    BY <2>2 DEF Line
<1>7. ASSUME unmerged = {}
      PROVE  \A p \in Paths : head[p] # worktree[p] => \E line \in Status : Settling(line, p)
  BY <1>7, StatusSettles
<1>8. ASSUME unmerged = {}
      PROVE  RenamesBlock'
  <2>1. ASSUME NEW e \in Status, NEW q \in Paths, e.x = "R", e.old \in Above[q],
               Has(index, q), Has(worktree, q)
        PROVE  Has(head, e.old) /\ \E f \in Status : Brings(f, q)
    <3>1. Has(head, e.old) /\ ~Has(index, e.old)
      BY <2>1, RenamesAreLines
    <3>2. ~Has(head, q)
      BY <2>1, <3>1 DEF WorktreeTypeOK, Sound
    <3>3. Staged(q) # " "
      BY <2>1, <3>2 DEF Staged, Has
    <3> QED
      BY <1>8, <2>1, <3>1, <3>3, ChangedIsBrought
  <2> QED
    BY <1>1, <2>1 DEF RenamesBlock, Has, Brings, Deleted
<1>9. making' = "done" => clone' = worktree'
  <2> SUFFICES ASSUME Status = {}
               PROVE  head = worktree
    BY <1>1 DEF StartBundle
  <2>1. unmerged = {}
    BY <1>6
  <2>2. \A p \in Paths : head[p] = worktree[p]
    BY <1>7, <2>1
  <2> QED
    BY <2>2 DEF WorktreeTypeOK, Trees
<1>10. making' \in {"done", "running"}
  BY DEF StartBundle
<1>11. unmerged = {} => RestSettles'
  BY <1>1, <1>7 DEF RestSettles, Settling, Brings, Deleted, Has
<1> QED
  BY <1>1, <1>3, <1>4, <1>5, <1>6, <1>8, <1>9, <1>10, <1>11
     DEF SnapshotIsWorktree, RefusedForAReason

\* A line that is refused.
LEMMA RefusedLine ==
  ASSUME WorktreeIInv, making = "running", ~touched, NEW line, FirstLine(line),
         line.x = "U" \/ (~Deleted(line) /\ ~CanCopy(Cleared(line), line.path))
  PROVE  \E l \in Status : l.x \in {"U", "R"}
<1> USE DEF WorktreeIInv
<1>1. line \in lines /\ lines \subseteq Status /\ RestIsLast
  BY DEF RestIsLast, FirstLine
<1>2. CASE unmerged # {}
  BY <1>1, <1>2
<1>3. CASE line.x \in {"U", "R"}
  BY <1>1, <1>3
<1>4. CASE unmerged = {} /\ line.x \notin {"U", "R"}
  <2>1. ~CanCopy(clone, line.path) /\ ~Deleted(line)
    BY <1>4 DEF Cleared
  <2>2. line.path \in Paths /\ Has(worktree, line.path)
    BY <1>1, <1>4, <2>1, CopiesHaveFiles
  <2>3. PICK d \in Above[line.path] : Has(clone, d)
    BY <2>1, <2>2 DEF CanCopy
  <2>4. d \in Paths /\ d < line.path
    BY <2>2, WorktreeAssumption
  <2>5. ~Has(worktree, d)
    BY <2>2 DEF WorktreeTypeOK, Sound
  <2>6. PICK l \in lines : Settling(l, d)
    BY <1>4, <2>3, <2>4, <2>5 DEF RestSettles, Has
  <2>7. CASE l.path = d /\ Deleted(l)
    <3>1. l.x # "?"
      BY <1>1, <1>4, <2>7, DeletionsOfStatus
    <3>2. Comes(l, line)
      BY <2>4, <2>7, <3>1 DEF Comes
    <3> QED
      BY <1>1, <3>2, FirstIsFirst
  <2> QED
    BY <1>1, <2>5, <2>6, <2>7 DEF Settling
<1> QED
  BY <1>2, <1>3, <1>4

\* A line that is applied.
LEMMA ApplyKeepsWorktree ==
  ASSUME WorktreeIInv, ApplyLine
  PROVE  WorktreeIInv'
<1> USE DEF WorktreeIInv
<1>1. /\ making = "running"
      /\ UNCHANGED <<head, index, worktree, unmerged, touched>>
  BY DEF ApplyLine, repository
<1>2. Status' = Status
  BY <1>1, StatusIsKept
<1>3. PICK line \in lines :
        /\ \A other \in lines \ {line} : Comes(line, other)
        /\ \/ /\ line.x = "U" \/ (~Deleted(line) /\ ~CanCopy(Cleared(line), line.path))
              /\ making' = "refused"
              /\ UNCHANGED <<lines, clone>>
           \/ /\ line.x # "U"
              /\ Becomes(line, clone')
              /\ lines' = lines \ {line}
              /\ UNCHANGED making
  BY DEF ApplyLine, Becomes
<1>4. FirstLine(line) /\ line.path \in Paths
  BY <1>3 DEF FirstLine, PathsOfLines
<1>5. CASE /\ line.x = "U" \/ (~Deleted(line) /\ ~CanCopy(Cleared(line), line.path))
           /\ making' = "refused"
           /\ UNCHANGED <<lines, clone>>
  <2>1. WorktreeTypeOK' /\ PathsOfLines'
    BY <1>1, <1>5 DEF WorktreeTypeOK, PathsOfLines
  <2>2. ~touched => \E l \in Status : l.x \in {"U", "R"}
    BY <1>1, <1>4, <1>5, RefusedLine
  <2> QED
    BY <1>1, <1>2, <1>5, <2>1, <2>2 DEF SnapshotIsWorktree, RefusedForAReason
<1>6. CASE /\ line.x # "U"
           /\ Becomes(line, clone')
           /\ lines' = lines \ {line}
           /\ UNCHANGED making
  <2>1. clone' \in Trees /\ Sound(clone')
    BY <1>4, <1>6, PathsAfterLine
  <2>2. WorktreeTypeOK'
    BY <1>1, <1>6, <2>1 DEF WorktreeTypeOK
  <2>3. PathsOfLines'
    BY <1>6 DEF PathsOfLines
  <2>4. ASSUME ~touched
        PROVE  /\ RestIsLast'
               /\ unmerged # {} => \E l \in lines' : l.x = "U"
    BY <1>1, <1>2, <1>4, <1>6, <2>4, RestStaysLast DEF RestIsLast
  <2>5. ASSUME ~touched, unmerged = {}
        PROVE  RestSettles'
    <3>1. \A p \in Paths : clone'[p] # worktree[p] => \E l \in lines \ {line} : Settling(l, p)
      BY <1>1, <1>4, <1>6, <2>5, RestStillSettles
    <3> QED
      BY <1>1, <1>6, <3>1 DEF RestSettles, Settling, Brings, Deleted, Has
  <2>6. ASSUME ~touched, unmerged = {}
        PROVE  RenamesBlock'
    <3>1. \A e \in lines \ {line}, q \in Paths :
            (e.x = "R" /\ e.old \in Above[q] /\ q # e.path /\ Has(index, q) /\ Has(worktree, q)) =>
                Has(clone', e.old) /\ \E f \in lines \ {line} : Brings(f, q)
      BY <1>1, <1>4, <1>6, <2>6, RenamesStillBlock
    <3> QED
      BY <1>1, <1>6, <3>1 DEF RenamesBlock, Brings, Deleted, Has
  <2> QED
    BY <1>1, <1>6, <2>2, <2>3, <2>4, <2>5, <2>6 DEF SnapshotIsWorktree, RefusedForAReason
<1> QED
  BY <1>3, <1>5, <1>6

\* The commit of the snapshot.
LEMMA SnapshotKeepsWorktree ==
  ASSUME WorktreeIInv, Snapshot
  PROVE  WorktreeIInv'
<1> USE DEF WorktreeIInv
<1>1. /\ making = "running" /\ lines = {} /\ making' = "done"
      /\ UNCHANGED <<head, index, worktree, unmerged, lines, clone, touched>>
  BY DEF Snapshot, repository
<1>2. ~touched => clone = worktree
  <2> SUFFICES ASSUME ~touched
               PROVE  clone = worktree
    OBVIOUS
  <2>1. unmerged = {} /\ RestSettles
    BY <1>1
  <2>2. \A p \in Paths : clone[p] = worktree[p]
    BY <1>1, <2>1 DEF RestSettles
  <2> QED
    BY <2>2 DEF WorktreeTypeOK, Trees
<1>3. WorktreeTypeOK' /\ PathsOfLines'
  BY <1>1 DEF WorktreeTypeOK, PathsOfLines
<1> QED
  BY <1>1, <1>2, <1>3 DEF SnapshotIsWorktree, RefusedForAReason

\* What the user does.
LEMMA EditsKeepWorktree ==
  ASSUME WorktreeIInv, Edit, WorktreeTypeOK'
  PROVE  WorktreeIInv'
<1> USE DEF WorktreeIInv
<1>1. /\ making \in {"none", "running"} /\ touched' = (making = "running")
      /\ UNCHANGED <<making, lines, clone>>
  BY DEF Edit
<1>2. PathsOfLines'
  BY <1>1 DEF PathsOfLines
<1> QED
  BY <1>1, <1>2 DEF SnapshotIsWorktree, RefusedForAReason

LEMMA EditsKeepTrees ==
  ASSUME WorktreeTypeOK,
         \/ \E p \in Paths, c \in Contents \union {NoFile} : EditFile(p, c)
         \/ \E p \in Paths : GitAdd(p) \/ GitConflict(p)
         \/ GitCommit
  PROVE  Edit /\ WorktreeTypeOK'
<1> USE DEF WorktreeTypeOK
<1>1. ASSUME NEW p \in Paths, NEW c \in Contents \union {NoFile}, EditFile(p, c)
      PROVE  Edit /\ WorktreeTypeOK'
  <2>1. worktree' \in Trees /\ Sound(worktree')
    BY <1>1 DEF EditFile, Put, Trees
  <2> QED
    BY <1>1, <2>1 DEF EditFile, Edit
<1>2. ASSUME NEW p \in Paths, GitAdd(p)
      PROVE  Edit /\ WorktreeTypeOK'
  <2> DEFINE InTheWay(q) == Has(worktree, p) /\ (q \in Above[p] \/ p \in Above[q])
             added == [q \in Paths |-> IF q = p THEN worktree[p]
                                       ELSE IF InTheWay(q) THEN NoFile ELSE index[q]]
  <2>1. index' \in {added, Put(index, p, NoFile)}
    BY <1>2 DEF GitAdd
  <2>2. added \in Trees /\ Put(index, p, NoFile) \in Trees
    BY DEF Trees, Put
  <2>3. Sound(added)
    <3> SUFFICES ASSUME NEW q \in Paths, Has(added, q), NEW d \in Above[q], Has(added, d)
                 PROVE  FALSE
      BY DEF Sound
    <3>1. d \in Paths /\ d # q
      BY WorktreeAssumption
    <3>2. CASE q = p
      BY <3>1, <3>2 DEF Has
    <3>3. CASE d = p
      BY <3>1, <3>3 DEF Has
    <3>4. CASE q # p /\ d # p
      <4>1. Has(index, q) /\ Has(index, d)
        BY <3>1, <3>4 DEF Has
      <4> QED
        BY <4>1 DEF Sound
    <3> QED
      BY <3>2, <3>3, <3>4
  <2>4. Sound(Put(index, p, NoFile))
    <3>1. \A q \in Paths : Has(Put(index, p, NoFile), q) => Has(index, q)
      BY DEF Put, Has, Trees
    <3> QED
      BY <3>1, WorktreeAssumption DEF Sound
  <2>5. index' \in Trees /\ Sound(index')
    BY <2>1, <2>2, <2>3, <2>4
  <2> QED
    BY <1>2, <2>5 DEF GitAdd, Edit
<1>3. ASSUME NEW p \in Paths, GitConflict(p)
      PROVE  Edit /\ WorktreeTypeOK'
  BY <1>3 DEF GitConflict, Edit
<1>4. ASSUME GitCommit
      PROVE  Edit /\ WorktreeTypeOK'
  BY <1>4 DEF GitCommit, Edit
<1> QED
  BY <1>1, <1>2, <1>3, <1>4

\* The commit that is deployed has the files of the worktree, whatever was added, deleted,
\* renamed or put in the place of a directory, and a worktree is refused for a conflict or a
\* rename only (create_bundle).
THEOREM WorktreesAreBundled == WorktreeSpec => []WorktreeInv
<1>1. WorktreeInit => WorktreeIInv
  <2> SUFFICES ASSUME WorktreeInit
               PROVE  WorktreeIInv
    OBVIOUS
  <2> QED
    BY WorktreeAssumption DEF WorktreeInit, WorktreeIInv, WorktreeTypeOK, PathsOfLines,
                              SnapshotIsWorktree, RefusedForAReason
<1>2. WorktreeIInv /\ [WorktreeNext]_worktreeVars => WorktreeIInv'
  <2> SUFFICES ASSUME WorktreeIInv, [WorktreeNext]_worktreeVars
               PROVE  WorktreeIInv'
    OBVIOUS
  <2>1. CASE StartBundle
    BY <2>1, StartKeepsWorktree
  <2>2. CASE ApplyLine
    BY <2>2, ApplyKeepsWorktree
  <2>3. CASE Snapshot
    BY <2>3, SnapshotKeepsWorktree
  <2>4. CASE \/ \E p \in Paths, c \in Contents \union {NoFile} : EditFile(p, c)
             \/ \E p \in Paths : GitAdd(p) \/ GitConflict(p)
             \/ GitCommit
    <3>1. Edit /\ WorktreeTypeOK'
      BY <2>4, EditsKeepTrees DEF WorktreeIInv
    <3> QED
      BY <3>1, EditsKeepWorktree
  <2>5. CASE UNCHANGED worktreeVars
    <3>1. UNCHANGED <<head, index, worktree, unmerged, making, lines, clone, touched>>
      BY <2>5 DEF worktreeVars, repository
    <3>2. Status' = Status
      BY <3>1, StatusIsKept
    <3>3. RestIsLast' = RestIsLast /\ PathsOfLines' = PathsOfLines
      BY <3>1, <3>2 DEF RestIsLast, PathsOfLines
    <3>4. RestSettles => RestSettles'
      BY <3>1 DEF RestSettles, Settling, Brings, Deleted, Has
    <3>5. RenamesBlock => RenamesBlock'
      BY <3>1 DEF RenamesBlock, Brings, Deleted, Has
    <3>6. WorktreeTypeOK'
      BY <3>1 DEF WorktreeIInv, WorktreeTypeOK
    <3> QED
      BY <3>1, <3>2, <3>3, <3>4, <3>5, <3>6
         DEF WorktreeIInv, SnapshotIsWorktree, RefusedForAReason
  <2> QED
    BY <2>1, <2>2, <2>3, <2>4, <2>5 DEF WorktreeNext
<1>3. WorktreeIInv => WorktreeInv
  BY DEF WorktreeIInv, WorktreeInv
<1> QED
  BY <1>1, <1>2, <1>3, PTL DEF WorktreeSpec
=============================================================================
