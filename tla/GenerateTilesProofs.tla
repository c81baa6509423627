------------------------ MODULE GenerateTilesProofs ------------------------
(***************************************************************************)
(* Proofs about GenerateTiles for every number of CCDs, every set of       *)
(* generators, any number of slots and retries, and any number of crashes  *)
(* and faults: the workers use the dispatcher as it is specified, and the  *)
(* job keeps the promise of TileGeneration.                                *)
(***************************************************************************)
EXTENDS GenerateTiles, SequenceTheorems, FiniteSetTheorems, TLAPS

-----------------------------------------------------------------------------
(* The dispatcher by itself, whoever calls it. *)

\* A function on 1..n is a sequence of length n (for the submissions that
\* on_generator_lost and the passing of time rewrite in place).
LEMMA FunctionIsSeq ==
    ASSUME NEW S, NEW n \in Nat, NEW f \in [1..n -> S]
    PROVE  f \in Seq(S) /\ Len(f) = n
<1>1. f \in Seq(S)
  BY SeqDef
<1>2. DOMAIN f = 1..Len(f) /\ Len(f) \in Nat
  BY <1>1, LenProperties
<1>3. DOMAIN f = 1..n
  OBVIOUS
<1>4. 1..n = 1..Len(f)
  BY <1>2, <1>3
<1>5. n = Len(f)
  BY <1>2, <1>4
<1> QED
  BY <1>1, <1>5

\* A new dispatcher is well typed.
LEMMA DispatcherStartInv == DispatcherInit => DispatcherTypeOK
<1> USE NumCcdsAssumption, NoGeneratorAssumption,
            MaxAttemptsAssumption DEF Ccds, Submission
<1> SUFFICES ASSUME DispatcherInit PROVE DispatcherTypeOK
  OBVIOUS
<1>1. submitted \in Seq(Submission) /\ Len(submitted) = 0
  BY EmptySeq DEF DispatcherInit
<1>2. owner \in [Ccds -> Generators \union {NoGenerator}] /\ attempts \in [Ccds -> Nat]
  BY DEF DispatcherInit
<1>3. remainingIndex = 0 /\ remainingIndex \in 0..NumCcds /\ phase2Index \in 0..NumCcds
  BY DEF DispatcherInit
<1>4. activeGenerators \subseteq Generators /\ allCompleted \in BOOLEAN
  BY DEF DispatcherInit
<1>5. Len(submitted) = remainingIndex
  BY <1>1, <1>3
<1> QED
  BY <1>1, <1>2, <1>3, <1>4, <1>5, Zenon DEF DispatcherTypeOK

\* Every method keeps the types.
LEMMA DispatcherTypesKept ==
    ASSUME DispatcherTypeOK, [DispatcherNext]_dispatcherVars
    PROVE  DispatcherTypeOK'
<1> USE NumCcdsAssumption, NoGeneratorAssumption,
            MaxAttemptsAssumption DEF Ccds, Submission
<1> USE DEF DispatcherTypeOK
<1>1. ASSUME NEW g \in Generators, RecordGeneratorStart(g)
      PROVE  DispatcherTypeOK'
  BY <1>1 DEF RecordGeneratorStart
<1>2. ASSUME NEW g \in Generators, OnGeneratorLost(g)
      PROVE  DispatcherTypeOK'
  <2>1. submitted' \in Seq(Submission) /\ Len(submitted') = Len(submitted)
    <3>1. submitted \in [1..Len(submitted) -> Submission] /\ Len(submitted) \in Nat
      BY LenProperties
    <3>2. submitted' \in [1..Len(submitted) -> Submission]
      BY <1>2, <3>1 DEF OnGeneratorLost
    <3> QED
      BY <3>1, <3>2, FunctionIsSeq
  <2> QED
    BY <1>2, <2>1 DEF OnGeneratorLost
<1>3. ASSUME NEW g \in Generators, NEW c \in Ccds, Phase1Assign(g, c)
      PROVE  DispatcherTypeOK'
  BY <1>3 DEF Phase1Assign, Phase1
<1>4. ASSUME NEW c \in Ccds, Phase2Resubmit(c)
      PROVE  DispatcherTypeOK'
  <2>1. Len(submitted) = NumCcds /\ NumCcds > 0
    BY <1>4 DEF Phase2Resubmit
  <2>2. phase2Index' \in 0..NumCcds
    BY <1>4, <2>1 DEF Phase2Resubmit
  <2> QED
    BY <1>4, <2>2 DEF Phase2Resubmit
<1>5. ASSUME NEW g \in Generators, NEW c \in DOMAIN submitted, OnCcdCompleted(c, g)
      PROVE  DispatcherTypeOK'
  <2>1. c \in Ccds
    OBVIOUS
  <2> QED
    BY <1>5, <2>1 DEF OnCcdCompleted
<1>6. ASSUME NEW c \in DOMAIN submitted, ReturnUnassignedCcd(c)
      PROVE  DispatcherTypeOK'
  BY <1>6 DEF ReturnUnassignedCcd
<1>7. ASSUME NEW i \in Ccds, GrowOld(i)
      PROVE  DispatcherTypeOK'
  <2>1. submitted' \in Seq(Submission) /\ Len(submitted') = Len(submitted)
    <3>1. submitted \in [1..Len(submitted) -> Submission] /\ Len(submitted) \in Nat
      BY LenProperties
    <3>2. submitted' \in [1..Len(submitted) -> Submission]
      BY <1>7, <3>1 DEF GrowOld
    <3> QED
      BY <3>1, <3>2, FunctionIsSeq
  <2> QED
    BY <1>7, <2>1 DEF GrowOld
<1>8. CASE UNCHANGED dispatcherVars
  BY <1>8 DEF dispatcherVars
<1> QED
  BY <1>1, <1>2, <1>3, <1>4, <1>5, <1>6, <1>7, <1>8 DEF DispatcherNext, GetNextCcd

\* Type correctness of every reachable state of the dispatcher.
THEOREM DispatcherTypeCorrect == DispatcherSpec => []DispatcherTypeOK
<1>1. DispatcherTypeOK /\ [DispatcherNext]_(dispatcherVars) => DispatcherTypeOK'
  BY DispatcherTypesKept DEF dispatcherVars
<1> QED
  BY <1>1, DispatcherStartInv, PTL DEF DispatcherSpec

-----------------------------------------------------------------------------
\* What makes CompletionIsExact, AttemptsBounded and NoResubmitBeforeAllSubmitted
\* inductive: each of them speaks about the CCDs handed out, and these are
\* exactly the first remainingIndex ones.
DispatcherInv ==
    /\ DispatcherTypeOK
    /\ CompletionIsExact
    /\ AttemptsBounded
    /\ NoResubmitBeforeAllSubmitted

\* A CCD that is neither owned nor completed now becomes completed only by
\* on_ccd_completed; every other method leaves `owner` alone.
LEMMA CompletedUnchanged ==
    ASSUME owner' = owner
    PROVE  Completed' = Completed
BY DEF Completed

\* DispatcherInv is inductive.
LEMMA DispatcherInvStep == DispatcherInv /\ DispatcherTypeOK' /\ [DispatcherNext]_dispatcherVars => DispatcherInv'
<1> USE NumCcdsAssumption, NoGeneratorAssumption,
            MaxAttemptsAssumption DEF Ccds
<1> SUFFICES ASSUME DispatcherInv, DispatcherTypeOK', [DispatcherNext]_dispatcherVars
             PROVE  DispatcherInv'
  OBVIOUS
<1> USE DEF DispatcherInv
<1>1. ASSUME owner' = owner, allCompleted' = allCompleted,
             attempts' = attempts, remainingIndex' = remainingIndex
      PROVE  DispatcherInv'
  <2>1. Completed' = Completed
    BY <1>1, CompletedUnchanged
  <2> QED
    BY <1>1, <2>1 DEF CompletionIsExact, AttemptsBounded, NoResubmitBeforeAllSubmitted
<1>2. ASSUME NEW g \in Generators, NEW c \in Ccds, Phase1Assign(g, c)
      PROVE  DispatcherInv'
  <2>1. Completed' = Completed /\ attempts[c] = 0 /\ c = remainingIndex + 1
    BY <1>2, CompletedUnchanged DEF Phase1Assign, NoResubmitBeforeAllSubmitted, DispatcherTypeOK
  <2>2. attempts' = [attempts EXCEPT ![c] = 1] /\ remainingIndex' = remainingIndex + 1
        /\ allCompleted' = allCompleted /\ remainingIndex < NumCcds
    BY <1>2, <2>1 DEF Phase1Assign, Phase1
  <2>3. CompletionIsExact'
    BY <2>1, <2>2 DEF CompletionIsExact
  <2>4. AttemptsBounded'
    BY <2>1, <2>2 DEF AttemptsBounded, AttemptCap, DispatcherTypeOK
  <2>5. NoResubmitBeforeAllSubmitted'
    BY <2>1, <2>2 DEF NoResubmitBeforeAllSubmitted, DispatcherTypeOK
  <2> QED
    BY <2>3, <2>4, <2>5
<1>3. ASSUME NEW c \in Ccds, Phase2Resubmit(c)
      PROVE  DispatcherInv'
  <2>1. Completed' = Completed /\ allCompleted' = allCompleted
    BY <1>3, CompletedUnchanged DEF Phase2Resubmit
  <2>2. MaxAttempts > 0 /\ attempts[c] <= MaxAttempts /\ remainingIndex = NumCcds
        /\ remainingIndex' = remainingIndex /\ attempts' = [attempts EXCEPT ![c] = @ + 1]
    BY <1>3 DEF Phase2Resubmit, Resubmittable, DispatcherTypeOK
  <2>3. CompletionIsExact'
    BY <2>1 DEF CompletionIsExact
  <2>4. AttemptsBounded'
    BY <2>2 DEF AttemptsBounded, AttemptCap, DispatcherTypeOK
  <2>5. NoResubmitBeforeAllSubmitted'
    BY <2>1, <2>2 DEF NoResubmitBeforeAllSubmitted, DispatcherTypeOK
  <2> QED
    BY <2>3, <2>4, <2>5
<1>4. ASSUME NEW g \in Generators, NEW c \in DOMAIN submitted, OnCcdCompleted(c, g)
      PROVE  DispatcherInv'
  <2>1. c \in Ccds /\ c <= remainingIndex /\ attempts' = attempts /\ remainingIndex' = remainingIndex
    BY <1>4 DEF OnCcdCompleted, DispatcherTypeOK
  <2>2. CASE c \in Completed
    BY <1>1, <1>4, <2>1, <2>2 DEF OnCcdCompleted
  <2>3. CASE c \notin Completed
    <3>1. Completed' = Completed \union {c}
      BY <1>4, <2>1, <2>3 DEF OnCcdCompleted, Completed, DispatcherTypeOK
    <3>2. allCompleted' = (allCompleted \/ Completed' = Ccds)
      BY <1>4, <2>3, <3>1 DEF OnCcdCompleted
    <3>3. ~allCompleted
      BY <2>1, <2>3 DEF CompletionIsExact
    <3>4. CompletionIsExact'
      <4>1. NumCcds > 0
        BY <2>1
      <4>2. allCompleted' <=> Completed' = Ccds
        BY <3>2, <3>3, Zenon
      <4> QED
        BY <4>1, <4>2, Zenon DEF CompletionIsExact
    <3>5. AttemptsBounded' /\ NoResubmitBeforeAllSubmitted'
      BY <2>1, <3>1 DEF AttemptsBounded, AttemptCap, NoResubmitBeforeAllSubmitted, DispatcherTypeOK
    <3> QED
      BY <3>4, <3>5
  <2> QED
    BY <2>2, <2>3
<1>5. ASSUME NEW c \in DOMAIN submitted, ReturnUnassignedCcd(c)
      PROVE  DispatcherInv'
  <2>1. Completed' = Completed /\ allCompleted' = allCompleted /\ remainingIndex' = remainingIndex
    BY <1>5, CompletedUnchanged DEF ReturnUnassignedCcd
  <2>2. c \in Ccds /\ \A d \in Ccds : attempts'[d] <= attempts[d] /\ attempts'[d] \in Nat
    BY <1>5 DEF ReturnUnassignedCcd, DispatcherTypeOK
  <2>3. CompletionIsExact'
    BY <2>1 DEF CompletionIsExact
  <2>4. AttemptsBounded'
    BY <2>2 DEF AttemptsBounded, AttemptCap, DispatcherTypeOK
  <2>5. NoResubmitBeforeAllSubmitted'
    BY <2>1, <2>2 DEF NoResubmitBeforeAllSubmitted, DispatcherTypeOK
  <2> QED
    BY <2>3, <2>4, <2>5
<1>6. ASSUME NEW g \in Generators, RecordGeneratorStart(g) \/ OnGeneratorLost(g)
      PROVE  DispatcherInv'
  BY <1>1, <1>6 DEF RecordGeneratorStart, OnGeneratorLost
<1>7. ASSUME NEW i \in Ccds, GrowOld(i)
      PROVE  DispatcherInv'
  BY <1>1, <1>7 DEF GrowOld
<1>8. CASE UNCHANGED dispatcherVars
  BY <1>1, <1>8 DEF dispatcherVars
<1> QED
  BY <1>2, <1>3, <1>4, <1>5, <1>6, <1>7, <1>8 DEF DispatcherNext, GetNextCcd

\* DispatcherInv holds initially.
LEMMA DispatcherInvInit == DispatcherInit /\ DispatcherTypeOK => DispatcherInv
<1> SUFFICES ASSUME DispatcherInit, DispatcherTypeOK PROVE DispatcherInv
  OBVIOUS
<1>1. Completed = {} /\ \A c \in Ccds : attempts[c] = 0
  BY DEF DispatcherInit, Completed
<1>2. ~allCompleted
  BY DEF DispatcherInit
<1>3. NumCcds > 0 => 1 \in Ccds
  BY NumCcdsAssumption, NoGeneratorAssumption,
            MaxAttemptsAssumption DEF Ccds
<1>4. CompletionIsExact
  BY <1>1, <1>2, <1>3 DEF CompletionIsExact
<1>5. AttemptsBounded
  BY <1>1, NumCcdsAssumption, NoGeneratorAssumption,
            MaxAttemptsAssumption DEF AttemptsBounded, AttemptCap
<1>6. NoResubmitBeforeAllSubmitted
  BY <1>1 DEF NoResubmitBeforeAllSubmitted
<1> QED
  BY <1>4, <1>5, <1>6 DEF DispatcherInv

\* DispatcherInv holds in every reachable state.
LEMMA DispatcherInvariant == DispatcherSpec => []DispatcherInv
<1>1. DispatcherInit /\ DispatcherTypeOK => DispatcherInv
  BY DispatcherInvInit
<1>2. DispatcherInv /\ DispatcherTypeOK' /\ [DispatcherNext]_(dispatcherVars) => DispatcherInv'
  BY DispatcherInvStep DEF dispatcherVars
<1> QED
  BY <1>1, <1>2, DispatcherTypeCorrect, PTL DEF DispatcherSpec

\* The coordinator is woken exactly when the last CCD is completed.
THEOREM CompletionExact == DispatcherSpec => []CompletionIsExact
<1>1. DispatcherInv => CompletionIsExact
  BY DEF DispatcherInv
<1> QED
  BY <1>1, DispatcherInvariant, PTL

\* The handings-out of a CCD that were not given back never exceed the attempt limit of
\* get_next_ccd.
THEOREM AttemptLimit == DispatcherSpec => []AttemptsBounded
<1>1. DispatcherInv => AttemptsBounded
  BY DEF DispatcherInv
<1> QED
  BY <1>1, DispatcherInvariant, PTL

\* Phase 2 never starts before phase 1 has handed every CCD out.
THEOREM PhasesInOrder == DispatcherSpec => []NoResubmitBeforeAllSubmitted
<1>1. DispatcherInv => NoResubmitBeforeAllSubmitted
  BY DEF DispatcherInv
<1> QED
  BY <1>1, DispatcherInvariant, PTL

\* The first generator to complete a CCD stays its owner.
THEOREM FirstCompletionStays == DispatcherSpec => FirstCompletionWins
<1>1. DispatcherTypeOK /\ [DispatcherNext]_(dispatcherVars)
        => [\A c \in Completed : owner'[c] = owner[c]]_(dispatcherVars)
  <2> SUFFICES ASSUME DispatcherTypeOK, DispatcherNext, NEW c \in Completed
               PROVE  owner'[c] = owner[c]
    OBVIOUS
  <2>1. ASSUME NEW d \in Ccds, NEW g \in Generators, OnCcdCompleted(d, g)
        PROVE  owner'[c] = owner[c]
    BY <2>1 DEF OnCcdCompleted, DispatcherTypeOK, Completed
  <2>2. DOMAIN submitted \subseteq Ccds
    BY NumCcdsAssumption, NoGeneratorAssumption,
            MaxAttemptsAssumption DEF DispatcherTypeOK, Ccds
  <2> QED
    BY <2>1, <2>2 DEF DispatcherNext, GetNextCcd, RecordGeneratorStart, OnGeneratorLost,
                      Phase1Assign, Phase2Resubmit, ReturnUnassignedCcd, GrowOld
<1> QED
  BY <1>1, DispatcherTypeCorrect, PTL DEF DispatcherSpec, FirstCompletionWins

-----------------------------------------------------------------------------
(* The dispatcher of a job. *)

\* What was handed out stays handed out.
LEMMA SubmittedGrows ==
    ASSUME DispatcherTypeOK, [DispatcherNext]_dispatcherVars
    PROVE  DOMAIN submitted \subseteq DOMAIN submitted'
<1>1. DispatcherTypeOK'
  BY DispatcherTypesKept
<1>2. DOMAIN submitted = 1..remainingIndex /\ DOMAIN submitted' = 1..remainingIndex'
  BY <1>1, LenProperties DEF DispatcherTypeOK
<1>3. remainingIndex \in Nat /\ remainingIndex' \in {remainingIndex, remainingIndex + 1}
  <2>1. \A g, c : Phase1Assign(g, c) => remainingIndex' = remainingIndex + 1
    BY DEF Phase1Assign
  <2>2. /\ \A g : RecordGeneratorStart(g) => UNCHANGED remainingIndex
        /\ \A c : Phase2Resubmit(c) => UNCHANGED remainingIndex
        /\ \A c, g : OnCcdCompleted(c, g) => UNCHANGED remainingIndex
        /\ \A c : ReturnUnassignedCcd(c) => UNCHANGED remainingIndex
    BY DEF RecordGeneratorStart, Phase2Resubmit, OnCcdCompleted,
       ReturnUnassignedCcd
  <2>3. \A g : OnGeneratorLost(g) => UNCHANGED remainingIndex
    BY Zenon DEF OnGeneratorLost
  <2>4. \A i : GrowOld(i) => UNCHANGED remainingIndex
    BY Zenon DEF GrowOld
  <2> QED
    BY <2>1, <2>2, <2>3, <2>4 DEF DispatcherTypeOK, DispatcherNext, GetNextCcd, dispatcherVars
<1> QED
  BY <1>2, <1>3

-----------------------------------------------------------------------------
(* The inductive invariant. *)

\* A CCD in the hands of a session or of a worker was handed out by the dispatcher.
Handed ==
    /\ \A g \in Generators, c \in Ccds :
          working[g][c] > 0 \/ results[g][c] > 0 => c \in DOMAIN submitted
    /\ \A g \in Generators : pending[g] \in Ccds => pending[g] \in DOMAIN submitted
    /\ \A r \in returning : r[2] \in DOMAIN submitted

\* Before and after the job no worker has a session, and its generator has no CCD
\* that a session would report.
AtRest ==
    ~Running =>
        \A g \in Generators :
            /\ pc[g] \in (IF outcome = "idle" THEN {"none"} ELSE {"none", "stop", "done"})
            /\ session[g] = "none"
            /\ working[g] = Nothing /\ results[g] = Nothing

\* A generator that lives has the tiles of what it reported.
ReportedHasTiles ==
    \A g \in alive : \A c \in Ccds : results[g][c] > 0 => c \in tiles[g]

\* A worker that is not about to end has a try left.
TriesLeft ==
    \A g \in Generators : pc[g] \notin {"stop", "done"} => failures[g] < MaxConnectRetries

IInv == TypeOK /\ Handed /\ AtRest /\ ReportedHasTiles /\ OwnerHasTiles /\ TriesLeft

\* Before the job nothing is handed out.
LEMMA InitIInv == Init => IInv
<1> SUFFICES ASSUME Init PROVE IInv
  OBVIOUS
<1> USE NumCcdsAssumption, NoGeneratorAssumption,
            MaxAttemptsAssumption, MaxConcurrentAssumption, MaxConnectRetriesAssumption,
        MaxFaultsAssumption, NoCcdAssumption DEF Ccds
<1>1. DispatcherTypeOK
  BY DispatcherStartInv DEF Init
<1>2. TypeOK
  <2>1. Nothing \in [Ccds -> Nat]
    BY DEF Nothing
  <2>2. /\ working \in [Generators -> [Ccds -> Nat]]
        /\ results \in [Generators -> [Ccds -> Nat]]
    BY <2>1 DEF Init
  <2>3. /\ zombies \in [Generators -> SUBSET Ccds]
        /\ tiles \in [Generators -> SUBSET Ccds]
        /\ session \in [Generators -> {"none", "open", "broken"}]
    BY DEF Init
  <2>4. /\ slots \in [Generators -> 0..MaxConcurrent]
        /\ failures \in [Generators -> 0..MaxConnectRetries]
        /\ waits \in [Generators -> Nat]
        /\ faults \in 0..MaxFaults
    BY DEF Init
  <2>5. /\ pc \in [Generators -> {"none", "connect", "batch", "first", "serve", "assign",
                                  "between", "retry", "stop", "done"}]
        /\ batchSent \in [Generators -> BOOLEAN]
        /\ pending \in [Generators -> Ccds \union {NoCcd}]
    BY DEF Init
  <2>6. /\ outcome \in {"idle", "running", "completed", "failed"}
        /\ workerError \in BOOLEAN /\ saved \subseteq Generators
        /\ returning \subseteq Generators \X Ccds /\ lostTasks \subseteq Generators
        /\ available \subseteq Generators /\ alive \subseteq Generators
    BY DEF Init
  <2> QED
    BY <1>1, <2>2, <2>3, <2>4, <2>5, <2>6, Zenon DEF TypeOK
<1>3. Handed /\ ReportedHasTiles
  BY DEF Init, Handed, ReportedHasTiles, Nothing
<1>4. AtRest /\ TriesLeft
  BY DEF Init, AtRest, TriesLeft
<1>5. OwnerHasTiles
  <2>1. owner = [c \in 1..NumCcds |-> NoGenerator]
    BY DEF Init, DispatcherInit, Ccds
  <2> QED
    BY <2>1 DEF OwnerHasTiles, Owned, Init
<1> QED
  BY <1>2, <1>3, <1>4, <1>5 DEF IInv

-----------------------------------------------------------------------------
(* Every step is a call of the dispatcher, or leaves it alone. *)

\* The calls that the workers make are steps of the dispatcher.
LEMMA Calls ==
    /\ \A g \in Generators : RecordGeneratorStart(g) => DispatcherNext
    /\ \A g \in Generators : OnGeneratorLost(g) => DispatcherNext
    /\ \A g \in Generators, c \in Ccds : GetNextCcd(g, c) => DispatcherNext
    /\ \A g \in Generators, c \in DOMAIN submitted : OnCcdCompleted(c, g) => DispatcherNext
    /\ \A c \in DOMAIN submitted : ReturnUnassignedCcd(c) => DispatcherNext
    /\ \A c \in Ccds : GrowOld(c) => DispatcherNext
BY Zenon DEF DispatcherNext, Ccds, Ccds

\* The steps of the workers that call it, and with what.
LEMMA DispatcherStep == IInv /\ [Next]_vars => [DispatcherNext]_dispatcherVars
<1> SUFFICES ASSUME IInv, [Next]_vars PROVE [DispatcherNext]_dispatcherVars
  OBVIOUS
<1>1. ASSUME NEW g \in Generators, WorkerStep(g)
      PROVE  [DispatcherNext]_dispatcherVars
  <2>1. CASE Connect(g)
    BY <2>1, Calls DEF Connect
  <2>2. CASE ConnectFails(g)
    BY <2>2, Calls DEF ConnectFails
  <2>3. CASE Retry(g) \/ BatchEnds(g) \/ ReceiveError(g) \/ SessionEnds(g)
    BY <2>3 DEF Retry, BatchEnds, ReceiveError, SessionEnds
  <2>4. CASE BatchNext(g)
    BY <2>4, Calls DEF BatchNext
  <2>5. CASE AssignFirst(g)
    BY <2>5, Calls DEF AssignFirst
  <2>6. CASE AssignNext(g)
    BY <2>6, Calls DEF AssignNext
  <2>7. CASE FetchForNewSession(g)
    BY <2>7, Calls DEF FetchForNewSession
  <2>8. CASE StopReturns(g)
    <3>1. pending[g] \in DOMAIN submitted
      BY <2>8 DEF StopReturns, IInv, Handed, TypeOK
    <3> QED
      BY <2>8, <3>1, Calls DEF StopReturns
  <2>9. CASE Stop(g)
    BY <2>9, Calls DEF Stop
  <2>10. ASSUME NEW c \in Ccds, ReceiveCompleted(g, c)
         PROVE  [DispatcherNext]_dispatcherVars
    <3>1. c \in DOMAIN submitted
      BY <2>10 DEF ReceiveCompleted, IInv, Handed
    <3> QED
      BY <2>10, <3>1, Calls DEF ReceiveCompleted
  <2> QED
    BY <1>1, <2>1, <2>2, <2>3, <2>4, <2>5, <2>6, <2>7, <2>8, <2>9, <2>10 DEF WorkerStep
<1>2. CASE Start \/ Complete \/ Fail
  BY <1>2 DEF Start, Complete, Fail, CancelWorkers
<1>3. ASSUME NEW g \in Generators, WaitTask(g)
      PROVE  [DispatcherNext]_dispatcherVars
  BY <1>3, Calls DEF WaitTask
<1>4. ASSUME NEW g \in Generators,
             Register(g) \/ RemoveGenerator(g) \/ DropSession(g) \/ Crash(g)
                \/ SaveDistConfig(g)
      PROVE  [DispatcherNext]_dispatcherVars
  BY <1>4 DEF Register, RemoveGenerator, DropSession, Crash, SaveDistConfig
<1>5. ASSUME NEW g \in Generators, LostTask(g)
      PROVE  [DispatcherNext]_dispatcherVars
  BY <1>5, Calls DEF LostTask
<1>6. ASSUME NEW g \in Generators, NEW c \in Ccds, FinishCcd(g, c) \/ ZombieEnds(g, c)
      PROVE  [DispatcherNext]_dispatcherVars
  BY <1>6 DEF FinishCcd, ZombieEnds
<1>7. ASSUME NEW g \in Generators, NEW c \in Ccds, WaitTaskReturns(g, c)
      PROVE  [DispatcherNext]_dispatcherVars
  <2>1. c \in DOMAIN submitted
    BY <1>7 DEF WaitTaskReturns, IInv, Handed
  <2> QED
    BY <1>7, <2>1, Calls DEF WaitTaskReturns
<1>8. ASSUME NEW c \in Ccds, TimePasses(c)
      PROVE  [DispatcherNext]_dispatcherVars
  BY <1>8, Calls DEF TimePasses
<1>9. CASE UNCHANGED vars
  BY <1>9 DEF vars
<1> QED
  BY <1>1, <1>2, <1>3, <1>4, <1>5, <1>6, <1>7, <1>8, <1>9 DEF Next

-----------------------------------------------------------------------------
(* What the parts of the steps do. *)

\* Fetching, returning and losing CCDs leaves the owners alone; a CCD that is
\* fetched is handed out.
LEMMA CallFacts ==
    ASSUME DispatcherTypeOK
    PROVE  /\ \A g : RecordGeneratorStart(g) => owner' = owner
           /\ \A g : OnGeneratorLost(g) => owner' = owner
           /\ \A c : ReturnUnassignedCcd(c) => owner' = owner
           /\ \A c : GrowOld(c) => owner' = owner
           /\ \A g, c : GetNextCcd(g, c) => owner' = owner
           /\ \A g \in Generators, c \in Ccds :
                 GetNextCcd(g, c) => c \in DOMAIN submitted'
<1>1. \A g : OnGeneratorLost(g) => owner' = owner
  BY Zenon DEF OnGeneratorLost
<1>2. \A c : GrowOld(c) => owner' = owner
  BY Zenon DEF GrowOld
<1>3. /\ \A g : RecordGeneratorStart(g) => owner' = owner
      /\ \A c : ReturnUnassignedCcd(c) => owner' = owner
      /\ \A g, c : GetNextCcd(g, c) => owner' = owner
  BY DEF RecordGeneratorStart, ReturnUnassignedCcd, GetNextCcd, Phase1Assign,
     Phase2Resubmit
<1>4. ASSUME NEW g \in Generators, NEW c \in Ccds, Phase1Assign(g, c)
      PROVE  c \in DOMAIN submitted'
  <2>1. DispatcherTypeOK'
    BY <1>4, Calls, DispatcherTypesKept DEF GetNextCcd
  <2>2. DOMAIN submitted' = 1..remainingIndex' /\ remainingIndex' \in Nat
    BY <2>1, LenProperties DEF DispatcherTypeOK
  <2> QED
    BY <1>4, <2>2 DEF Phase1Assign, DispatcherTypeOK
<1>5. ASSUME NEW c \in Ccds, Phase2Resubmit(c)
      PROVE  c \in DOMAIN submitted'
  BY <1>5 DEF Phase2Resubmit, Resubmittable
<1> QED
  BY <1>1, <1>2, <1>3, <1>4, <1>5 DEF GetNextCcd

\* A session that is closed leaves nothing that could be reported.
LEMMA CloseFacts ==
    ASSUME TypeOK, NEW g \in Generators, CloseSession(g)
    PROVE  /\ session' \in [Generators -> {"none", "open", "broken"}]
           /\ zombies' \in [Generators -> SUBSET Ccds]
           /\ working' \in [Generators -> [Ccds -> Nat]]
           /\ results' \in [Generators -> [Ccds -> Nat]]
           /\ waits' \in [Generators -> Nat]
           /\ \A h \in Generators, c \in Ccds :
                 /\ working'[h][c] > 0 => working[h][c] > 0
                 /\ results'[h][c] > 0 => results[h][c] > 0
<1>1. Nothing \in [Ccds -> Nat] /\ \A c \in Ccds : Nothing[c] = 0
  BY DEF Nothing
<1>2. InPipeline(g) \subseteq Ccds
  BY DEF InPipeline
<1> QED
  BY <1>1, <1>2 DEF CloseSession, TypeOK

\* A worker whose connection failed has a try left, or ends.
LEMMA ConnectionErrorFacts ==
    ASSUME TypeOK, TriesLeft, NEW g \in Generators, pc[g] \notin {"stop", "done"},
           ConnectionError(g)
    PROVE  /\ failures' \in [Generators -> 0..MaxConnectRetries]
           /\ pc' \in [Generators -> {"none", "connect", "batch", "first", "serve", "assign",
                                     "between", "retry", "stop", "done"}]
           /\ TriesLeft'
BY MaxConnectRetriesAssumption DEF ConnectionError, TypeOK, TriesLeft

\* The types of the coordinator's side of the sessions, and a state of the
\* worker that allows it to go on.
LEMMA SendFacts ==
    ASSUME TypeOK, TriesLeft, NEW g \in Generators, NEW c \in Ccds,
           NEW next \in {"batch", "serve"}, pc[g] \notin {"stop", "done"},
           Send(g, c, next)
    PROVE  /\ session' \in [Generators -> {"none", "open", "broken"}]
           /\ zombies' \in [Generators -> SUBSET Ccds]
           /\ working' \in [Generators -> [Ccds -> Nat]]
           /\ results' \in [Generators -> [Ccds -> Nat]]
           /\ waits' \in [Generators -> Nat]
           /\ failures' \in [Generators -> 0..MaxConnectRetries]
           /\ pc' \in [Generators -> {"none", "connect", "batch", "first", "serve", "assign",
                                     "between", "retry", "stop", "done"}]
           /\ TriesLeft'
           /\ \A h \in Generators, d \in Ccds :
                 /\ working'[h][d] > 0 => working[h][d] > 0 \/ d = c
                 /\ results'[h][d] > 0 => results[h][d] > 0
<1>1. CASE /\ Delivered(g, c) /\ pc' = [pc EXCEPT ![g] = next]
           /\ UNCHANGED <<failures, waits>>
  BY <1>1 DEF Delivered, TypeOK, TriesLeft
<1>2. CASE /\ LostInTransit(g) /\ pc' = [pc EXCEPT ![g] = next]
           /\ UNCHANGED <<failures, waits>>
  BY <1>2 DEF LostInTransit, TypeOK, TriesLeft
<1>3. CASE ConnectionError(g)
  BY <1>3, ConnectionErrorFacts, CloseFacts DEF ConnectionError
<1> QED
  BY <1>1, <1>2, <1>3 DEF Send

-----------------------------------------------------------------------------
(* The steps of the workers. *)

\* A new session: record_generator_start, and the prefetched CCD is sent.
LEMMA ConnectStep ==
    ASSUME IInv, DispatcherTypeOK', DOMAIN submitted \subseteq DOMAIN submitted',
           NEW g \in Generators, Connect(g)
    PROVE  IInv'
<1> USE DEF IInv
<1>1. TypeOK'
  <2>1. slots' \in [Generators -> 0..MaxConcurrent]
    <3>1. PICK n \in {MaxConcurrent, MaxConcurrent - 1} : slots' = [slots EXCEPT ![g] = n]
      BY DEF Connect
    <3>2. n \in 0..MaxConcurrent
      BY <3>1, MaxConcurrentAssumption
    <3> QED
      BY <3>1, <3>2 DEF TypeOK
  <2>2. batchSent' \in [Generators -> BOOLEAN]
    <3>1. batchSent' \in {batchSent, [batchSent EXCEPT ![g] = TRUE]}
      BY DEF Connect
    <3> QED
      BY <3>1 DEF TypeOK
  <2>3. working' \in [Generators -> [Ccds -> Nat]]
    <3>1. CASE working' = working
      BY <3>1 DEF TypeOK
    <3>2. CASE /\ pending[g] \in Ccds
               /\ working' = [working EXCEPT ![g][pending[g]] = @ + 1]
      BY <3>2 DEF TypeOK
    <3> QED
      BY <3>1, <3>2 DEF Connect, TypeOK
  <2>4. /\ pc' \in [Generators -> {"none", "connect", "batch", "first", "serve", "assign",
                                  "between", "retry", "stop", "done"}]
        /\ session' \in [Generators -> {"none", "open", "broken"}]
    BY DEF Connect, TypeOK
  <2> QED
    BY <2>1, <2>2, <2>3, <2>4 DEF Connect, TypeOK, jobVars, registryVars, diskVars
<1>2. Handed'
  <2>1. /\ \A h \in Generators, c \in Ccds :
              working'[h][c] > 0 => working[h][c] > 0 \/ (h = g /\ c = pending[g])
        /\ UNCHANGED <<results, pending, returning>>
    BY DEF Connect, TypeOK
  <2> QED
    BY <2>1 DEF Handed
<1>3. AtRest'
  BY DEF Connect, TypeOK, AtRest, Running, jobVars
<1>4. ReportedHasTiles'
  BY DEF Connect, TypeOK, ReportedHasTiles, diskVars
<1>5. OwnerHasTiles'
  BY CallFacts DEF Connect, TypeOK, OwnerHasTiles, Owned, diskVars
<1>6. TriesLeft'
  BY DEF Connect, TypeOK, TriesLeft
<1> QED
  BY <1>1, <1>2, <1>3, <1>4, <1>5, <1>6

\* Without a session the worker has one try less.
LEMMA ConnectFailsStep ==
    ASSUME IInv, DispatcherTypeOK', DOMAIN submitted \subseteq DOMAIN submitted',
           NEW g \in Generators, ConnectFails(g)
    PROVE  IInv'
<1> USE DEF IInv
<1>1. TypeOK'
  <2>1. faults' \in 0..MaxFaults
    BY MaxFaultsAssumption DEF ConnectFails, TypeOK
  <2> QED
    BY <2>1, CloseFacts, ConnectionErrorFacts
       DEF ConnectFails, ConnectionError, TypeOK, jobVars, registryVars, batchVars
<1>2. Handed'
  BY CloseFacts DEF ConnectFails, ConnectionError, TypeOK, Handed
<1>3. AtRest'
  BY DEF ConnectFails, ConnectionError, TypeOK, AtRest, Running, jobVars
<1>4. ReportedHasTiles'
  BY CloseFacts DEF ConnectFails, ConnectionError, TypeOK, ReportedHasTiles
<1>5. OwnerHasTiles'
  BY CallFacts DEF ConnectFails, TypeOK, OwnerHasTiles, Owned, dispatcherVars
<1>6. TriesLeft'
  BY ConnectionErrorFacts DEF ConnectFails, ConnectionError, TypeOK, TriesLeft
<1> QED
  BY <1>1, <1>2, <1>3, <1>4, <1>5, <1>6

\* After the delay the worker connects again, or ends.
LEMMA RetryStep ==
    ASSUME IInv, DispatcherTypeOK', DOMAIN submitted \subseteq DOMAIN submitted',
           NEW g \in Generators, Retry(g)
    PROVE  IInv'
<1> USE DEF IInv
<1>1. TypeOK'
  BY DEF Retry, TypeOK, dispatcherVars, jobVars, registryVars, batchVars, sessionVars,
     diskVars
<1>2. Handed'
  BY DEF Retry, TypeOK, Handed, sessionVars
<1>3. AtRest'
  BY DEF Retry, TypeOK, AtRest, Running, jobVars, sessionVars
<1>4. ReportedHasTiles'
  BY DEF Retry, TypeOK, ReportedHasTiles, sessionVars, diskVars
<1>5. OwnerHasTiles'
  BY DEF Retry, TypeOK, OwnerHasTiles, Owned, dispatcherVars, diskVars
<1>6. TriesLeft'
  BY DEF Retry, TypeOK, TriesLeft
<1> QED
  BY <1>1, <1>2, <1>3, <1>4, <1>5, <1>6

\* A slot of the initial batch: a CCD is sent, or there is none.
LEMMA BatchNextStep ==
    ASSUME IInv, DispatcherTypeOK', DOMAIN submitted \subseteq DOMAIN submitted',
           NEW g \in Generators, BatchNext(g)
    PROVE  IInv'
<1> USE DEF IInv
<1>1. TypeOK'
  <2>1. ASSUME NEW c \in Ccds, Send(g, c, "batch")
        PROVE  /\ session' \in [Generators -> {"none", "open", "broken"}]
               /\ zombies' \in [Generators -> SUBSET Ccds]
               /\ working' \in [Generators -> [Ccds -> Nat]]
               /\ results' \in [Generators -> [Ccds -> Nat]]
               /\ waits' \in [Generators -> Nat]
               /\ failures' \in [Generators -> 0..MaxConnectRetries]
               /\ pc' \in [Generators -> {"none", "connect", "batch", "first", "serve",
                              "assign", "between", "retry", "stop", "done"}]
    BY <2>1, SendFacts DEF BatchNext
  <2>2. slots' \in [Generators -> 0..MaxConcurrent] /\ batchSent' \in [Generators -> BOOLEAN]
    <3>1. slots' \in [Generators -> 0..MaxConcurrent]
      BY MaxConcurrentAssumption DEF BatchNext, TypeOK
    <3>2. batchSent' \in {batchSent, [batchSent EXCEPT ![g] = TRUE]}
      BY DEF BatchNext
    <3> QED
      BY <3>1, <3>2 DEF TypeOK
  <2>3. CASE \E c \in Ccds : Send(g, c, "batch")
    BY <2>1, <2>2, <2>3 DEF BatchNext, TypeOK, jobVars, registryVars, diskVars
  <2>4. CASE UNCHANGED <<sessionVars, pc, failures>>
    BY <2>2, <2>4 DEF BatchNext, TypeOK, jobVars, registryVars, sessionVars, diskVars
  <2> QED
    BY <2>3, <2>4 DEF BatchNext
<1>2. Handed'
  <2>1. ASSUME NEW c \in Ccds, GetNextCcd(g, c), Send(g, c, "batch"),
               UNCHANGED <<pending, returning>>
        PROVE  Handed'
    <3>1. c \in DOMAIN submitted'
      BY <2>1, CallFacts DEF TypeOK
    <3>2. \A h \in Generators, d \in Ccds :
             /\ working'[h][d] > 0 => working[h][d] > 0 \/ d = c
             /\ results'[h][d] > 0 => results[h][d] > 0
      BY <2>1, SendFacts DEF BatchNext
    <3> QED
      BY <2>1, <3>1, <3>2 DEF Handed
  <2>2. CASE UNCHANGED <<sessionVars, pending, returning>>
    BY <2>2 DEF Handed, sessionVars
  <2> QED
    BY <2>1, <2>2 DEF BatchNext
<1>3. AtRest'
  BY DEF BatchNext, TypeOK, AtRest, Running, jobVars, sessionVars
<1>4. ReportedHasTiles'
  BY SendFacts DEF BatchNext, TypeOK, ReportedHasTiles, sessionVars, diskVars
<1>5. OwnerHasTiles'
  BY CallFacts DEF BatchNext, TypeOK, OwnerHasTiles, Owned, dispatcherVars, diskVars
<1>6. TriesLeft'
  BY SendFacts DEF BatchNext, TypeOK, TriesLeft
<1> QED
  BY <1>1, <1>2, <1>3, <1>4, <1>5, <1>6

\* The initial batch is complete.
LEMMA BatchEndsStep ==
    ASSUME IInv, DispatcherTypeOK', DOMAIN submitted \subseteq DOMAIN submitted',
           NEW g \in Generators, BatchEnds(g)
    PROVE  IInv'
<1> USE DEF IInv
<1>1. TypeOK'
  BY DEF BatchEnds, TypeOK, dispatcherVars, jobVars, registryVars, sessionVars,
     diskVars
<1>2. Handed'
  BY DEF BatchEnds, TypeOK, Handed, sessionVars
<1>3. AtRest'
  BY DEF BatchEnds, TypeOK, AtRest, Running, jobVars, sessionVars
<1>4. ReportedHasTiles'
  BY DEF BatchEnds, TypeOK, ReportedHasTiles, sessionVars, diskVars
<1>5. OwnerHasTiles'
  BY DEF BatchEnds, TypeOK, OwnerHasTiles, Owned, dispatcherVars, diskVars
<1>6. TriesLeft'
  BY DEF BatchEnds, TypeOK, TriesLeft
<1> QED
  BY <1>1, <1>2, <1>3, <1>4, <1>5, <1>6

\* The first CCD of a session that began without one.
LEMMA AssignFirstStep ==
    ASSUME IInv, DispatcherTypeOK', DOMAIN submitted \subseteq DOMAIN submitted',
           NEW g \in Generators, AssignFirst(g)
    PROVE  IInv'
<1> USE DEF IInv
<1>1. TypeOK'
  BY SendFacts DEF AssignFirst, TypeOK, jobVars, registryVars, batchVars, diskVars
<1>2. Handed'
  <2>1. ASSUME NEW c \in Ccds, GetNextCcd(g, c), Send(g, c, "serve"),
               UNCHANGED <<pending, returning>>
        PROVE  Handed'
    <3>1. c \in DOMAIN submitted'
      BY <2>1, CallFacts DEF TypeOK
    <3>2. \A h \in Generators, d \in Ccds :
             /\ working'[h][d] > 0 => working[h][d] > 0 \/ d = c
             /\ results'[h][d] > 0 => results[h][d] > 0
      BY <2>1, SendFacts DEF AssignFirst
    <3> QED
      BY <2>1, <3>1, <3>2 DEF Handed
  <2> QED
    BY <2>1 DEF AssignFirst
<1>3. AtRest'
  BY DEF AssignFirst, TypeOK, AtRest, Running, jobVars
<1>4. ReportedHasTiles'
  BY SendFacts DEF AssignFirst, TypeOK, ReportedHasTiles, diskVars
<1>5. OwnerHasTiles'
  BY CallFacts DEF AssignFirst, TypeOK, OwnerHasTiles, Owned, diskVars
<1>6. TriesLeft'
  BY SendFacts DEF AssignFirst, TypeOK, TriesLeft
<1> QED
  BY <1>1, <1>2, <1>3, <1>4, <1>5, <1>6

\* A completion is adopted or discarded; its sender has the tiles.
LEMMA ReceiveCompletedStep ==
    ASSUME IInv, DispatcherTypeOK', DOMAIN submitted \subseteq DOMAIN submitted',
           NEW g \in Generators, NEW c \in Ccds, ReceiveCompleted(g, c)
    PROVE  IInv'
<1> USE DEF IInv
<1>1. TypeOK'
  BY DEF ReceiveCompleted, TypeOK, jobVars, registryVars, batchVars, diskVars
<1>2. Handed'
  BY DEF ReceiveCompleted, TypeOK, Handed
<1>3. AtRest'
  BY DEF ReceiveCompleted, TypeOK, AtRest, Running, jobVars
<1>4. ReportedHasTiles'
  BY DEF ReceiveCompleted, TypeOK, ReportedHasTiles, diskVars
<1>5. OwnerHasTiles'
  <2>1. \A d \in Ccds : owner'[d] = owner[d] \/ (d = c /\ owner'[d] = g)
    BY DEF ReceiveCompleted, OnCcdCompleted, DispatcherTypeOK, Ccds, Ccds, TypeOK
  <2>2. g \in alive => c \in tiles[g]
    BY DEF ReceiveCompleted, ReportedHasTiles
  <2> QED
    BY <2>1, <2>2 DEF ReceiveCompleted, OwnerHasTiles, Owned, diskVars
<1>6. TriesLeft'
  BY DEF ReceiveCompleted, TypeOK, TriesLeft
<1> QED
  BY <1>1, <1>2, <1>3, <1>4, <1>5, <1>6

\* The next CCD for a slot that became free, or a task that waits for one.
LEMMA AssignNextStep ==
    ASSUME IInv, DispatcherTypeOK', DOMAIN submitted \subseteq DOMAIN submitted',
           NEW g \in Generators, AssignNext(g)
    PROVE  IInv'
<1> USE DEF IInv
<1>1. TypeOK'
  <2>1. ASSUME NEW c \in Ccds, Send(g, c, "serve")
        PROVE  /\ session' \in [Generators -> {"none", "open", "broken"}]
               /\ zombies' \in [Generators -> SUBSET Ccds]
               /\ working' \in [Generators -> [Ccds -> Nat]]
               /\ results' \in [Generators -> [Ccds -> Nat]]
               /\ waits' \in [Generators -> Nat]
               /\ failures' \in [Generators -> 0..MaxConnectRetries]
               /\ pc' \in [Generators -> {"none", "connect", "batch", "first", "serve",
                              "assign", "between", "retry", "stop", "done"}]
    BY <2>1, SendFacts DEF AssignNext
  <2>2. CASE \E c \in Ccds : Send(g, c, "serve")
    BY <2>1, <2>2 DEF AssignNext, TypeOK, jobVars, registryVars, batchVars, diskVars
  <2>3. CASE /\ waits' \in {waits, [waits EXCEPT ![g] = @ + 1]}
             /\ pc' = [pc EXCEPT ![g] = "serve"]
             /\ UNCHANGED <<session, working, results, zombies, failures>>
    BY <2>3 DEF AssignNext, TypeOK, jobVars, registryVars, batchVars, diskVars
  <2> QED
    BY <2>2, <2>3 DEF AssignNext
<1>2. Handed'
  <2>1. ASSUME NEW c \in Ccds, GetNextCcd(g, c), Send(g, c, "serve"),
               UNCHANGED <<pending, returning>>
        PROVE  Handed'
    <3>1. c \in DOMAIN submitted'
      BY <2>1, CallFacts DEF TypeOK
    <3>2. \A h \in Generators, d \in Ccds :
             /\ working'[h][d] > 0 => working[h][d] > 0 \/ d = c
             /\ results'[h][d] > 0 => results[h][d] > 0
      BY <2>1, SendFacts DEF AssignNext
    <3> QED
      BY <2>1, <3>1, <3>2 DEF Handed
  <2>2. CASE UNCHANGED <<working, results, pending, returning>>
    BY <2>2 DEF Handed
  <2> QED
    BY <2>1, <2>2 DEF AssignNext
<1>3. AtRest'
  BY DEF AssignNext, TypeOK, AtRest, Running, jobVars
<1>4. ReportedHasTiles'
  BY SendFacts DEF AssignNext, TypeOK, ReportedHasTiles, diskVars
<1>5. OwnerHasTiles'
  BY CallFacts DEF AssignNext, TypeOK, OwnerHasTiles, Owned, dispatcherVars, diskVars
<1>6. TriesLeft'
  BY SendFacts DEF AssignNext, TypeOK, TriesLeft
<1> QED
  BY <1>1, <1>2, <1>3, <1>4, <1>5, <1>6

\* An error ends the session, and the worker.
LEMMA ReceiveErrorStep ==
    ASSUME IInv, DispatcherTypeOK', DOMAIN submitted \subseteq DOMAIN submitted',
           NEW g \in Generators, ReceiveError(g)
    PROVE  IInv'
<1> USE DEF IInv
<1>1. TypeOK'
  BY CloseFacts DEF ReceiveError, TypeOK, dispatcherVars, registryVars, batchVars,
     diskVars
<1>2. Handed'
  <2>1. \A h \in Generators, c \in Ccds :
           /\ working'[h][c] > 0 => working[h][c] > 0
           /\ results'[h][c] > 0 => results[h][c] > 0
    BY CloseFacts DEF ReceiveError
  <2>2. \A h \in Generators : pending'[h] \in {pending[h], NoCcd}
    BY DEF ReceiveError, TypeOK
  <2> QED
    BY <2>1, <2>2, NoCcdAssumption DEF ReceiveError, Handed, Ccds
<1>3. AtRest'
  BY DEF ReceiveError, TypeOK, AtRest, Running
<1>4. ReportedHasTiles'
  BY CloseFacts DEF ReceiveError, TypeOK, ReportedHasTiles, diskVars
<1>5. OwnerHasTiles'
  BY DEF ReceiveError, TypeOK, OwnerHasTiles, Owned, dispatcherVars, diskVars
<1>6. TriesLeft'
  BY DEF ReceiveError, TypeOK, TriesLeft
<1> QED
  BY <1>1, <1>2, <1>3, <1>4, <1>5, <1>6

\* The session is over: the next one begins, or the worker ends.
LEMMA SessionEndsStep ==
    ASSUME IInv, DispatcherTypeOK', DOMAIN submitted \subseteq DOMAIN submitted',
           NEW g \in Generators, SessionEnds(g)
    PROVE  IInv'
<1> USE DEF IInv
<1>1. TypeOK'
  BY CloseFacts, MaxConnectRetriesAssumption DEF SessionEnds, TypeOK, dispatcherVars,
     jobVars, registryVars, batchVars, diskVars
<1>2. Handed'
  <2>1. \A h \in Generators, c \in Ccds :
           /\ working'[h][c] > 0 => working[h][c] > 0
           /\ results'[h][c] > 0 => results[h][c] > 0
    BY CloseFacts DEF SessionEnds
  <2>2. \A h \in Generators : pending'[h] \in {pending[h], NoCcd}
    BY DEF SessionEnds, TypeOK
  <2> QED
    BY <2>1, <2>2, NoCcdAssumption DEF SessionEnds, Handed, Ccds
<1>3. AtRest'
  BY DEF SessionEnds, TypeOK, AtRest, Running, jobVars
<1>4. ReportedHasTiles'
  BY CloseFacts DEF SessionEnds, TypeOK, ReportedHasTiles, diskVars
<1>5. OwnerHasTiles'
  BY DEF SessionEnds, TypeOK, OwnerHasTiles, Owned, dispatcherVars, diskVars
<1>6. TriesLeft'
  BY MaxConnectRetriesAssumption DEF SessionEnds, TypeOK, TriesLeft
<1> QED
  BY <1>1, <1>2, <1>3, <1>4, <1>5, <1>6

\* A CCD is prefetched for the next session.
LEMMA FetchForNewSessionStep ==
    ASSUME IInv, DispatcherTypeOK', DOMAIN submitted \subseteq DOMAIN submitted',
           NEW g \in Generators, FetchForNewSession(g)
    PROVE  IInv'
<1> USE DEF IInv
<1>1. TypeOK'
  BY DEF FetchForNewSession, TypeOK, dispatcherVars, jobVars, registryVars, batchVars,
     sessionVars, diskVars
<1>2. Handed'
  BY CallFacts, SMTT(40) DEF FetchForNewSession, TypeOK, Handed, sessionVars
<1>3. AtRest'
  BY DEF FetchForNewSession, TypeOK, AtRest, Running, jobVars, sessionVars
<1>4. ReportedHasTiles'
  BY DEF FetchForNewSession, TypeOK, ReportedHasTiles, sessionVars, diskVars
<1>5. OwnerHasTiles'
  BY CallFacts DEF FetchForNewSession, TypeOK, OwnerHasTiles, Owned, dispatcherVars,
     diskVars
<1>6. TriesLeft'
  BY DEF FetchForNewSession, TypeOK, TriesLeft
<1> QED
  BY <1>1, <1>2, <1>3, <1>4, <1>5, <1>6

\* The end of a worker gives the prefetched CCD back.
LEMMA StopReturnsStep ==
    ASSUME IInv, DispatcherTypeOK', DOMAIN submitted \subseteq DOMAIN submitted',
           NEW g \in Generators, StopReturns(g)
    PROVE  IInv'
<1> USE DEF IInv
<1>1. TypeOK'
  BY DEF StopReturns, TypeOK, jobVars, registryVars, batchVars, sessionVars, diskVars
<1>2. Handed'
  BY NoCcdAssumption DEF StopReturns, TypeOK, Handed, Ccds, sessionVars
<1>3. AtRest'
  BY DEF StopReturns, TypeOK, AtRest, Running, jobVars, sessionVars
<1>4. ReportedHasTiles'
  BY DEF StopReturns, TypeOK, ReportedHasTiles, sessionVars, diskVars
<1>5. OwnerHasTiles'
  BY CallFacts DEF StopReturns, TypeOK, OwnerHasTiles, Owned, diskVars
<1>6. TriesLeft'
  BY DEF StopReturns, TypeOK, TriesLeft
<1> QED
  BY <1>1, <1>2, <1>3, <1>4, <1>5, <1>6

\* The end of a worker tells the dispatcher.
LEMMA StopStep ==
    ASSUME IInv, DispatcherTypeOK', DOMAIN submitted \subseteq DOMAIN submitted',
           NEW g \in Generators, Stop(g)
    PROVE  IInv'
<1> USE DEF IInv
<1>1. TypeOK'
  BY DEF Stop, TypeOK, jobVars, registryVars, batchVars, sessionVars, diskVars
<1>2. Handed'
  BY DEF Stop, TypeOK, Handed, sessionVars
<1>3. AtRest'
  BY DEF Stop, TypeOK, AtRest, Running, jobVars, sessionVars
<1>4. ReportedHasTiles'
  BY DEF Stop, TypeOK, ReportedHasTiles, sessionVars, diskVars
<1>5. OwnerHasTiles'
  BY CallFacts DEF Stop, TypeOK, OwnerHasTiles, Owned, diskVars
<1>6. TriesLeft'
  BY DEF Stop, TypeOK, TriesLeft
<1> QED
  BY <1>1, <1>2, <1>3, <1>4, <1>5, <1>6

\* wait_and_assign gets a CCD and sends it, or fails to.
LEMMA WaitTaskStep ==
    ASSUME IInv, DispatcherTypeOK', DOMAIN submitted \subseteq DOMAIN submitted',
           NEW g \in Generators, WaitTask(g)
    PROVE  IInv'
<1> USE DEF IInv
<1>1. TypeOK'
  <2>1. waits' \in [Generators -> Nat]
    BY DEF WaitTask, TypeOK
  <2>2. PICK c \in Ccds :
           \/ (Delivered(g, c) \/ LostInTransit(g)) /\ UNCHANGED returning
           \/ LostInTransit(g) /\ returning' = returning \union {<<g, c>>}
    BY DEF WaitTask
  <2>3. /\ session' \in [Generators -> {"none", "open", "broken"}]
        /\ zombies' \in [Generators -> SUBSET Ccds]
        /\ working' \in [Generators -> [Ccds -> Nat]]
        /\ results' \in [Generators -> [Ccds -> Nat]]
    <3>1. CASE Delivered(g, c)
      BY <3>1 DEF Delivered, TypeOK
    <3>2. CASE LostInTransit(g)
      BY <3>2 DEF LostInTransit, TypeOK
    <3> QED
      BY <2>2, <3>1, <3>2
  <2>4. returning' \subseteq Generators \X Ccds
    <3>1. CASE UNCHANGED returning
      BY <3>1 DEF TypeOK
    <3>2. CASE returning' = returning \union {<<g, c>>}
      BY <3>2 DEF TypeOK
    <3> QED
      BY <2>2, <3>1, <3>2
  <2> QED
    BY <2>1, <2>3, <2>4 DEF WaitTask, TypeOK, jobVars, registryVars, batchVars, diskVars
<1>2. Handed'
  <2>1. PICK c \in Ccds :
           /\ c \in DOMAIN submitted'
           /\ \/ (Delivered(g, c) \/ LostInTransit(g)) /\ UNCHANGED returning
              \/ LostInTransit(g) /\ returning' = returning \union {<<g, c>>}
    BY CallFacts DEF WaitTask, TypeOK
  <2>2. \A h \in Generators, d \in Ccds :
           working'[h][d] > 0 \/ results'[h][d] > 0 => d \in DOMAIN submitted'
    <3>1. CASE Delivered(g, c)
      BY <2>1, <3>1 DEF Delivered, TypeOK, Handed
    <3>2. CASE LostInTransit(g)
      BY <3>2 DEF LostInTransit, TypeOK, Handed
    <3> QED
      BY <2>1, <3>1, <3>2
  <2>3. \A h \in Generators : pending'[h] \in Ccds => pending'[h] \in DOMAIN submitted'
    BY DEF WaitTask, Handed
  <2>4. \A r \in returning' : r[2] \in DOMAIN submitted'
    BY <2>1 DEF Handed
  <2> QED
    BY <2>2, <2>3, <2>4 DEF Handed
<1>3. AtRest'
  BY DEF WaitTask, TypeOK, AtRest, Running, Delivered, LostInTransit, jobVars
<1>4. ReportedHasTiles'
  BY DEF WaitTask, TypeOK, ReportedHasTiles, Delivered, LostInTransit, diskVars
<1>5. OwnerHasTiles'
  BY CallFacts DEF WaitTask, TypeOK, OwnerHasTiles, Owned, diskVars
<1>6. TriesLeft'
  BY DEF WaitTask, TypeOK, TriesLeft
<1> QED
  BY <1>1, <1>2, <1>3, <1>4, <1>5, <1>6

\* wait_and_assign gives its CCD back.
LEMMA WaitTaskReturnsStep ==
    ASSUME IInv, DispatcherTypeOK', DOMAIN submitted \subseteq DOMAIN submitted',
           NEW g \in Generators, NEW c \in Ccds, WaitTaskReturns(g, c)
    PROVE  IInv'
<1> USE DEF IInv
<1>1. TypeOK'
  BY DEF WaitTaskReturns, TypeOK, jobVars, registryVars, batchVars, sessionVars,
     diskVars
<1>2. Handed'
  BY DEF WaitTaskReturns, TypeOK, Handed, sessionVars
<1>3. AtRest'
  BY DEF WaitTaskReturns, TypeOK, AtRest, Running, jobVars, sessionVars
<1>4. ReportedHasTiles'
  BY DEF WaitTaskReturns, TypeOK, ReportedHasTiles, sessionVars, diskVars
<1>5. OwnerHasTiles'
  BY CallFacts DEF WaitTaskReturns, TypeOK, OwnerHasTiles, Owned, diskVars
<1>6. TriesLeft'
  BY DEF WaitTaskReturns, TypeOK, TriesLeft
<1> QED
  BY <1>1, <1>2, <1>3, <1>4, <1>5, <1>6

-----------------------------------------------------------------------------
(* The steps of the job and of the registry. *)

\* The job begins with its workers, or fails at once.
LEMMA StartStep ==
    ASSUME IInv, DispatcherTypeOK', DOMAIN submitted \subseteq DOMAIN submitted',
           Start
    PROVE  IInv'
<1> USE DEF IInv
<1>1. TypeOK'
  BY DEF Start, TypeOK, dispatcherVars, registryVars, batchVars, sessionVars, diskVars
<1>2. Handed'
  BY DEF Start, TypeOK, Handed, sessionVars
<1>3. AtRest'
  BY DEF Start, TypeOK, AtRest, Running, sessionVars
<1>4. ReportedHasTiles'
  BY DEF Start, TypeOK, ReportedHasTiles, sessionVars, diskVars
<1>5. OwnerHasTiles'
  BY DEF Start, TypeOK, OwnerHasTiles, Owned, dispatcherVars, diskVars
<1>6. TriesLeft'
  BY DEF Start, TypeOK, TriesLeft, AtRest, Running
<1> QED
  BY <1>1, <1>2, <1>3, <1>4, <1>5, <1>6

\* The job is complete: its workers are cancelled.
LEMMA CompleteStep ==
    ASSUME IInv, DispatcherTypeOK', DOMAIN submitted \subseteq DOMAIN submitted',
           Complete
    PROVE  IInv'
<1> USE DEF IInv
<1>1. TypeOK'
  BY DEF Complete, TypeOK, CancelWorkers, Workers, InPipeline, Nothing,
     dispatcherVars, registryVars, batchVars, diskVars
<1>2. Handed'
  BY DEF Complete, TypeOK, Handed, CancelWorkers, Workers, InPipeline, Nothing
<1>3. AtRest'
  BY DEF Complete, TypeOK, AtRest, Running, CancelWorkers, Workers, InPipeline,
     Nothing
<1>4. ReportedHasTiles'
  BY DEF Complete, TypeOK, ReportedHasTiles, CancelWorkers, Workers, InPipeline,
     Nothing, diskVars
<1>5. OwnerHasTiles'
  BY DEF Complete, TypeOK, OwnerHasTiles, Owned, CancelWorkers, dispatcherVars,
     diskVars
<1>6. TriesLeft'
  BY DEF Complete, TypeOK, TriesLeft, CancelWorkers, Workers, InPipeline, Nothing
<1> QED
  BY <1>1, <1>2, <1>3, <1>4, <1>5, <1>6

\* The job fails: its workers are cancelled.
LEMMA FailStep ==
    ASSUME IInv, DispatcherTypeOK', DOMAIN submitted \subseteq DOMAIN submitted',
           Fail
    PROVE  IInv'
<1> USE DEF IInv
<1>1. TypeOK'
  BY DEF Fail, TypeOK, CancelWorkers, Workers, InPipeline, Nothing, dispatcherVars,
     registryVars, batchVars, diskVars
<1>2. Handed'
  BY DEF Fail, TypeOK, Handed, CancelWorkers, Workers, InPipeline, Nothing
<1>3. AtRest'
  BY DEF Fail, TypeOK, AtRest, Running, CancelWorkers, Workers, InPipeline, Nothing
<1>4. ReportedHasTiles'
  BY DEF Fail, TypeOK, ReportedHasTiles, CancelWorkers, Workers, InPipeline, Nothing,
     diskVars
<1>5. OwnerHasTiles'
  BY DEF Fail, TypeOK, OwnerHasTiles, Owned, CancelWorkers, dispatcherVars, diskVars
<1>6. TriesLeft'
  BY DEF Fail, TypeOK, TriesLeft, CancelWorkers, Workers, InPipeline, Nothing
<1> QED
  BY <1>1, <1>2, <1>3, <1>4, <1>5, <1>6

\* An owner deletes the tiles of the CCDs that it does not own.
LEMMA SaveDistConfigStep ==
    ASSUME IInv, DispatcherTypeOK', DOMAIN submitted \subseteq DOMAIN submitted',
           NEW g \in Generators, SaveDistConfig(g)
    PROVE  IInv'
<1> USE DEF IInv
<1>1. TypeOK'
  BY DEF SaveDistConfig, TypeOK, dispatcherVars, registryVars, batchVars, sessionVars
<1>2. Handed'
  BY DEF SaveDistConfig, TypeOK, Handed, sessionVars
<1>3. AtRest'
  BY DEF SaveDistConfig, TypeOK, AtRest, Running, sessionVars
<1>4. ReportedHasTiles'
  <2>1. \A h \in Generators, c \in Ccds : results[h][c] = 0
    BY DEF SaveDistConfig, AtRest, Running, Nothing
  <2> QED
    BY <2>1 DEF SaveDistConfig, ReportedHasTiles, TypeOK, sessionVars
<1>5. OwnerHasTiles'
  BY DEF SaveDistConfig, TypeOK, OwnerHasTiles, Owned, dispatcherVars
<1>6. TriesLeft'
  BY DEF SaveDistConfig, TypeOK, TriesLeft
<1> QED
  BY <1>1, <1>2, <1>3, <1>4, <1>5, <1>6

\* A generator registers, and may get a worker.
LEMMA RegisterStep ==
    ASSUME IInv, DispatcherTypeOK', DOMAIN submitted \subseteq DOMAIN submitted',
           NEW g \in Generators, Register(g)
    PROVE  IInv'
<1> USE DEF IInv
<1>1. TypeOK'
  BY DEF Register, TypeOK, dispatcherVars, jobVars, batchVars, sessionVars, diskVars
<1>2. Handed'
  BY DEF Register, TypeOK, Handed, sessionVars
<1>3. AtRest'
  BY DEF Register, TypeOK, AtRest, Running, jobVars, sessionVars
<1>4. ReportedHasTiles'
  BY DEF Register, TypeOK, ReportedHasTiles, sessionVars, diskVars
<1>5. OwnerHasTiles'
  BY DEF Register, TypeOK, OwnerHasTiles, Owned, dispatcherVars, diskVars
<1>6. TriesLeft'
  BY DEF Register, TypeOK, TriesLeft
<1> QED
  BY <1>1, <1>2, <1>3, <1>4, <1>5, <1>6

\* A heartbeat fails.
LEMMA RemoveGeneratorStep ==
    ASSUME IInv, DispatcherTypeOK', DOMAIN submitted \subseteq DOMAIN submitted',
           NEW g \in Generators, RemoveGenerator(g)
    PROVE  IInv'
<1> USE DEF IInv
<1>1. TypeOK'
  <2>1. faults' \in 0..MaxFaults
    BY MaxFaultsAssumption DEF RemoveGenerator, TypeOK
  <2> QED
    BY <2>1 DEF RemoveGenerator, TypeOK, dispatcherVars, jobVars, batchVars, sessionVars
<1>2. Handed'
  BY DEF RemoveGenerator, TypeOK, Handed, sessionVars
<1>3. AtRest'
  BY DEF RemoveGenerator, TypeOK, AtRest, Running, jobVars, sessionVars
<1>4. ReportedHasTiles'
  BY DEF RemoveGenerator, TypeOK, ReportedHasTiles, sessionVars
<1>5. OwnerHasTiles'
  BY DEF RemoveGenerator, TypeOK, OwnerHasTiles, Owned, dispatcherVars
<1>6. TriesLeft'
  BY DEF RemoveGenerator, TypeOK, TriesLeft
<1> QED
  BY <1>1, <1>2, <1>3, <1>4, <1>5, <1>6

\* on_generator_lost after a failed heartbeat.
LEMMA LostTaskStep ==
    ASSUME IInv, DispatcherTypeOK', DOMAIN submitted \subseteq DOMAIN submitted',
           NEW g \in Generators, LostTask(g)
    PROVE  IInv'
<1> USE DEF IInv
<1>1. TypeOK'
  BY DEF LostTask, TypeOK, jobVars, batchVars, sessionVars, diskVars
<1>2. Handed'
  BY DEF LostTask, TypeOK, Handed, sessionVars
<1>3. AtRest'
  BY DEF LostTask, TypeOK, AtRest, Running, jobVars, sessionVars
<1>4. ReportedHasTiles'
  BY DEF LostTask, TypeOK, ReportedHasTiles, sessionVars, diskVars
<1>5. OwnerHasTiles'
  BY CallFacts DEF LostTask, TypeOK, OwnerHasTiles, Owned, diskVars
<1>6. TriesLeft'
  BY DEF LostTask, TypeOK, TriesLeft
<1> QED
  BY <1>1, <1>2, <1>3, <1>4, <1>5, <1>6

-----------------------------------------------------------------------------
(* The steps of the generators and of the network. *)

\* The tiles of a CCD are written before it is reported.
LEMMA FinishCcdStep ==
    ASSUME IInv, DispatcherTypeOK', DOMAIN submitted \subseteq DOMAIN submitted',
           NEW g \in Generators, NEW c \in Ccds, FinishCcd(g, c)
    PROVE  IInv'
<1> USE DEF IInv
<1>1. TypeOK'
  BY DEF FinishCcd, TypeOK, dispatcherVars, jobVars, registryVars, batchVars
<1>2. Handed'
  BY DEF FinishCcd, TypeOK, Handed
<1>3. AtRest'
  BY DEF FinishCcd, TypeOK, AtRest, Running, jobVars
<1>4. ReportedHasTiles'
  BY DEF FinishCcd, TypeOK, ReportedHasTiles
<1>5. OwnerHasTiles'
  BY DEF FinishCcd, TypeOK, OwnerHasTiles, Owned, dispatcherVars
<1>6. TriesLeft'
  BY DEF FinishCcd, TypeOK, TriesLeft
<1> QED
  BY <1>1, <1>2, <1>3, <1>4, <1>5, <1>6

\* A CCD of a session that is over is processed or dropped.
LEMMA ZombieEndsStep ==
    ASSUME IInv, DispatcherTypeOK', DOMAIN submitted \subseteq DOMAIN submitted',
           NEW g \in Generators, NEW c \in Ccds, ZombieEnds(g, c)
    PROVE  IInv'
<1> USE DEF IInv
<1>1. TypeOK'
  <2>1. tiles' \in [Generators -> SUBSET Ccds]
    <3>1. CASE tiles' = tiles
      BY <3>1 DEF TypeOK
    <3>2. CASE tiles' = [tiles EXCEPT ![g] = @ \union {c}]
      BY <3>2 DEF TypeOK
    <3> QED
      BY <3>1, <3>2 DEF ZombieEnds
  <2>2. zombies' \in [Generators -> SUBSET Ccds]
    <3>1. CASE zombies' = zombies
      BY <3>1 DEF TypeOK
    <3>2. CASE zombies' = [zombies EXCEPT ![g] = @ \ {c}]
      BY <3>2 DEF TypeOK
    <3> QED
      BY <3>1, <3>2 DEF ZombieEnds
  <2> QED
    BY <2>1, <2>2 DEF ZombieEnds, TypeOK, dispatcherVars, jobVars, registryVars, batchVars
<1>2. Handed'
  BY DEF ZombieEnds, TypeOK, Handed
<1>3. AtRest'
  BY DEF ZombieEnds, TypeOK, AtRest, Running, jobVars
<1>4. ReportedHasTiles'
  <2>1. \A h \in Generators : tiles[h] \subseteq tiles'[h]
    <3>1. CASE tiles' = tiles
      BY <3>1
    <3>2. CASE tiles' = [tiles EXCEPT ![g] = @ \union {c}]
      BY <3>2 DEF TypeOK
    <3> QED
      BY <3>1, <3>2 DEF ZombieEnds
  <2> QED
    BY <2>1 DEF ZombieEnds, ReportedHasTiles, TypeOK
<1>5. OwnerHasTiles'
  BY SMTT(40) DEF ZombieEnds, TypeOK, OwnerHasTiles, Owned, dispatcherVars
<1>6. TriesLeft'
  BY DEF ZombieEnds, TypeOK, TriesLeft
<1> QED
  BY <1>1, <1>2, <1>3, <1>4, <1>5, <1>6

\* A session breaks, and nobody notices.
LEMMA DropSessionStep ==
    ASSUME IInv, DispatcherTypeOK', DOMAIN submitted \subseteq DOMAIN submitted',
           NEW g \in Generators, DropSession(g)
    PROVE  IInv'
<1> USE DEF IInv
<1>1. TypeOK'
  <2>1. faults' \in 0..MaxFaults
    BY MaxFaultsAssumption DEF DropSession, TypeOK
  <2>2. Nothing \in [Ccds -> Nat] /\ InPipeline(g) \subseteq Ccds
    BY DEF Nothing, InPipeline
  <2>3. /\ working' \in [Generators -> [Ccds -> Nat]]
        /\ zombies' \in [Generators -> SUBSET Ccds]
        /\ session' \in [Generators -> {"none", "open", "broken"}]
    BY <2>2 DEF DropSession, TypeOK
  <2> QED
    BY <2>1, <2>3 DEF DropSession, TypeOK, jobVars, registryVars, batchVars
<1>2. Handed'
  BY DEF DropSession, TypeOK, Handed, InPipeline, Nothing
<1>3. AtRest'
  BY DEF DropSession, TypeOK, AtRest, Running, InPipeline, Nothing, jobVars
<1>4. ReportedHasTiles'
  BY DEF DropSession, TypeOK, ReportedHasTiles, InPipeline, Nothing
<1>5. OwnerHasTiles'
  BY DEF DropSession, TypeOK, OwnerHasTiles, Owned, dispatcherVars
<1>6. TriesLeft'
  BY DEF DropSession, TypeOK, TriesLeft
<1> QED
  BY <1>1, <1>2, <1>3, <1>4, <1>5, <1>6

\* A generator dies.
LEMMA CrashStep ==
    ASSUME IInv, DispatcherTypeOK', DOMAIN submitted \subseteq DOMAIN submitted',
           NEW g \in Generators, Crash(g)
    PROVE  IInv'
<1> USE DEF IInv
<1>1. TypeOK'
  BY DEF Crash, TypeOK, Nothing, dispatcherVars, jobVars, registryVars, batchVars
<1>2. Handed'
  BY DEF Crash, TypeOK, Handed, Nothing
<1>3. AtRest'
  BY DEF Crash, TypeOK, AtRest, Running, Nothing, jobVars
<1>4. ReportedHasTiles'
  BY DEF Crash, TypeOK, ReportedHasTiles, Nothing
<1>5. OwnerHasTiles'
  BY DEF Crash, TypeOK, OwnerHasTiles, Owned, dispatcherVars
<1>6. TriesLeft'
  BY DEF Crash, TypeOK, TriesLeft
<1> QED
  BY <1>1, <1>2, <1>3, <1>4, <1>5, <1>6

\* Time passes.
LEMMA GrowOldStep ==
    ASSUME IInv, DispatcherTypeOK', DOMAIN submitted \subseteq DOMAIN submitted',
           NEW c \in Ccds, TimePasses(c)
    PROVE  IInv'
<1> USE DEF IInv
<1>1. TypeOK'
  BY DEF TimePasses, TypeOK, jobVars, registryVars, batchVars, sessionVars, diskVars
<1>2. Handed'
  BY DEF TimePasses, TypeOK, Handed, sessionVars
<1>3. AtRest'
  BY DEF TimePasses, TypeOK, AtRest, Running, jobVars, sessionVars
<1>4. ReportedHasTiles'
  BY DEF TimePasses, TypeOK, ReportedHasTiles, sessionVars, diskVars
<1>5. OwnerHasTiles'
  BY CallFacts DEF TimePasses, TypeOK, OwnerHasTiles, Owned, diskVars
<1>6. TriesLeft'
  BY DEF TimePasses, TypeOK, TriesLeft
<1> QED
  BY <1>1, <1>2, <1>3, <1>4, <1>5, <1>6

-----------------------------------------------------------------------------
(* The invariant, and what follows from it. *)

\* Every step keeps the invariant: the lemmas of the actions together.
LEMMA StepIInv == IInv /\ [Next]_vars => IInv'
<1> SUFFICES ASSUME IInv, [Next]_vars PROVE IInv'
  OBVIOUS
<1>1. DispatcherTypeOK' /\ DOMAIN submitted \subseteq DOMAIN submitted'
  <2>1. DispatcherTypeOK /\ [DispatcherNext]_dispatcherVars
    BY DispatcherStep DEF IInv, TypeOK
  <2> QED
    BY <2>1, DispatcherTypesKept, SubmittedGrows
<1>2. ASSUME NEW g \in Generators, WorkerStep(g)
      PROVE  IInv'
  BY <1>1, <1>2, ConnectStep, ConnectFailsStep, RetryStep, BatchNextStep, BatchEndsStep,
     AssignFirstStep, AssignNextStep, ReceiveErrorStep, SessionEndsStep,
     FetchForNewSessionStep, StopReturnsStep, StopStep, ReceiveCompletedStep, Zenon
     DEF WorkerStep
<1>3. CASE Start \/ Complete \/ Fail
  BY <1>1, <1>3, StartStep, CompleteStep, FailStep, Zenon
<1>4. ASSUME NEW g \in Generators,
             \/ WaitTask(g) \/ Register(g) \/ RemoveGenerator(g) \/ LostTask(g)
             \/ DropSession(g) \/ Crash(g) \/ SaveDistConfig(g)
      PROVE  IInv'
  BY <1>1, <1>4, WaitTaskStep, RegisterStep, RemoveGeneratorStep, LostTaskStep,
     DropSessionStep, CrashStep, SaveDistConfigStep, Zenon
<1>5. ASSUME NEW g \in Generators, NEW c \in Ccds,
             FinishCcd(g, c) \/ ZombieEnds(g, c) \/ WaitTaskReturns(g, c)
      PROVE  IInv'
  BY <1>1, <1>5, FinishCcdStep, ZombieEndsStep, WaitTaskReturnsStep, Zenon
<1>6. ASSUME NEW c \in Ccds, TimePasses(c)
      PROVE  IInv'
  BY <1>1, <1>6, GrowOldStep, Zenon
<1>7. CASE UNCHANGED vars
  <2> USE <1>7 DEF IInv, vars, jobVars, registryVars, batchVars, sessionVars, diskVars
  <2>1. TypeOK'
    BY <1>1 DEF TypeOK
  <2>2. Handed' /\ TriesLeft'
    BY <1>1 DEF Handed, TriesLeft
  <2>3. AtRest' /\ ReportedHasTiles'
    BY DEF AtRest, Running, ReportedHasTiles
  <2>4. OwnerHasTiles'
    BY DEF OwnerHasTiles, Owned, dispatcherVars
  <2> QED
    BY <2>1, <2>2, <2>3, <2>4
<1> QED
  BY <1>2, <1>3, <1>4, <1>5, <1>6, <1>7, Zenon DEF Next

\* The invariant that the theorems below rest on.
THEOREM InductiveInvariant == Spec => []IInv
BY InitIInv, StepIInv, PTL DEF Spec

\* Every state of a job has its types: a worker never has more free slots than
\* there are, and never more failures than it may have.
THEOREM TypeCorrect == Spec => []TypeOK
<1>1. IInv => TypeOK
  BY DEF IInv
<1> QED
  BY InductiveInvariant, <1>1, PTL

\* A generator that lives has the tiles of every CCD that it owns, whatever was
\* handed out, resubmitted, broken off, reported twice or deleted.
THEOREM OwnersHaveTiles == Spec => []OwnerHasTiles
<1>1. IInv => OwnerHasTiles
  BY DEF IInv
<1> QED
  BY InductiveInvariant, <1>1, PTL

-----------------------------------------------------------------------------
(* The slots. *)

\* No session has, or will have without its worker, a copy of a CCD.
NoCopies(g) == working[g] = Nothing /\ results[g] = Nothing /\ waits[g] = 0

\* What a worker's place says of its session: outside one, and in one for which
\* nothing was sent yet, there are no copies. There are finitely many otherwise.
Fits(g) ==
    /\ IsFiniteSet(Copies(working[g])) /\ IsFiniteSet(Copies(results[g]))
    /\ Load(g) <= MaxConcurrent
    /\ pc[g] \in {"none", "connect", "between", "retry", "stop", "done"} => NoCopies(g)
    /\ (pc[g] = "batch" /\ ~batchSent[g]) => NoCopies(g)
    /\ pc[g] = "first" => NoCopies(g) /\ slots[g] = 0

SlotInv == \A g \in Generators : Fits(g)

\* One copy more of a CCD is one more to count.
LEMMA CopiesUp ==
    ASSUME NEW f \in [Ccds -> Nat], IsFiniteSet(Copies(f)), NEW c \in Ccds,
           NEW h, h = [f EXCEPT ![c] = @ + 1]
    PROVE  IsFiniteSet(Copies(h)) /\ Total(h) = Total(f) + 1
<1>1. \A p : p \in Copies(f) <=>
         \E d \in Ccds, k \in Nat : p = <<d, k>> /\ 1 <= k /\ k <= f[d]
  BY DEF Copies
<1>2. \A p : p \in Copies(h) <=>
         \E d \in Ccds, k \in Nat : p = <<d, k>> /\ 1 <= k /\ k <= h[d]
  BY DEF Copies
<1>3. \A d \in Ccds : h[d] = IF d = c THEN f[c] + 1 ELSE f[d]
  OBVIOUS
<1>4. <<c, f[c] + 1>> \in Copies(h) /\ <<c, f[c] + 1>> \notin Copies(f)
  <2>1. f[c] \in Nat /\ f[c] + 1 \in Nat /\ 1 <= f[c] + 1 /\ h[c] = f[c] + 1
    BY <1>3
  <2>2. <<c, f[c] + 1>> \in Copies(h)
    <3>1. f[c] + 1 \in 1..h[c]
      BY <2>1
    <3>2. <<c, f[c] + 1>> \in {c} \X (1..h[c])
      BY <3>1
    <3> QED
      BY <3>2 DEF Copies
  <2>3. ASSUME <<c, f[c] + 1>> \in Copies(f) PROVE FALSE
    <3>1. PICK d \in Ccds, k \in Nat : <<c, f[c] + 1>> = <<d, k>> /\ k <= f[d]
      BY <1>1, <2>3
    <3>2. d = c /\ k = f[c] + 1
      BY <3>1
    <3> QED
      BY <2>1, <3>1, <3>2
  <2> QED
    BY <2>2, <2>3
<1>5. \A p : p \in Copies(h) <=> p \in Copies(f) \/ p = <<c, f[c] + 1>>
  <2>1. ASSUME NEW d \in Ccds, NEW k \in Nat
        PROVE  1 <= k /\ k <= h[d] <=>
                  (1 <= k /\ k <= f[d]) \/ (d = c /\ k = f[c] + 1)
    BY <1>3
  <2>2. \A p : p \in Copies(h) => p \in Copies(f) \/ p = <<c, f[c] + 1>>
    BY <1>1, <1>2, <2>1
  <2>3. \A p : p \in Copies(f) => p \in Copies(h)
    BY <1>1, <1>2, <2>1
  <2> QED
    BY <1>4, <2>2, <2>3
<1>6. Copies(h) = Copies(f) \union {<<c, f[c] + 1>>}
  BY <1>5
<1>7. Cardinality(Copies(h)) = Cardinality(Copies(f)) + 1 /\ IsFiniteSet(Copies(h))
  <2>1. \A x : x \notin Copies(f) =>
           /\ IsFiniteSet(Copies(f) \union {x})
           /\ Cardinality(Copies(f) \union {x}) = Cardinality(Copies(f)) + 1
    BY FS_AddElement
  <2> QED
    BY <1>4, <1>6, <2>1, Zenon
<1> QED
  BY <1>7 DEF Total

\* One copy less of a CCD is one less to count.
LEMMA CopiesDown ==
    ASSUME NEW f \in [Ccds -> Nat], IsFiniteSet(Copies(f)), NEW c \in Ccds, f[c] > 0,
           NEW h, h = [f EXCEPT ![c] = @ - 1]
    PROVE  IsFiniteSet(Copies(h)) /\ Total(h) = Total(f) - 1
<1>1. h \in [Ccds -> Nat] /\ f = [h EXCEPT ![c] = @ + 1]
  <2>1. f[c] \in Nat /\ f[c] - 1 \in Nat /\ (f[c] - 1) + 1 = f[c]
    OBVIOUS
  <2>2. h \in [Ccds -> Nat] /\ h[c] = f[c] - 1
    BY <2>1
  <2>3. [h EXCEPT ![c] = @ + 1] = [h EXCEPT ![c] = f[c]]
    BY <2>1, <2>2
  <2>4. \A d \in Ccds : [h EXCEPT ![c] = f[c]][d] = f[d]
    BY <2>2
  <2> QED
    BY <2>2, <2>3, <2>4
<1>2. IsFiniteSet(Copies(h))
  <2>1. ASSUME NEW d \in Ccds, NEW k \in 1..h[d]
        PROVE  k \in 1..f[d]
    OBVIOUS
  <2>2. Copies(h) \subseteq Copies(f)
    BY <2>1 DEF Copies
  <2> QED
    BY <2>2, FS_Subset
<1> QED
  BY <1>1, <1>2, CopiesUp, FS_CardinalityType DEF Total

\* A session that has nothing counts nothing.
LEMMA CopiesOfNothing ==
    /\ IsFiniteSet(Copies(Nothing))
    /\ Total(Nothing) = 0
<1>1. \A d \in Ccds : 1..Nothing[d] = {}
  BY DEF Nothing
<1>2. Copies(Nothing) = {}
  BY <1>1 DEF Copies, Nothing
<1> QED
  BY <1>2, FS_EmptySet DEF Total

\* The numbers that a load is the sum of.
LEMMA LoadType ==
    ASSUME TypeOK, NEW g \in Generators, Fits(g)
    PROVE  /\ Total(working[g]) \in Nat /\ Total(results[g]) \in Nat
           /\ slots[g] \in Nat /\ slots[g] <= MaxConcurrent /\ waits[g] \in Nat
           /\ working[g] \in [Ccds -> Nat] /\ results[g] \in [Ccds -> Nat]
           /\ MaxConcurrent \in Nat /\ MaxConcurrent >= 1
<1>1. slots[g] \in 0..MaxConcurrent /\ waits[g] \in Nat
  BY DEF TypeOK
<1>2. working[g] \in [Ccds -> Nat] /\ results[g] \in [Ccds -> Nat]
  BY DEF TypeOK
<1> QED
  BY <1>1, <1>2, FS_CardinalityType, MaxConcurrentAssumption DEF Total, Fits

\* What a generator's session and worker have not changed stays.
LEMMA FitsKept ==
    ASSUME NEW g \in Generators, Fits(g),
           working'[g] = working[g], results'[g] = results[g], slots'[g] = slots[g],
           waits'[g] = waits[g], pc'[g] = pc[g], batchSent'[g] = batchSent[g]
    PROVE  Fits(g)'
BY DEF Fits, Load, NoCopies

\* Whoever has left its session fits, wherever it goes.
LEMMA FitsWithout ==
    ASSUME TypeOK', NEW g \in Generators, NoCopies(g)', pc'[g] # "assign",
           pc'[g] = "first" => slots'[g] = 0
    PROVE  Fits(g)'
<1>1. /\ IsFiniteSet(Copies(working'[g])) /\ IsFiniteSet(Copies(results'[g]))
      /\ Total(working'[g]) = 0 /\ Total(results'[g]) = 0
  BY CopiesOfNothing DEF NoCopies
<1>2. slots'[g] \in Nat /\ slots'[g] <= MaxConcurrent
  BY MaxConcurrentAssumption DEF TypeOK
<1> QED
  BY <1>1, <1>2 DEF Fits, Load, NoCopies

\* A step of one generator's worker or session leaves the others alone.
Others(g) == \A h \in Generators \ {g} :
    /\ working'[h] = working[h] /\ results'[h] = results[h] /\ slots'[h] = slots[h]
    /\ waits'[h] = waits[h] /\ pc'[h] = pc[h] /\ batchSent'[h] = batchSent[h]

\* Then only the generator itself is to be looked at.
LEMMA FitsStep ==
    ASSUME SlotInv, NEW g \in Generators, Others(g), Fits(g)'
    PROVE  SlotInv'
BY FitsKept DEF SlotInv, Others

\* A session that is closed has nothing.
LEMMA CloseFits ==
    ASSUME TypeOK, NEW g \in Generators, CloseSession(g)
    PROVE  /\ NoCopies(g)'
           /\ \A h \in Generators \ {g} :
                 working'[h] = working[h] /\ results'[h] = results[h] /\ waits'[h] = waits[h]
BY DEF CloseSession, NoCopies, TypeOK

\* A worker is where it was, its session got a copy or not, and a slot is free for it.
\* No worker has a copy less than before.
LEMMA SendFits ==
    ASSUME TypeOK, TypeOK', SlotInv, NEW g \in Generators, NEW c \in Ccds,
           NEW next \in {"batch", "serve"}, pc[g] \in {"batch", "first", "assign"},
           Send(g, c, next),
           pc[g] = "batch" => slots[g] > 0,
           slots' = IF pc[g] = "batch" THEN [slots EXCEPT ![g] = @ - 1] ELSE slots,
           batchSent' = IF next = "batch" THEN [batchSent EXCEPT ![g] = TRUE] ELSE batchSent
    PROVE  SlotInv'
<1>1. Fits(g) /\ MaxConcurrent \in Nat
  BY MaxConcurrentAssumption DEF SlotInv
<1>2. CASE ConnectionError(g)
  <2>1. pc'[g] \in {"stop", "retry"} /\ \A h \in Generators \ {g} : pc'[h] = pc[h]
    BY <1>2 DEF ConnectionError, TypeOK
  <2>2. Fits(g)'
    BY <1>2, <2>1, CloseFits, FitsWithout DEF ConnectionError
  <2>3. Others(g)
    BY <1>2, <2>1, CloseFits DEF ConnectionError, Others, TypeOK
  <2> QED
    BY <2>2, <2>3, FitsStep
<1>3. CASE /\ Delivered(g, c) \/ LostInTransit(g)
           /\ pc' = [pc EXCEPT ![g] = next]
           /\ UNCHANGED <<failures, waits>>
  <2>1. /\ results' = results /\ waits' = waits
        /\ working' \in {working, [working EXCEPT ![g][c] = @ + 1]}
    BY <1>3 DEF Delivered, LostInTransit
  <2>2. Others(g)
    BY <1>3, <2>1 DEF Others, TypeOK
  <2>3. /\ IsFiniteSet(Copies(working'[g]))
        /\ Total(working'[g]) \in {Total(working[g]), Total(working[g]) + 1}
    <3>1. CASE working' = working
      BY <1>1, <3>1 DEF Fits
    <3>2. CASE working' = [working EXCEPT ![g][c] = @ + 1]
      <4>1. working'[g] = [working[g] EXCEPT ![c] = @ + 1] /\ working[g] \in [Ccds -> Nat]
        BY <3>2 DEF TypeOK
      <4> QED
        BY <1>1, <4>1, CopiesUp DEF Fits
    <3> QED
      BY <2>1, <3>1, <3>2
  <2>4. Load(g)' <= MaxConcurrent
    <3>1. pc'[g] = next /\ next # "assign"
      BY <1>3 DEF TypeOK
    <3>2. CASE pc[g] = "batch"
      <4>1. slots'[g] = slots[g] - 1
        BY <3>2 DEF TypeOK
      <4> QED
        BY <1>1, <2>1, <2>3, <3>1, <3>2, <4>1, LoadType DEF Fits, Load
    <3>3. CASE pc[g] = "first"
      <4>1. /\ Total(working[g]) = 0 /\ Total(results[g]) = 0 /\ waits[g] = 0
            /\ slots'[g] = 0
        BY <1>1, <3>3, CopiesOfNothing DEF Fits, NoCopies
      <4> QED
        BY <1>1, <2>1, <2>3, <3>1, <4>1, LoadType DEF Load
    <3>4. CASE pc[g] = "assign"
      BY <1>1, <2>1, <2>3, <3>1, <3>4, LoadType DEF Fits, Load
    <3> QED
      BY <3>2, <3>3, <3>4
  <2>5. pc'[g] = "serve" \/ (pc'[g] = "batch" /\ batchSent'[g])
    BY <1>3 DEF TypeOK
  <2>6. Fits(g)'
    BY <1>1, <2>1, <2>3, <2>4, <2>5 DEF Fits
  <2> QED
    BY <2>2, <2>6, FitsStep
<1> QED
  BY <1>2, <1>3 DEF Send

\* A new session starts with all its slots, or with the fetched CCD and the others.
LEMMA ConnectSlots ==
    ASSUME TypeOK, TypeOK', SlotInv, NEW g \in Generators, Connect(g)
    PROVE  SlotInv'
<1>1. NoCopies(g) /\ MaxConcurrent \in Nat /\ MaxConcurrent >= 1
  BY MaxConcurrentAssumption DEF Connect, SlotInv, Fits
<1>2. /\ results' = results /\ waits' = waits /\ pc' = [pc EXCEPT ![g] = "batch"]
  BY DEF Connect
<1>3. CASE pending[g] = NoCcd
  <2>1. /\ slots' = [slots EXCEPT ![g] = MaxConcurrent]
        /\ working' = working /\ batchSent' = batchSent
    BY <1>3 DEF Connect
  <2>2. Others(g)
    BY <1>2, <2>1 DEF Others, TypeOK
  <2>3. NoCopies(g)' /\ pc'[g] = "batch"
    BY <1>1, <1>2, <2>1 DEF NoCopies, TypeOK
  <2> QED
    BY <2>2, <2>3, FitsWithout, FitsStep
<1>4. CASE pending[g] # NoCcd
  <2>1. /\ slots' = [slots EXCEPT ![g] = MaxConcurrent - 1]
        /\ working' = [working EXCEPT ![g][pending[g]] = @ + 1]
        /\ batchSent' = [batchSent EXCEPT ![g] = TRUE]
    BY <1>4 DEF Connect
  <2>2. Others(g)
    BY <1>2, <2>1 DEF Others, TypeOK
  <2>3. pending[g] \in Ccds /\ working[g] = Nothing /\ working[g] \in [Ccds -> Nat]
    BY <1>1, <1>4 DEF NoCopies, TypeOK
  <2>4. working'[g] = [working[g] EXCEPT ![pending[g]] = @ + 1]
    BY <2>1 DEF TypeOK
  <2>5. IsFiniteSet(Copies(working'[g])) /\ Total(working'[g]) = 1
    <3>1. IsFiniteSet(Copies(working[g])) /\ Total(working[g]) = 0
      BY <2>3, CopiesOfNothing
    <3>2. pending[g] \in Ccds /\ working[g] \in [Ccds -> Nat]
      BY <2>3
    <3>3. IsFiniteSet(Copies(working'[g])) /\ Total(working'[g]) = Total(working[g]) + 1
      BY <2>4, <3>1, <3>2, CopiesUp
    <3> QED
      BY <3>1, <3>3
  <2>6. /\ IsFiniteSet(Copies(results'[g])) /\ Total(results'[g]) = 0
        /\ waits'[g] = 0
    BY <1>1, <1>2, CopiesOfNothing DEF NoCopies
  <2>7. slots'[g] = MaxConcurrent - 1 /\ pc'[g] = "batch" /\ batchSent'[g]
    BY <1>2, <2>1 DEF TypeOK
  <2>8. Fits(g)'
    BY <1>1, <2>5, <2>6, <2>7 DEF Fits, Load
  <2> QED
    BY <2>2, <2>8, FitsStep
<1> QED
  BY <1>3, <1>4

\* A connection that fails leaves nothing.
LEMMA ConnectFailsSlots ==
    ASSUME TypeOK, TypeOK', SlotInv, NEW g \in Generators, ConnectFails(g)
    PROVE  SlotInv'
<1>1. CloseSession(g) /\ slots' = slots /\ batchSent' = batchSent
  BY DEF ConnectFails, ConnectionError, batchVars
<1>2. pc'[g] \in {"stop", "retry"} /\ \A h \in Generators \ {g} : pc'[h] = pc[h]
  BY DEF ConnectFails, ConnectionError, TypeOK
<1>3. Others(g)
  BY <1>1, <1>2, CloseFits DEF Others
<1>4. Fits(g)'
  BY <1>1, <1>2, CloseFits, FitsWithout
<1> QED
  BY <1>3, <1>4, FitsStep

\* A slot of the batch is used for a CCD, or there is none for it.
LEMMA BatchNextSlots ==
    ASSUME TypeOK, TypeOK', SlotInv, NEW g \in Generators, BatchNext(g)
    PROVE  SlotInv'
<1>1. pc[g] = "batch" /\ slots[g] > 0 /\ slots' = [slots EXCEPT ![g] = @ - 1]
  BY DEF BatchNext
<1>2. slots'[g] = slots[g] - 1 /\ slots[g] \in Nat
  BY <1>1, MaxConcurrentAssumption DEF TypeOK
<1>3. ASSUME NEW c \in Ccds, Send(g, c, "batch"), batchSent' = [batchSent EXCEPT ![g] = TRUE]
      PROVE  SlotInv'
  BY <1>1, <1>2, <1>3, SendFits
<1>4. CASE UNCHANGED <<sessionVars, pc, batchSent>>
  <2>1. Others(g) /\ Fits(g) /\ pc'[g] = "batch"
    BY <1>1, <1>4 DEF sessionVars, Others, SlotInv, TypeOK
  <2>2. /\ working' = working /\ results' = results /\ waits' = waits
        /\ batchSent' = batchSent
    BY <1>4 DEF sessionVars
  <2>3. Load(g)' <= MaxConcurrent
    BY <1>1, <1>2, <2>1, <2>2, LoadType DEF Load, Fits
  <2>4. Fits(g)'
    BY <1>1, <2>1, <2>2, <2>3 DEF Fits, NoCopies
  <2> QED
    BY <2>1, <2>4, FitsStep
<1> QED
  BY <1>3, <1>4 DEF BatchNext

\* A worker whose batch sent nothing has nothing.
LEMMA BatchEndsSlots ==
    ASSUME TypeOK, TypeOK', SlotInv, NEW g \in Generators, BatchEnds(g)
    PROVE  SlotInv'
<1>1. /\ pc[g] = "batch" /\ slots[g] = 0 /\ slots' = slots
      /\ pc' = [pc EXCEPT ![g] = IF batchSent[g] THEN "serve" ELSE "first"]
      /\ batchSent' = [batchSent EXCEPT ![g] = FALSE]
      /\ working' = working /\ results' = results /\ waits' = waits
  BY DEF BatchEnds, sessionVars
<1>2. Others(g)
  BY <1>1 DEF Others, TypeOK
<1>3. pc'[g] = IF batchSent[g] THEN "serve" ELSE "first"
  BY <1>1 DEF TypeOK
<1>4. Fits(g)
  BY DEF SlotInv
<1>5. Load(g)' <= MaxConcurrent
  BY <1>1, <1>3, <1>4, LoadType DEF Load, Fits
<1>6. Fits(g)'
  BY <1>1, <1>3, <1>4, <1>5 DEF Fits, NoCopies
<1> QED
  BY <1>2, <1>6, FitsStep

\* The first CCD of a session without a batch.
LEMMA AssignFirstSlots ==
    ASSUME TypeOK, TypeOK', SlotInv, NEW g \in Generators, AssignFirst(g)
    PROVE  SlotInv'
<1>1. PICK c \in Ccds : Send(g, c, "serve")
  BY DEF AssignFirst
<1>2. pc[g] = "first" /\ slots' = slots /\ batchSent' = batchSent
  BY DEF AssignFirst, batchVars
<1> QED
  BY <1>1, <1>2, SendFits

\* A reported CCD gives its slot to the next one.
LEMMA ReceiveCompletedSlots ==
    ASSUME TypeOK, TypeOK', SlotInv, NEW g \in Generators, NEW c \in Ccds,
           ReceiveCompleted(g, c)
    PROVE  SlotInv'
<1>1. /\ pc[g] = "serve" /\ results[g][c] > 0
      /\ results' = [results EXCEPT ![g][c] = @ - 1]
      /\ pc' = [pc EXCEPT ![g] = "assign"]
      /\ working' = working /\ waits' = waits /\ slots' = slots /\ batchSent' = batchSent
  BY DEF ReceiveCompleted, batchVars
<1>2. Others(g) /\ Fits(g)
  BY <1>1 DEF Others, SlotInv, TypeOK
<1>3. /\ results'[g] = [results[g] EXCEPT ![c] = @ - 1] /\ pc'[g] = "assign"
      /\ results[g] \in [Ccds -> Nat]
  BY <1>1 DEF TypeOK
<1>4. /\ IsFiniteSet(Copies(results'[g]))
      /\ Total(results'[g]) = Total(results[g]) - 1
  BY <1>1, <1>2, <1>3, CopiesDown DEF Fits
<1>5. Load(g)' <= MaxConcurrent
  BY <1>1, <1>2, <1>3, <1>4, LoadType DEF Load, Fits
<1>6. Fits(g)'
  BY <1>1, <1>2, <1>3, <1>4, <1>5 DEF Fits
<1> QED
  BY <1>2, <1>6, FitsStep

\* It takes the slot, or a task waits for one that does.
LEMMA AssignNextSlots ==
    ASSUME TypeOK, TypeOK', SlotInv, NEW g \in Generators, AssignNext(g)
    PROVE  SlotInv'
<1>1. pc[g] = "assign" /\ slots' = slots /\ batchSent' = batchSent
  BY DEF AssignNext, batchVars
<1>2. ASSUME NEW c \in Ccds, Send(g, c, "serve")
      PROVE  SlotInv'
  BY <1>1, <1>2, SendFits
<1>3. CASE /\ waits' = IF allCompleted THEN waits ELSE [waits EXCEPT ![g] = @ + 1]
           /\ pc' = [pc EXCEPT ![g] = "serve"]
           /\ UNCHANGED <<working, results>>
  <2>1. Others(g) /\ Fits(g) /\ pc'[g] = "serve" /\ waits'[g] \in {waits[g], waits[g] + 1}
    BY <1>1, <1>3 DEF Others, SlotInv, TypeOK
  <2>2. Load(g)' <= MaxConcurrent
    BY <1>1, <1>3, <2>1, LoadType DEF Load, Fits
  <2>3. Fits(g)'
    BY <1>1, <1>3, <2>1, <2>2 DEF Fits
  <2> QED
    BY <2>1, <2>3, FitsStep
<1> QED
  BY <1>2, <1>3 DEF AssignNext

\* A session that ends leaves nothing, wherever its worker goes.
LEMMA SessionEndsSlots ==
    ASSUME TypeOK, TypeOK', SlotInv, NEW g \in Generators, ReceiveError(g) \/ SessionEnds(g)
    PROVE  SlotInv'
<1>1. CloseSession(g) /\ slots' = slots /\ batchSent' = batchSent
  BY DEF ReceiveError, SessionEnds, batchVars
<1>2. pc'[g] \in {"done", "stop", "between"} /\ \A h \in Generators \ {g} : pc'[h] = pc[h]
  BY DEF ReceiveError, SessionEnds, TypeOK
<1>3. Others(g)
  BY <1>1, <1>2, CloseFits DEF Others
<1>4. Fits(g)'
  BY <1>1, <1>2, CloseFits, FitsWithout
<1> QED
  BY <1>3, <1>4, FitsStep

\* A worker between its sessions has nothing, wherever it goes.
LEMMA BetweenSlots ==
    ASSUME TypeOK, TypeOK', SlotInv, NEW g \in Generators,
           FetchForNewSession(g) \/ Retry(g) \/ StopReturns(g) \/ Stop(g)
    PROVE  SlotInv'
<1>1. /\ working' = working /\ results' = results /\ waits' = waits
      /\ slots' = slots /\ batchSent' = batchSent
  BY DEF FetchForNewSession, Retry, StopReturns, Stop, sessionVars, batchVars
<1>2. /\ pc[g] \in {"between", "retry", "stop"}
      /\ pc'[g] \in {"stop", "connect", "between", "done"}
      /\ \A h \in Generators \ {g} : pc'[h] = pc[h]
  BY DEF FetchForNewSession, Retry, StopReturns, Stop, TypeOK
<1>3. NoCopies(g)'
  BY <1>1, <1>2 DEF SlotInv, Fits, NoCopies
<1>4. Others(g)
  BY <1>1, <1>2 DEF Others
<1> QED
  BY <1>2, <1>3, <1>4, FitsWithout, FitsStep

\* The task that waited has a CCD for its slot.
LEMMA WaitTaskSlots ==
    ASSUME TypeOK, TypeOK', SlotInv, NEW g \in Generators, WaitTask(g)
    PROVE  SlotInv'
<1>1. /\ waits[g] > 0 /\ waits' = [waits EXCEPT ![g] = @ - 1]
      /\ pc' = pc /\ slots' = slots /\ batchSent' = batchSent
  BY DEF WaitTask, batchVars
<1>2. PICK c \in Ccds : Delivered(g, c) \/ LostInTransit(g)
  BY DEF WaitTask
<1>3. /\ results' = results
      /\ working' \in {working, [working EXCEPT ![g][c] = @ + 1]}
  BY <1>2 DEF Delivered, LostInTransit
<1>4. Others(g) /\ Fits(g) /\ waits'[g] = waits[g] - 1
  BY <1>1, <1>3 DEF Others, SlotInv, TypeOK
<1>5. ~NoCopies(g)
  BY <1>1 DEF NoCopies
<1>6. /\ IsFiniteSet(Copies(working'[g]))
      /\ Total(working'[g]) \in {Total(working[g]), Total(working[g]) + 1}
  <2>1. CASE working' = working
    BY <1>4, <2>1 DEF Fits
  <2>2. CASE working' = [working EXCEPT ![g][c] = @ + 1]
    <3>1. working'[g] = [working[g] EXCEPT ![c] = @ + 1] /\ working[g] \in [Ccds -> Nat]
      BY <2>2 DEF TypeOK
    <3> QED
      BY <1>4, <3>1, CopiesUp DEF Fits
  <2> QED
    BY <1>3, <2>1, <2>2
<1>7. Load(g)' <= MaxConcurrent
  BY <1>1, <1>3, <1>4, <1>6, LoadType DEF Load, Fits
<1>8. Fits(g)'
  BY <1>1, <1>3, <1>4, <1>5, <1>6, <1>7 DEF Fits
<1> QED
  BY <1>4, <1>8, FitsStep

\* Before the job no worker has a session.
LEMMA StartSlots ==
    ASSUME TypeOK, TypeOK', AtRest, SlotInv, Start
    PROVE  SlotInv'
<1>1. /\ working' = working /\ results' = results /\ waits' = waits
      /\ slots' = slots /\ batchSent' = batchSent
  BY DEF Start, sessionVars, batchVars
<1>2. ASSUME NEW g \in Generators
      PROVE  Fits(g)'
  <2>1. pc[g] = "none" /\ pc'[g] \in {"none", "connect"}
    BY DEF Start, AtRest, Running
  <2>2. NoCopies(g)'
    BY <1>1, <2>1 DEF SlotInv, Fits, NoCopies
  <2> QED
    BY <2>1, <2>2, FitsWithout
<1> QED
  BY <1>2 DEF SlotInv

\* After it neither.
LEMMA CancelSlots ==
    ASSUME TypeOK, TypeOK', SlotInv, Complete \/ Fail
    PROVE  SlotInv'
<1>1. ASSUME NEW g \in Generators
      PROVE  Fits(g)'
  <2>1. NoCopies(g)'
    BY DEF Complete, Fail, CancelWorkers, NoCopies
  <2>2. pc'[g] \in {"none", "stop", "done"}
    BY DEF Complete, Fail, CancelWorkers, Workers, TypeOK
  <2> QED
    BY <2>1, <2>2, FitsWithout
<1> QED
  BY <1>1 DEF SlotInv

\* A generator that registers has no session yet.
LEMMA RegisterSlots ==
    ASSUME TypeOK, TypeOK', SlotInv, NEW g \in Generators, Register(g)
    PROVE  SlotInv'
<1>1. /\ working' = working /\ results' = results /\ waits' = waits
      /\ slots' = slots /\ batchSent' = batchSent
      /\ \A h \in Generators \ {g} : pc'[h] = pc[h]
      /\ pc'[g] = pc[g] \/ (pc[g] = "none" /\ pc'[g] = "connect")
  BY DEF Register, sessionVars, batchVars, TypeOK
<1>2. Others(g)
  BY <1>1 DEF Others
<1>3. Fits(g)'
  <2>1. CASE pc'[g] = pc[g]
    BY <1>1, <2>1, FitsKept DEF SlotInv
  <2>2. CASE pc[g] = "none" /\ pc'[g] = "connect"
    BY <1>1, <2>2, FitsWithout DEF SlotInv, Fits, NoCopies
  <2> QED
    BY <1>1, <2>1, <2>2
<1> QED
  BY <1>2, <1>3, FitsStep

\* A copy that is reported is no longer worked on.
LEMMA FinishCcdSlots ==
    ASSUME TypeOK, TypeOK', SlotInv, NEW g \in Generators, NEW c \in Ccds, FinishCcd(g, c)
    PROVE  SlotInv'
<1>1. /\ working[g][c] > 0
      /\ working' = [working EXCEPT ![g][c] = @ - 1]
      /\ results' = [results EXCEPT ![g][c] = @ + 1]
      /\ waits' = waits /\ pc' = pc /\ slots' = slots /\ batchSent' = batchSent
  BY DEF FinishCcd, batchVars
<1>2. Others(g) /\ Fits(g)
  BY <1>1 DEF Others, SlotInv, TypeOK
<1>3. /\ working[g] \in [Ccds -> Nat] /\ results[g] \in [Ccds -> Nat]
      /\ working'[g] = [working[g] EXCEPT ![c] = @ - 1]
      /\ results'[g] = [results[g] EXCEPT ![c] = @ + 1]
  BY <1>1 DEF TypeOK
<1>4. ~NoCopies(g)
  BY <1>1 DEF NoCopies, Nothing
<1>5. IsFiniteSet(Copies(working'[g])) /\ Total(working'[g]) = Total(working[g]) - 1
  BY <1>1, <1>2, <1>3, CopiesDown DEF Fits
<1>6. IsFiniteSet(Copies(results'[g])) /\ Total(results'[g]) = Total(results[g]) + 1
  BY <1>2, <1>3, CopiesUp DEF Fits
<1>7. Load(g)' <= MaxConcurrent
  BY <1>1, <1>2, <1>5, <1>6, LoadType DEF Load, Fits
<1>8. Fits(g)'
  BY <1>1, <1>2, <1>4, <1>5, <1>6, <1>7 DEF Fits
<1> QED
  BY <1>2, <1>8, FitsStep

\* A session that broke, or a generator that died, works on nothing.
LEMMA BrokenSlots ==
    ASSUME TypeOK, TypeOK', SlotInv, NEW g \in Generators, DropSession(g) \/ Crash(g)
    PROVE  SlotInv'
<1>1. /\ working' = [working EXCEPT ![g] = Nothing]
      /\ results' = results /\ waits' = waits
      /\ pc' = pc /\ slots' = slots /\ batchSent' = batchSent
  BY DEF DropSession, Crash, batchVars
<1>2. Others(g) /\ Fits(g) /\ working'[g] = Nothing
  BY <1>1 DEF Others, SlotInv, TypeOK
<1>3. IsFiniteSet(Copies(working'[g])) /\ Total(working'[g]) = 0
  BY <1>2, CopiesOfNothing
<1>4. Load(g)' <= MaxConcurrent
  BY <1>1, <1>2, <1>3, LoadType DEF Load, Fits
<1>5. Fits(g)'
  BY <1>1, <1>2, <1>3, <1>4 DEF Fits, NoCopies
<1> QED
  BY <1>2, <1>5, FitsStep

\* The other steps leave sessions and workers alone.
LEMMA OtherSlots ==
    ASSUME SlotInv,
           UNCHANGED <<working, results, waits, slots, batchSent, pc>>
    PROVE  SlotInv'
BY FitsKept DEF SlotInv

\* A job starts without sessions.
LEMMA InitSlots == Init => SlotInv
<1> SUFFICES ASSUME Init, NEW g \in Generators PROVE Fits(g)
  BY DEF SlotInv
<1>1. /\ working[g] = Nothing /\ results[g] = Nothing /\ waits[g] = 0 /\ slots[g] = 0
      /\ pc[g] = "none" /\ MaxConcurrent \in Nat
  BY MaxConcurrentAssumption DEF Init
<1> QED
  BY <1>1, CopiesOfNothing DEF Fits, Load, NoCopies

\* Every step keeps the sessions within their slots.
LEMMA StepSlots == IInv /\ IInv' /\ SlotInv /\ [Next]_vars => SlotInv'
<1> SUFFICES ASSUME IInv, IInv', SlotInv, [Next]_vars PROVE SlotInv'
  OBVIOUS
<1>1. TypeOK /\ TypeOK' /\ AtRest
  BY DEF IInv
<1>2. ASSUME NEW g \in Generators, WorkerStep(g)
      PROVE  SlotInv'
  BY <1>1, <1>2, ConnectSlots, ConnectFailsSlots, BatchNextSlots, BatchEndsSlots,
     AssignFirstSlots, AssignNextSlots, SessionEndsSlots, BetweenSlots,
     ReceiveCompletedSlots, Zenon DEF WorkerStep
<1>3. CASE Start \/ Complete \/ Fail
  BY <1>1, <1>3, StartSlots, CancelSlots, Zenon
<1>4. ASSUME NEW g \in Generators,
             WaitTask(g) \/ Register(g) \/ DropSession(g) \/ Crash(g)
      PROVE  SlotInv'
  BY <1>1, <1>4, WaitTaskSlots, RegisterSlots, BrokenSlots, Zenon
<1>5. ASSUME NEW g \in Generators, RemoveGenerator(g) \/ LostTask(g) \/ SaveDistConfig(g)
      PROVE  SlotInv'
  BY <1>5, OtherSlots
     DEF RemoveGenerator, LostTask, SaveDistConfig, sessionVars, batchVars
<1>6. ASSUME NEW g \in Generators, NEW c \in Ccds, FinishCcd(g, c)
      PROVE  SlotInv'
  BY <1>1, <1>6, FinishCcdSlots
<1>7. ASSUME NEW g \in Generators, NEW c \in Ccds, ZombieEnds(g, c) \/ WaitTaskReturns(g, c)
      PROVE  SlotInv'
  BY <1>7, OtherSlots DEF ZombieEnds, WaitTaskReturns, sessionVars, batchVars
<1>8. ASSUME NEW c \in Ccds, TimePasses(c)
      PROVE  SlotInv'
  BY <1>8, OtherSlots DEF TimePasses, sessionVars, batchVars
<1>9. CASE UNCHANGED vars
  BY <1>9, OtherSlots DEF vars, sessionVars, batchVars
<1> QED
  BY <1>2, <1>3, <1>4, <1>5, <1>6, <1>7, <1>8, <1>9, Zenon DEF Next

\* No worker hands its generator more than generator_max_concurrent_ccds_per_job CCDs,
\* for any number of slots, retries and faults: what a session holds, what its worker is
\* about to send and what its tasks wait for fit into the slots.
THEOREM SlotsAreRespected == Spec => []SlotsRespected
<1>1. IInv /\ SlotInv /\ IInv' /\ [Next]_vars => SlotInv'
  BY StepSlots
<1>2. SlotInv => SlotsRespected
  BY DEF SlotInv, Fits, SlotsRespected
<1> QED
  BY InitSlots, <1>1, <1>2, InductiveInvariant, PTL DEF Spec

-----------------------------------------------------------------------------
(* The job implements the dispatcher's specification. *)

\* However many workers, sessions and failures there are, what they do to the
\* dispatcher is a sequence of its calls, each for a CCD that was handed out.
THEOREM UsesDispatcher == Spec => FollowsDispatcher
<1>1. Init => DispatcherInit
  BY DEF Init
<1>2. IInv /\ [Next]_vars => [DispatcherNext]_(dispatcherVars)
  BY DispatcherStep DEF dispatcherVars
<1> QED
  BY InductiveInvariant, <1>1, <1>2, PTL DEF Spec, FollowsDispatcher, DispatcherSpec

\* The coordinator's event is set exactly when all CCDs of the job have an owner.
THEOREM JobCompletionExact == Spec => []CompletionIsExact
BY UsesDispatcher, CompletionExact, PTL DEF FollowsDispatcher

\* The counters of a job stay within the cap.
LEMMA JobAttemptLimit == Spec => []AttemptsBounded
BY UsesDispatcher, AttemptLimit, PTL DEF FollowsDispatcher

-----------------------------------------------------------------------------
(* The copies of a CCD that a job has out. *)

\* What is taken from a finite set, or one more, is counted.
LEMMA Counting ==
    ASSUME NEW S, IsFiniteSet(S), NEW T, NEW x
    PROVE  /\ Cardinality(S) \in Nat
           /\ T \subseteq S => IsFiniteSet(T) /\ Cardinality(T) <= Cardinality(S)
           /\ T \subseteq S \union {x} => IsFiniteSet(T) /\ Cardinality(T) <= Cardinality(S) + 1
           /\ x \in S /\ T \subseteq S \ {x} =>
                 IsFiniteSet(T) /\ Cardinality(T) + 1 <= Cardinality(S)
           /\ IsFiniteSet(T) => Cardinality(T) \in Nat
<1>1. Cardinality(S) \in Nat /\ (IsFiniteSet(T) => Cardinality(T) \in Nat)
  BY FS_CardinalityType
<1>2. T \subseteq S => IsFiniteSet(T) /\ Cardinality(T) <= Cardinality(S)
  BY FS_Subset
<1>3. IsFiniteSet(S \union {x}) /\ Cardinality(S \union {x}) <= Cardinality(S) + 1
  <2>1. CASE x \in S
    <3>1. IsFiniteSet(S \union {x}) /\ Cardinality(S \union {x}) = Cardinality(S)
      <4>1. S \union {x} = S
        BY <2>1
      <4> QED
        BY <4>1, Zenon
    <3> QED
      BY <1>1, <3>1
  <2>2. CASE x \notin S
    <3>1. IsFiniteSet(S \union {x}) /\ Cardinality(S \union {x}) = Cardinality(S) + 1
      BY <2>2, FS_AddElement
    <3> QED
      BY <1>1, <3>1
  <2> QED
    BY <2>1, <2>2
<1>4. T \subseteq S \union {x} => IsFiniteSet(T) /\ Cardinality(T) <= Cardinality(S) + 1
  <2>1. T \subseteq S \union {x} =>
          IsFiniteSet(T) /\ Cardinality(T) <= Cardinality(S \union {x})
    BY <1>3, FS_Subset
  <2> QED
    BY <1>1, <1>3, <2>1, FS_CardinalityType
<1>5. x \in S => IsFiniteSet(S \ {x}) /\ Cardinality(S \ {x}) = Cardinality(S) - 1
  BY FS_RemoveElement
<1>6. ASSUME x \in S, T \subseteq S \ {x}
      PROVE  IsFiniteSet(T) /\ Cardinality(T) + 1 <= Cardinality(S)
  <2>1. IsFiniteSet(T) /\ Cardinality(T) <= Cardinality(S \ {x})
    BY <1>5, <1>6, FS_Subset
  <2> QED
    BY <1>1, <1>5, <1>6, <2>1
<1> QED
  BY <1>1, <1>2, <1>4, <1>6

\* Each copy of c that is out is a handing-out that was not given back.
Counted(c) == IsFiniteSet(OutCopies(c)) /\ Cardinality(OutCopies(c)) <= attempts[c]

CopiesInv == \A c \in Ccds : Counted(c)

\* The copies of c, by their generators and numbers.
OutNumbered == \A c \in Ccds :
    /\ \A g \in Generators : OutAt(g, c) \in Nat
    /\ \A p : p \in OutCopies(c) <=>
          \E g \in Generators, k \in Nat :
             /\ p = <<g, k>>
             /\ (k = 0 /\ <<g, c>> \in returning) \/ (1 <= k /\ k <= OutAt(g, c))

LEMMA OutMembers == TypeOK => OutNumbered
<1> SUFFICES ASSUME TypeOK, NEW c \in Ccds
             PROVE  /\ \A g \in Generators : OutAt(g, c) \in Nat
                    /\ \A p : p \in OutCopies(c) <=>
                          \E g \in Generators, k \in Nat :
                             /\ p = <<g, k>>
                             /\ \/ k = 0 /\ <<g, c>> \in returning
                                \/ 1 <= k /\ k <= OutAt(g, c)
  BY DEF OutNumbered
<1>1. ASSUME NEW g \in Generators
      PROVE  OutAt(g, c) \in Nat
  <2>1. working[g][c] \in Nat /\ results[g][c] \in Nat
    BY DEF TypeOK
  <2> QED
    BY <2>1 DEF OutAt
<1>2. \A g \in Generators : \A k :
         k \in 1..OutAt(g, c) <=> k \in Nat /\ 1 <= k /\ k <= OutAt(g, c)
  BY <1>1
<1>3. \A p : p \in OutCopies(c) <=>
         \/ \E g \in Generators : \E k \in 1..OutAt(g, c) : p = <<g, k>>
         \/ \E g \in Generators : p = <<g, 0>> /\ <<g, c>> \in returning
  <2>1. \A p : p \in (UNION {{g} \X (1..OutAt(g, c)) : g \in Generators}) <=>
           \E g \in Generators : \E k \in 1..OutAt(g, c) : p = <<g, k>>
    OBVIOUS
  <2>2. \A p : p \in {<<g, 0>> : g \in {h \in Generators : <<h, c>> \in returning}} <=>
           \E g \in Generators : p = <<g, 0>> /\ <<g, c>> \in returning
    OBVIOUS
  <2> QED
    BY <2>1, <2>2, Zenon DEF OutCopies
<1>4. 0 \in Nat
  OBVIOUS
<1> QED
  BY <1>1, <1>2, <1>3, <1>4

\* The same of the next state.
LEMMA OutMembersLater == TypeOK' => OutNumbered'
BY OutMembers, PTL

\* Generator g's session and worker have no more of c than before.
NoMore(g, c) == OutAt(g, c)' <= OutAt(g, c)

\* Then the copies that are out were out before.
LEMMA OutIncluded ==
    ASSUME TypeOK, TypeOK', NEW c \in Ccds, \A g \in Generators : NoMore(g, c),
           \A g \in Generators : <<g, c>> \in returning' => <<g, c>> \in returning
    PROVE  OutCopies(c)' \subseteq OutCopies(c)
<1> SUFFICES ASSUME NEW p \in OutCopies(c)' PROVE p \in OutCopies(c)
  OBVIOUS
<1>1. OutNumbered /\ OutNumbered'
  BY OutMembers, OutMembersLater
<1>2. PICK g \in Generators, k \in Nat :
         /\ p = <<g, k>>
         /\ (k = 0 /\ <<g, c>> \in returning') \/ (1 <= k /\ k <= OutAt(g, c)')
  BY <1>1 DEF OutNumbered
<1>3. OutAt(g, c) \in Nat /\ OutAt(g, c)' \in Nat /\ OutAt(g, c)' <= OutAt(g, c)
  BY <1>1 DEF OutNumbered, NoMore
<1>4. (k = 0 /\ <<g, c>> \in returning) \/ (1 <= k /\ k <= OutAt(g, c))
  BY <1>2, <1>3
<1> QED
  BY <1>1, <1>2, <1>4 DEF OutNumbered

\* Nothing new is out.
LEMMA OutKept ==
    ASSUME TypeOK, TypeOK', NEW c \in Ccds, Counted(c),
           \A g \in Generators : NoMore(g, c), returning' \subseteq returning,
           attempts'[c] >= attempts[c]
    PROVE  Counted(c)'
<1>1. OutCopies(c)' \subseteq OutCopies(c)
  BY OutIncluded
<1>2. attempts[c] \in Nat /\ attempts'[c] \in Nat
  BY DEF TypeOK, DispatcherTypeOK
<1> HIDE DEF Counted
<1>3. IsFiniteSet(OutCopies(c)) /\ Cardinality(OutCopies(c)) <= attempts[c]
  BY DEF Counted
<1>4. /\ Cardinality(OutCopies(c)) \in Nat /\ IsFiniteSet(OutCopies(c)')
      /\ Cardinality(OutCopies(c)') <= Cardinality(OutCopies(c))
      /\ Cardinality(OutCopies(c)') \in Nat
  BY <1>1, <1>3, Counting
<1> QED
  BY <1>2, <1>3, <1>4 DEF Counted

\* One copy more is out, in the hands of g's session, worker or wait task.
LEMMA OutAdded ==
    ASSUME TypeOK, TypeOK', NEW c \in Ccds, Counted(c), NEW g \in Generators,
           \A h \in Generators \ {g} : NoMore(h, c),
           \/ OutAt(g, c)' <= OutAt(g, c) + 1 /\ returning' \subseteq returning
           \/ NoMore(g, c) /\ returning' \subseteq returning \union {<<g, c>>},
           attempts'[c] = attempts[c] + 1
    PROVE  Counted(c)'
<1>1. \E x : OutCopies(c)' \subseteq OutCopies(c) \union {x}
  <2>1. CASE OutAt(g, c)' <= OutAt(g, c) + 1 /\ returning' \subseteq returning
    <3>1. ASSUME NEW p \in OutCopies(c)'
          PROVE  p \in OutCopies(c) \union {<<g, OutAt(g, c) + 1>>}
      <4>1. PICK h \in Generators, k \in Nat :
               /\ p = <<h, k>>
               /\ (k = 0 /\ <<h, c>> \in returning') \/ (1 <= k /\ k <= OutAt(h, c)')
        BY <3>1, OutMembers, OutMembersLater DEF OutNumbered
      <4>2. OutAt(h, c) \in Nat /\ OutAt(h, c)' \in Nat
        BY OutMembers, OutMembersLater DEF OutNumbered
      <4>3. CASE k = 0 /\ <<h, c>> \in returning'
        BY <2>1, <4>1, <4>3, OutMembers, OutMembersLater DEF OutNumbered
      <4>4. CASE 1 <= k /\ k <= OutAt(h, c)
        BY <4>1, <4>4, OutMembers, OutMembersLater DEF OutNumbered
      <4>5. CASE 1 <= k /\ k <= OutAt(h, c)' /\ ~(k <= OutAt(h, c))
        <5>1. h = g
          BY <4>2, <4>5 DEF NoMore
        <5>2. k = OutAt(g, c) + 1
          BY <2>1, <4>2, <4>5, <5>1
        <5> QED
          BY <4>1, <5>1, <5>2
      <4> QED
        BY <4>1, <4>3, <4>4, <4>5
    <3> QED
      BY <3>1
  <2>2. CASE NoMore(g, c) /\ returning' \subseteq returning \union {<<g, c>>}
    <3>1. ASSUME NEW p \in OutCopies(c)'
          PROVE  p \in OutCopies(c) \union {<<g, 0>>}
      <4>1. PICK h \in Generators, k \in Nat :
               /\ p = <<h, k>>
               /\ (k = 0 /\ <<h, c>> \in returning') \/ (1 <= k /\ k <= OutAt(h, c)')
        BY <3>1, OutMembers, OutMembersLater DEF OutNumbered
      <4>2. OutAt(h, c) \in Nat /\ OutAt(h, c)' \in Nat /\ NoMore(h, c)
        BY <2>2, OutMembers, OutMembersLater DEF OutNumbered
      <4>3. CASE k = 0 /\ <<h, c>> \in returning'
        <5>1. <<h, c>> \in returning \/ h = g
          BY <2>2, <4>3
        <5> QED
          BY <4>1, <4>3, <5>1, OutMembers, OutMembersLater DEF OutNumbered
      <4>4. CASE 1 <= k /\ k <= OutAt(h, c)'
        <5>1. k <= OutAt(h, c)
          BY <4>2, <4>4 DEF NoMore
        <5> QED
          BY <4>1, <4>4, <5>1, OutMembers, OutMembersLater DEF OutNumbered
      <4> QED
        BY <4>1, <4>3, <4>4
    <3> QED
      BY <3>1
  <2> QED
    BY <2>1, <2>2
<1>2. attempts[c] \in Nat
  BY DEF TypeOK, DispatcherTypeOK
<1>3. IsFiniteSet(OutCopies(c)) /\ Cardinality(OutCopies(c)) <= attempts[c]
  BY DEF Counted
<1>4. /\ Cardinality(OutCopies(c)) \in Nat /\ IsFiniteSet(OutCopies(c)')
      /\ Cardinality(OutCopies(c)') <= Cardinality(OutCopies(c)) + 1
      /\ Cardinality(OutCopies(c)') \in Nat
  BY <1>1, <1>3, Counting
<1> QED
  BY <1>2, <1>3, <1>4 DEF Counted

\* One copy less is out, and its handing-out is given back.
LEMMA OutRemoved ==
    ASSUME TypeOK, TypeOK', NEW c \in Ccds, Counted(c), NEW x, x \in OutCopies(c),
           OutCopies(c)' \subseteq OutCopies(c) \ {x},
           attempts'[c] + 1 >= attempts[c]
    PROVE  Counted(c)'
<1>1. attempts[c] \in Nat /\ attempts'[c] \in Nat
  BY DEF TypeOK, DispatcherTypeOK
<1>2. IsFiniteSet(OutCopies(c)) /\ Cardinality(OutCopies(c)) <= attempts[c]
  BY DEF Counted
<1>3. /\ Cardinality(OutCopies(c)) \in Nat /\ IsFiniteSet(OutCopies(c)')
      /\ Cardinality(OutCopies(c)') + 1 <= Cardinality(OutCopies(c))
      /\ Cardinality(OutCopies(c)') \in Nat
  BY <1>2, Counting
<1> QED
  BY <1>1, <1>2, <1>3 DEF Counted

\* A session that has no more copies, and a worker that has fetched nothing, have no more.
LEMMA QuietSession ==
    ASSUME TypeOK, TypeOK', NEW g \in Generators, NEW c \in Ccds,
           pending'[g] = c => pending[g] = c
    PROVE  /\ working'[g][c] + results'[g][c] <= working[g][c] + results[g][c] => NoMore(g, c)
           /\ working'[g][c] + results'[g][c] <= working[g][c] + results[g][c] + 1 =>
                 OutAt(g, c)' <= OutAt(g, c) + 1
<1>1. /\ working[g][c] \in Nat /\ results[g][c] \in Nat
      /\ working'[g][c] \in Nat /\ results'[g][c] \in Nat
  BY DEF TypeOK
<1> QED
  BY <1>1 DEF NoMore, OutAt

\* The calls that hand out and take back, and those that leave the counters alone.
LEMMA CallAttempts ==
    ASSUME DispatcherTypeOK
    PROVE  /\ \A g : RecordGeneratorStart(g) => attempts' = attempts
           /\ \A g : OnGeneratorLost(g) => attempts' = attempts
           /\ \A c : GrowOld(c) => attempts' = attempts
           /\ \A g, c : OnCcdCompleted(c, g) => attempts' = attempts
           /\ \A g, c : GetNextCcd(g, c) => attempts' = [attempts EXCEPT ![c] = @ + 1]
           /\ \A c \in Ccds : ReturnUnassignedCcd(c) =>
                 /\ attempts'[c] + 1 >= attempts[c]
                 /\ \A d \in Ccds \ {c} : attempts'[d] = attempts[d]
<1>1. \A g : OnGeneratorLost(g) => attempts' = attempts
  BY Zenon DEF OnGeneratorLost
<1>2. \A c : GrowOld(c) => attempts' = attempts
  BY Zenon DEF GrowOld
<1>3. \A g, c : OnCcdCompleted(c, g) => attempts' = attempts
  BY Zenon DEF OnCcdCompleted
<1>4. /\ \A g : RecordGeneratorStart(g) => attempts' = attempts
      /\ \A g, c : GetNextCcd(g, c) => attempts' = [attempts EXCEPT ![c] = @ + 1]
  BY Zenon DEF RecordGeneratorStart, GetNextCcd, Phase1Assign, Phase2Resubmit
<1>5. ASSUME NEW c \in Ccds, ReturnUnassignedCcd(c)
      PROVE  /\ attempts'[c] + 1 >= attempts[c]
             /\ \A d \in Ccds \ {c} : attempts'[d] = attempts[d]
  BY <1>5 DEF ReturnUnassignedCcd, DispatcherTypeOK
<1> QED
  BY <1>1, <1>2, <1>3, <1>4, <1>5

\* A step that hands nothing out and gives nothing back.
LEMMA QuietCopies ==
    ASSUME TypeOK, TypeOK', CopiesInv, attempts' = attempts, returning' = returning,
           \A g \in Generators, c \in Ccds : NoMore(g, c)
    PROVE  CopiesInv'
<1> SUFFICES ASSUME NEW c \in Ccds PROVE Counted(c)'
  BY DEF CopiesInv
<1>1. attempts'[c] >= attempts[c]
  BY DEF TypeOK, DispatcherTypeOK
<1> QED
  BY <1>1, OutKept DEF CopiesInv

\* A session that is closed has nothing but the CCD that was fetched for it.
LEMMA CloseCopies ==
    ASSUME TypeOK, TypeOK', NEW g \in Generators, CloseSession(g),
           \A h \in Generators : pending'[h] = pending[h] \/ pending'[h] = NoCcd
    PROVE  \A h \in Generators, c \in Ccds : NoMore(h, c)
<1> SUFFICES ASSUME NEW h \in Generators, NEW c \in Ccds PROVE NoMore(h, c)
  OBVIOUS
<1>1. pending'[h] = c => pending[h] = c
  BY NoCcdAssumption DEF Ccds
<1>2. /\ working[h][c] \in Nat /\ results[h][c] \in Nat
      /\ Nothing[c] = 0 /\ Nothing \in [Ccds -> Nat]
  BY DEF TypeOK, Nothing
<1>3. working'[h][c] + results'[h][c] <= working[h][c] + results[h][c]
  BY <1>2 DEF CloseSession, TypeOK
<1> QED
  BY <1>1, <1>3, QuietSession

\* A CCD is handed out and sent, or lost on its way.
LEMMA SendCopies ==
    ASSUME TypeOK, TypeOK', CopiesInv, NEW g \in Generators, NEW c \in Ccds, NEW next,
           GetNextCcd(g, c), Send(g, c, next),
           pending' = pending, returning' = returning
    PROVE  CopiesInv'
<1>1. attempts' = [attempts EXCEPT ![c] = @ + 1] /\ attempts \in [Ccds -> Nat]
  BY CallAttempts DEF TypeOK, DispatcherTypeOK
<1>2. /\ \A h \in Generators, d \in Ccds : h # g \/ d # c => NoMore(h, d)
      /\ OutAt(g, c)' <= OutAt(g, c) + 1
  <2>1. CASE ConnectionError(g)
    <3>1. \A h \in Generators, d \in Ccds : NoMore(h, d)
      BY <2>1, CloseCopies DEF ConnectionError
    <3>2. OutAt(g, c) \in Nat /\ OutAt(g, c)' \in Nat
      BY OutMembers, OutMembersLater DEF OutNumbered
    <3> QED
      BY <3>1, <3>2 DEF NoMore
  <2>2. CASE Delivered(g, c) \/ LostInTransit(g)
    <3>1. /\ results' = results
          /\ working' \in {working, [working EXCEPT ![g][c] = @ + 1]}
      BY <2>2 DEF Delivered, LostInTransit
    <3>2. /\ \A h \in Generators, d \in Ccds : h # g \/ d # c => working'[h][d] = working[h][d]
          /\ working'[g][c] \in {working[g][c], working[g][c] + 1}
      BY <3>1 DEF TypeOK
    <3>3. \A h \in Generators, d \in Ccds : working[h][d] \in Nat /\ results[h][d] \in Nat
      BY DEF TypeOK
    <3>4. ASSUME NEW h \in Generators, NEW d \in Ccds, h # g \/ d # c
          PROVE  NoMore(h, d)
      BY <3>1, <3>2, <3>3, <3>4, QuietSession
    <3>5. OutAt(g, c)' <= OutAt(g, c) + 1
      BY <3>1, <3>2, <3>3, QuietSession
    <3> QED
      BY <3>4, <3>5
  <2> QED
    BY <2>1, <2>2 DEF Send
<1>3. Counted(c)'
  BY <1>1, <1>2, OutAdded DEF CopiesInv
<1>4. ASSUME NEW d \in Ccds \ {c}
      PROVE  Counted(d)'
  BY <1>1, <1>2, OutKept DEF CopiesInv
<1> QED
  BY <1>3, <1>4 DEF CopiesInv

\* A new session has the CCD that was fetched for it, and nothing else.
LEMMA ConnectCopies ==
    ASSUME TypeOK, TypeOK', SlotInv, CopiesInv, NEW g \in Generators, Connect(g)
    PROVE  CopiesInv'
<1>1. /\ attempts' = attempts /\ returning' = returning
      /\ pending' = pending /\ results' = results
  BY CallAttempts DEF Connect, TypeOK
<1>2. working[g] = Nothing /\ results[g] = Nothing
  BY DEF Connect, SlotInv, Fits, NoCopies
<1>3. ASSUME NEW h \in Generators, NEW c \in Ccds
      PROVE  NoMore(h, c)
  <2>1. CASE working'[h][c] = working[h][c]
    <3>1. working[h][c] \in Nat /\ results[h][c] \in Nat
      BY DEF TypeOK
    <3> QED
      BY <1>1, <2>1, <3>1, QuietSession
  <2>2. CASE working'[h][c] # working[h][c]
    <3>1. /\ pending[g] \in Ccds /\ h = g /\ c = pending[g]
          /\ working'[g][c] = working[g][c] + 1
      BY <2>2 DEF Connect, TypeOK
    <3>2. working[g][c] = 0 /\ results[g][c] = 0
      BY <1>2 DEF Nothing
    <3>3. OutAt(h, c) = 1 /\ OutAt(h, c)' = 1
      BY <1>1, <3>1, <3>2 DEF OutAt
    <3> QED
      BY <3>3 DEF NoMore
  <2> QED
    BY <2>1, <2>2
<1> QED
  BY <1>1, <1>3, QuietCopies

\* A CCD is handed out to a worker that has no session for it yet.
LEMMA FetchCopies ==
    ASSUME TypeOK, TypeOK', CopiesInv, NEW g \in Generators, FetchForNewSession(g)
    PROVE  CopiesInv'
<1>1. UNCHANGED <<working, results, returning>>
  BY DEF FetchForNewSession, sessionVars
<1>2. \A h \in Generators, d \in Ccds : working[h][d] \in Nat /\ results[h][d] \in Nat
  BY DEF TypeOK
<1>3. CASE UNCHANGED <<dispatcherVars, pending>>
  <2>1. \A h \in Generators, d \in Ccds : NoMore(h, d)
    BY <1>1, <1>2, <1>3, QuietSession
  <2>2. attempts' = attempts
    BY <1>3 DEF dispatcherVars
  <2> QED
    BY <1>1, <2>1, <2>2, QuietCopies
<1>4. ASSUME NEW c \in Ccds, GetNextCcd(g, c), pending' = [pending EXCEPT ![g] = c]
      PROVE  CopiesInv'
  <2>1. attempts' = [attempts EXCEPT ![c] = @ + 1] /\ attempts \in [Ccds -> Nat]
    BY <1>4, CallAttempts DEF TypeOK, DispatcherTypeOK
  <2>2. /\ \A h \in Generators \ {g} : pending'[h] = pending[h]
        /\ pending'[g] = c
    BY <1>4 DEF TypeOK
  <2>3. ASSUME NEW h \in Generators, NEW d \in Ccds, h # g \/ d # c
        PROVE  NoMore(h, d)
    BY <1>1, <1>2, <2>2, <2>3, QuietSession
  <2>4. OutAt(g, c)' <= OutAt(g, c) + 1
    BY <1>1, <1>2 DEF OutAt
  <2>5. Counted(c)'
    BY <1>1, <2>1, <2>3, <2>4, OutAdded DEF CopiesInv
  <2>6. ASSUME NEW d \in Ccds \ {c}
        PROVE  Counted(d)'
    BY <1>1, <2>1, <2>3, OutKept DEF CopiesInv
  <2> QED
    BY <2>5, <2>6 DEF CopiesInv
<1> QED
  BY <1>3, <1>4 DEF FetchForNewSession

\* A wait task sends the CCD that it got, or keeps it to give it back.
LEMMA WaitTaskCopies ==
    ASSUME TypeOK, TypeOK', CopiesInv, NEW g \in Generators, WaitTask(g)
    PROVE  CopiesInv'
<1>1. PICK c \in Ccds :
         /\ GetNextCcd(g, c)
         /\ \/ (Delivered(g, c) \/ LostInTransit(g)) /\ UNCHANGED returning
            \/ /\ <<g, c>> \notin returning
               /\ LostInTransit(g)
               /\ returning' = returning \union {<<g, c>>}
  BY DEF WaitTask
<1>2. attempts' = [attempts EXCEPT ![c] = @ + 1] /\ attempts \in [Ccds -> Nat]
  BY <1>1, CallAttempts DEF TypeOK, DispatcherTypeOK
<1>3. pending' = pending
  BY DEF WaitTask
<1>4. \A h \in Generators, d \in Ccds : working[h][d] \in Nat /\ results[h][d] \in Nat
  BY DEF TypeOK
<1>5. /\ results' = results
      /\ \A h \in Generators, d \in Ccds : h # g \/ d # c => working'[h][d] = working[h][d]
      /\ working'[g][c] \in {working[g][c], working[g][c] + 1}
      /\ LostInTransit(g) => working'[g][c] = working[g][c]
  BY <1>1 DEF Delivered, LostInTransit, TypeOK
<1>6. ASSUME NEW h \in Generators, NEW d \in Ccds, h # g \/ d # c
      PROVE  NoMore(h, d)
  BY <1>3, <1>4, <1>5, <1>6, QuietSession
<1>7. Counted(c)'
  <2>1. CASE UNCHANGED returning
    <3>1. OutAt(g, c)' <= OutAt(g, c) + 1
      BY <1>3, <1>4, <1>5, QuietSession
    <3> QED
      BY <1>2, <1>6, <2>1, <3>1, OutAdded DEF CopiesInv
  <2>2. CASE LostInTransit(g) /\ returning' = returning \union {<<g, c>>}
    <3>1. NoMore(g, c)
      BY <1>3, <1>4, <1>5, <2>2, QuietSession
    <3> QED
      BY <1>2, <1>6, <2>2, <3>1, OutAdded DEF CopiesInv
  <2> QED
    BY <1>1, <2>1, <2>2
<1>8. ASSUME NEW d \in Ccds \ {c}
      PROVE  Counted(d)'
  <2>1. \A h \in Generators : NoMore(h, d)
    BY <1>6
  <2>2. OutCopies(d)' \subseteq OutCopies(d)
    <3>1. \A h : <<h, d>> \in returning' => <<h, d>> \in returning
      BY <1>1
    <3> QED
      BY <2>1, <3>1, OutIncluded
  <2>3. attempts'[d] = attempts[d] /\ attempts[d] \in Nat
    BY <1>2
  <2>4. IsFiniteSet(OutCopies(d)) /\ Cardinality(OutCopies(d)) <= attempts[d]
    BY DEF CopiesInv, Counted
  <2>5. /\ Cardinality(OutCopies(d)) \in Nat /\ IsFiniteSet(OutCopies(d)')
        /\ Cardinality(OutCopies(d)') <= Cardinality(OutCopies(d))
        /\ Cardinality(OutCopies(d)') \in Nat
    BY <2>2, <2>4, Counting
  <2> QED
    BY <2>3, <2>4, <2>5 DEF Counted
<1> QED
  BY <1>7, <1>8 DEF CopiesInv

\* A CCD is given back: by the task that could not send it, or by the worker's finally.
LEMMA ReturnCopies ==
    ASSUME TypeOK, TypeOK', SlotInv, CopiesInv, NEW g \in Generators, NEW c \in Ccds,
           WaitTaskReturns(g, c) \/ (StopReturns(g) /\ c = pending[g])
    PROVE  CopiesInv'
<1>1. ReturnUnassignedCcd(c) /\ UNCHANGED <<working, results>>
  BY DEF WaitTaskReturns, StopReturns, sessionVars
<1>2. /\ attempts'[c] + 1 >= attempts[c]
      /\ \A d \in Ccds \ {c} : attempts'[d] = attempts[d] /\ attempts[d] \in Nat
  BY <1>1, CallAttempts DEF TypeOK, DispatcherTypeOK
<1>3. \A h \in Generators, d \in Ccds : working[h][d] \in Nat /\ results[h][d] \in Nat
  BY DEF TypeOK
<1>4. /\ \A h \in Generators : pending'[h] = pending[h] \/ pending'[h] = NoCcd
      /\ returning' \subseteq returning
  BY DEF WaitTaskReturns, StopReturns, TypeOK
<1>5. ASSUME NEW h \in Generators, NEW d \in Ccds
      PROVE  NoMore(h, d)
  <2>1. pending'[h] = d => pending[h] = d
    BY <1>4, NoCcdAssumption DEF Ccds
  <2> QED
    BY <1>1, <1>3, <2>1, QuietSession
<1>6. OutCopies(c)' \subseteq OutCopies(c)
  BY <1>4, <1>5, OutIncluded
<1>7. \E x \in OutCopies(c) : x \notin OutCopies(c)'
  <2>1. CASE WaitTaskReturns(g, c)
    <3>1. <<g, c>> \in returning /\ <<g, c>> \notin returning'
      BY <2>1 DEF WaitTaskReturns
    <3>2. <<g, 0>> \in OutCopies(c)
      BY <3>1, OutMembers, OutMembersLater DEF OutNumbered
    <3>3. <<g, 0>> \notin OutCopies(c)'
      <4>1. SUFFICES ASSUME <<g, 0>> \in OutCopies(c)' PROVE FALSE
        OBVIOUS
      <4>2. OutNumbered'
        BY OutMembersLater
      <4>3. PICK h \in Generators, k \in Nat :
               /\ <<g, 0>> = <<h, k>>
               /\ (k = 0 /\ <<h, c>> \in returning') \/ (1 <= k /\ k <= OutAt(h, c)')
        BY <4>1, <4>2 DEF OutNumbered
      <4> QED
        BY <3>1, <4>3
    <3> QED
      BY <3>2, <3>3
  <2>2. CASE StopReturns(g) /\ c = pending[g]
    <3>1. working[g][c] = 0 /\ results[g][c] = 0
      BY <2>2 DEF StopReturns, SlotInv, Fits, NoCopies, Nothing
    <3>2. pending'[g] # c
      BY <2>2, NoCcdAssumption DEF StopReturns, TypeOK, Ccds
    <3>3. OutAt(g, c) = 1 /\ OutAt(g, c)' = 0
      BY <1>1, <2>2, <3>1, <3>2 DEF OutAt
    <3>4. <<g, 1>> \in OutCopies(c)
      BY <3>3, OutMembers, OutMembersLater DEF OutNumbered
    <3>5. <<g, 1>> \notin OutCopies(c)'
      <4>1. SUFFICES ASSUME <<g, 1>> \in OutCopies(c)' PROVE FALSE
        OBVIOUS
      <4>2. OutNumbered'
        BY OutMembersLater
      <4>3. PICK h \in Generators, k \in Nat :
               /\ <<g, 1>> = <<h, k>>
               /\ (k = 0 /\ <<h, c>> \in returning') \/ (1 <= k /\ k <= OutAt(h, c)')
        BY <4>1, <4>2 DEF OutNumbered
      <4> QED
        BY <3>3, <4>3
    <3> QED
      BY <3>4, <3>5
  <2> QED
    BY <2>1, <2>2
<1>8. Counted(c)'
  <2>1. PICK x \in OutCopies(c) : x \notin OutCopies(c)'
    BY <1>7
  <2>2. OutCopies(c)' \subseteq OutCopies(c) \ {x}
    BY <1>6, <2>1
  <2> QED
    BY <1>2, <2>1, <2>2, OutRemoved DEF CopiesInv
<1>9. ASSUME NEW d \in Ccds \ {c}
      PROVE  Counted(d)'
  BY <1>2, <1>4, <1>5, OutKept DEF CopiesInv
<1> QED
  BY <1>8, <1>9 DEF CopiesInv

\* A completion is reported or read, or a session loses what its generator worked on.
LEMMA SessionCopies ==
    ASSUME TypeOK, TypeOK', CopiesInv, NEW g \in Generators,
           \/ DropSession(g) \/ Crash(g)
           \/ \E c \in Ccds : ReceiveCompleted(g, c) \/ FinishCcd(g, c)
    PROVE  CopiesInv'
<1>1. attempts' = attempts /\ returning' = returning /\ pending' = pending
  BY CallAttempts DEF DropSession, Crash, ReceiveCompleted, FinishCcd, dispatcherVars, TypeOK
<1>2. ASSUME NEW h \in Generators, NEW d \in Ccds
      PROVE  working'[h][d] + results'[h][d] <= working[h][d] + results[h][d]
  <2>1. /\ working[h][d] \in Nat /\ results[h][d] \in Nat
        /\ Nothing[d] = 0 /\ Nothing \in [Ccds -> Nat]
    BY DEF TypeOK, Nothing
  <2>2. CASE DropSession(g) \/ Crash(g)
    <3>1. results' = results /\ working' = [working EXCEPT ![g] = Nothing]
      BY <2>2 DEF DropSession, Crash
    <3>2. working'[h][d] \in {0, working[h][d]}
      BY <2>1, <3>1 DEF TypeOK
    <3> QED
      BY <2>1, <3>1, <3>2
  <2>3. ASSUME NEW c \in Ccds, ReceiveCompleted(g, c)
        PROVE  working'[h][d] + results'[h][d] <= working[h][d] + results[h][d]
    BY <2>1, <2>3 DEF ReceiveCompleted, TypeOK
  <2>4. ASSUME NEW c \in Ccds, FinishCcd(g, c)
        PROVE  working'[h][d] + results'[h][d] <= working[h][d] + results[h][d]
    BY <2>1, <2>4 DEF FinishCcd, TypeOK
  <2> QED
    BY <2>2, <2>3, <2>4
<1>3. \A h \in Generators, d \in Ccds : NoMore(h, d)
  BY <1>1, <1>2, QuietSession
<1> QED
  BY <1>1, <1>3, QuietCopies

\* A session is left: its copies, read or not, are out no more.
LEMMA LeaveCopies ==
    ASSUME TypeOK, TypeOK', CopiesInv, NEW g \in Generators,
           ConnectFails(g) \/ ReceiveError(g) \/ SessionEnds(g)
    PROVE  CopiesInv'
<1>1. CloseSession(g) /\ returning' = returning
  BY DEF ConnectFails, ReceiveError, SessionEnds, ConnectionError
<1>2. attempts' = attempts
  BY CallAttempts DEF ConnectFails, ReceiveError, SessionEnds, dispatcherVars, TypeOK
<1>3. \A h \in Generators : pending'[h] = pending[h] \/ pending'[h] = NoCcd
  BY DEF ConnectFails, ReceiveError, SessionEnds, TypeOK
<1>4. \A h \in Generators, c \in Ccds : NoMore(h, c)
  BY <1>1, <1>3, CloseCopies
<1> QED
  BY <1>1, <1>2, <1>4, QuietCopies

\* All sessions are left.
LEMMA CancelCopies ==
    ASSUME TypeOK, TypeOK', CopiesInv, CancelWorkers
    PROVE  CopiesInv'
<1>1. /\ attempts' = attempts /\ returning' = returning /\ pending' = pending
  BY DEF CancelWorkers, dispatcherVars
<1>2. ASSUME NEW h \in Generators, NEW c \in Ccds
      PROVE  NoMore(h, c)
  <2>1. /\ working[h][c] \in Nat /\ results[h][c] \in Nat
        /\ working'[h][c] = 0 /\ results'[h][c] = 0
    BY DEF CancelWorkers, TypeOK, Nothing
  <2> QED
    BY <1>1, <2>1, QuietSession
<1> QED
  BY <1>1, <1>2, QuietCopies

\* The other steps leave the copies alone.
LEMMA OtherCopies ==
    ASSUME TypeOK, TypeOK', CopiesInv,
           UNCHANGED <<working, results, pending, returning, attempts>>
    PROVE  CopiesInv'
<1>1. \A h \in Generators, c \in Ccds : NoMore(h, c)
  <2>1. \A h \in Generators, c \in Ccds : working[h][c] \in Nat /\ results[h][c] \in Nat
    BY DEF TypeOK
  <2> QED
    BY <2>1, QuietSession
<1> QED
  BY <1>1, QuietCopies

\* Before the job nothing is out.
LEMMA InitCopies == Init => CopiesInv
<1> SUFFICES ASSUME Init, NEW c \in Ccds PROVE Counted(c)
  BY DEF CopiesInv
<1>1. returning = {} /\ attempts[c] = 0
  BY DEF Init, DispatcherInit
<1>2. \A g \in Generators : working[g][c] = 0 /\ results[g][c] = 0 /\ pending[g] = NoCcd
  BY DEF Init, Nothing
<1>3. \A g \in Generators : OutAt(g, c) = 0
  BY <1>2, NoCcdAssumption DEF OutAt, Ccds
<1>4. OutCopies(c) = {}
  BY <1>1, <1>3 DEF OutCopies
<1> QED
  BY <1>1, <1>4, FS_EmptySet DEF Counted

\* Every step keeps each copy that is out covered by a handing-out.
LEMMA StepCopies == IInv /\ IInv' /\ SlotInv /\ CopiesInv /\ [Next]_vars => CopiesInv'
<1> SUFFICES ASSUME IInv, IInv', SlotInv, CopiesInv, [Next]_vars PROVE CopiesInv'
  OBVIOUS
<1>1. TypeOK /\ TypeOK'
  BY DEF IInv
<1>0. DispatcherTypeOK
  BY <1>1 DEF TypeOK
<1>2. ASSUME NEW g \in Generators, BatchNext(g) \/ AssignFirst(g) \/ AssignNext(g)
      PROVE  CopiesInv'
  <2>1. pending' = pending /\ returning' = returning
    BY <1>2 DEF BatchNext, AssignFirst, AssignNext
  <2>2. \/ \E c \in Ccds : GetNextCcd(g, c) /\ \E next \in {"batch", "serve"} : Send(g, c, next)
        \/ UNCHANGED <<working, results, attempts>>
    BY <1>2 DEF BatchNext, AssignFirst, AssignNext, dispatcherVars, sessionVars
  <2> QED
    BY <1>1, <2>1, <2>2, SendCopies, OtherCopies
<1>3. ASSUME NEW g \in Generators, Retry(g) \/ BatchEnds(g) \/ Stop(g)
      PROVE  CopiesInv'
  <2>1. UNCHANGED <<working, results, pending, returning>>
    BY <1>3 DEF Retry, BatchEnds, Stop, sessionVars
  <2>2. attempts' = attempts
    BY <1>0, <1>3, CallAttempts DEF Retry, BatchEnds, Stop, dispatcherVars
  <2> QED
    BY <1>1, <2>1, <2>2, OtherCopies
<1>4. ASSUME NEW g \in Generators, StopReturns(g)
      PROVE  CopiesInv'
  <2>1. pending[g] \in Ccds
    BY <1>1, <1>4 DEF StopReturns, TypeOK
  <2> QED
    BY <1>1, <1>4, <2>1, ReturnCopies
<1>5. ASSUME NEW g \in Generators, WorkerStep(g)
      PROVE  CopiesInv'
  BY <1>1, <1>2, <1>3, <1>4, <1>5, ConnectCopies, LeaveCopies, FetchCopies, SessionCopies,
     Zenon DEF WorkerStep
<1>6. CASE Start \/ Complete \/ Fail
  <2>1. CASE Start
    BY <1>1, <2>1, OtherCopies DEF Start, dispatcherVars, sessionVars
  <2> QED
    BY <1>1, <1>6, <2>1, CancelCopies DEF Complete, Fail
<1>7. ASSUME NEW g \in Generators, WaitTask(g) \/ DropSession(g) \/ Crash(g)
      PROVE  CopiesInv'
  BY <1>1, <1>7, WaitTaskCopies, SessionCopies, Zenon
<1>8. ASSUME NEW g \in Generators,
             Register(g) \/ RemoveGenerator(g) \/ LostTask(g) \/ SaveDistConfig(g)
      PROVE  CopiesInv'
  <2>1. UNCHANGED <<working, results, pending, returning>>
    BY <1>8 DEF Register, RemoveGenerator, LostTask, SaveDistConfig, sessionVars
  <2>2. attempts' = attempts
    BY <1>0, <1>8, CallAttempts
       DEF Register, RemoveGenerator, LostTask, SaveDistConfig, dispatcherVars
  <2> QED
    BY <1>1, <2>1, <2>2, OtherCopies
<1>9. ASSUME NEW g \in Generators, NEW c \in Ccds, FinishCcd(g, c) \/ WaitTaskReturns(g, c)
      PROVE  CopiesInv'
  BY <1>1, <1>9, SessionCopies, ReturnCopies, Zenon
<1>10. ASSUME NEW g \in Generators, NEW c \in Ccds, ZombieEnds(g, c)
       PROVE  CopiesInv'
  BY <1>1, <1>10, OtherCopies DEF ZombieEnds, dispatcherVars
<1>11. ASSUME NEW c \in Ccds, TimePasses(c)
       PROVE  CopiesInv'
  BY <1>0, <1>1, <1>11, CallAttempts, OtherCopies DEF TimePasses, sessionVars
<1>12. CASE UNCHANGED vars
  BY <1>1, <1>12, OtherCopies DEF vars, dispatcherVars, sessionVars
<1> QED
  BY <1>5, <1>6, <1>7, <1>8, <1>9, <1>10, <1>11, <1>12, Zenon DEF Next

\* A job never has more copies of a CCD out at once than the attempt limit allows, in
\* sessions, in the hands of workers and of tasks that give them back, whatever was
\* lost, sent again or given back before.
THEOREM CopiesAreLimited == Spec => []CopiesBounded
<1>1. IInv /\ IInv' /\ SlotInv /\ CopiesInv /\ [Next]_vars => CopiesInv'
  BY StepCopies
<1>2. IInv /\ IInv' /\ SlotInv /\ [Next]_vars => SlotInv'
  BY StepSlots
<1>3. TypeOK /\ CopiesInv /\ AttemptsBounded => CopiesBounded
  <2> SUFFICES ASSUME TypeOK, CopiesInv, AttemptsBounded, NEW c \in Ccds
               PROVE  Cardinality(OutCopies(c)) <= AttemptCap
    BY DEF CopiesBounded
  <2>1. /\ Cardinality(OutCopies(c)) \in Nat /\ Cardinality(OutCopies(c)) <= attempts[c]
    BY FS_CardinalityType DEF CopiesInv, Counted
  <2>2. attempts[c] \in Nat /\ AttemptCap \in Int /\ attempts[c] <= AttemptCap
    BY MaxAttemptsAssumption DEF TypeOK, DispatcherTypeOK, AttemptsBounded, AttemptCap
  <2> QED
    BY <2>1, <2>2
<1> QED
  BY InitSlots, InitCopies, <1>1, <1>2, <1>3, InductiveInvariant, TypeCorrect,
     JobAttemptLimit, PTL DEF Spec

\* All that the run of the job checks in every state: its types, its slots, that an
\* owner that lives has the tiles of its CCDs, and the limit on copies.
THEOREM GenerationIsSafe == Spec => []GenerationInv
<1>1. TypeOK /\ SlotsRespected /\ OwnerHasTiles /\ CopiesBounded => GenerationInv
  BY DEF GenerationInv
<1> QED
  BY TypeCorrect, SlotsAreRespected, OwnersHaveTiles, CopiesAreLimited, <1>1, PTL


-----------------------------------------------------------------------------
(* The job keeps the promise of TileGeneration. *)

\* Before the job no CCD has an owner.
LEMMA AbstractInit == Init => Abstract!Init
<1> SUFFICES ASSUME Init PROVE Abstract!Init
  OBVIOUS
<1>1. owner = [c \in 1..NumCcds |-> NoGenerator]
  BY DEF Init, DispatcherInit, Ccds
<1> QED
  BY <1>1 DEF Init, Abstract!Init

\* A completion that is adopted is Adopt, the beginning and the end of the job are
\* those of TileGeneration, and every other step is a stutter.
LEMMA AbstractStep ==
    IInv /\ CompletionIsExact /\ [Next]_vars => [Abstract!Next]_(Abstract!vars)
<1> SUFFICES ASSUME IInv, CompletionIsExact, [Next]_vars
             PROVE  [Abstract!Next]_(Abstract!vars)
  OBVIOUS
<1>0. DispatcherTypeOK
  BY DEF IInv, TypeOK
<1>1. ASSUME UNCHANGED <<owner, outcome>>
      PROVE  [Abstract!Next]_(Abstract!vars)
  BY <1>1 DEF Abstract!vars
<1>2. ASSUME NEW g \in Generators, NEW c \in Ccds, ReceiveCompleted(g, c)
      PROVE  [Abstract!Next]_(Abstract!vars)
  <2>1. outcome = "running"
    BY <1>2 DEF ReceiveCompleted, IInv, AtRest, Running
  <2>2. CASE owner[c] = NoGenerator
    <3>1. owner' = [owner EXCEPT ![c] = g] /\ UNCHANGED outcome
      BY <1>2, <2>2 DEF ReceiveCompleted, OnCcdCompleted, Completed, jobVars
    <3>2. Abstract!Adopt(c, g)
      BY <2>1, <2>2, <3>1 DEF Abstract!Adopt
    <3> QED
      BY <3>2 DEF Abstract!Next, Ccds
  <2>3. CASE owner[c] # NoGenerator
    BY <1>1, <1>2, <2>3
       DEF ReceiveCompleted, OnCcdCompleted, Completed, Ccds, Ccds, jobVars
  <2> QED
    BY <2>2, <2>3
<1>3. ASSUME NEW g \in Generators, WorkerStep(g), \A c \in Ccds : ~ReceiveCompleted(g, c)
      PROVE  [Abstract!Next]_(Abstract!vars)
  <2>1. owner' = owner
    BY <1>0, <1>3, CallFacts
       DEF WorkerStep, Connect, ConnectFails, Retry, BatchNext, BatchEnds, AssignFirst,
           AssignNext, ReceiveError, SessionEnds, FetchForNewSession, StopReturns, Stop,
           dispatcherVars
  <2>2. outcome' = outcome
    BY <1>3
       DEF WorkerStep, Connect, ConnectFails, Retry, BatchNext, BatchEnds, AssignFirst,
           AssignNext, ReceiveError, SessionEnds, FetchForNewSession, StopReturns, Stop,
           jobVars
  <2> QED
    BY <1>1, <2>1, <2>2
<1>4. CASE Start
  <2>1. Abstract!Start
    BY <1>4 DEF Start, Abstract!Start, dispatcherVars
  <2> QED
    BY <2>1 DEF Abstract!Next
<1>5. CASE Complete
  <2>1. \A c \in 1..NumCcds : owner[c] # NoGenerator
    BY <1>5 DEF Complete, CompletionIsExact, Completed, Ccds
  <2>2. Abstract!Complete
    BY <1>5, <2>1 DEF Complete, Running, CancelWorkers, Abstract!Complete, dispatcherVars
  <2> QED
    BY <2>2 DEF Abstract!Next
<1>6. CASE Fail
  <2>1. Abstract!Fail
    BY <1>6 DEF Fail, Running, CancelWorkers, Abstract!Fail, dispatcherVars
  <2> QED
    BY <2>1 DEF Abstract!Next
<1>7. ASSUME NEW g \in Generators,
             \/ WaitTask(g) \/ Register(g) \/ RemoveGenerator(g) \/ LostTask(g)
             \/ DropSession(g) \/ Crash(g) \/ SaveDistConfig(g)
      PROVE  [Abstract!Next]_(Abstract!vars)
  BY <1>0, <1>1, <1>7, CallFacts
     DEF WaitTask, Register, RemoveGenerator, LostTask, DropSession, Crash, SaveDistConfig,
         dispatcherVars, jobVars
<1>8. ASSUME NEW g \in Generators, NEW c \in Ccds,
             FinishCcd(g, c) \/ ZombieEnds(g, c) \/ WaitTaskReturns(g, c)
      PROVE  [Abstract!Next]_(Abstract!vars)
  BY <1>0, <1>1, <1>8, CallFacts
     DEF FinishCcd, ZombieEnds, WaitTaskReturns, dispatcherVars, jobVars
<1>9. ASSUME NEW c \in Ccds, TimePasses(c)
      PROVE  [Abstract!Next]_(Abstract!vars)
  BY <1>0, <1>1, <1>9, CallFacts DEF TimePasses, jobVars
<1>10. CASE UNCHANGED vars
  BY <1>1, <1>10 DEF vars, dispatcherVars, jobVars
<1> QED
  BY <1>2, <1>3, <1>4, <1>5, <1>6, <1>7, <1>8, <1>9, <1>10, Zenon DEF Next

\* The job completes only when every CCD has an owner, an owner is adopted once
\* and only while the job runs, and nothing is decided after its end.
THEOREM KeepsPromise == Spec => ImplementsTileGeneration
BY AbstractInit, AbstractStep, InductiveInvariant, JobCompletionExact, PTL
   DEF Spec, ImplementsTileGeneration, Abstract!Spec
=============================================================================
