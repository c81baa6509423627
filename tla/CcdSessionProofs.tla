-------------------------- MODULE CcdSessionProofs --------------------------
(***************************************************************************)
(* Proofs about CcdSession for any set of copies and any number of stalls  *)
(* of the event loop, with failures and the loss of the connection at any  *)
(* time: no copy is in two places, and none is lost while the session is   *)
(* up and the event loop keeps pace; and about its CcdPipeline, for any    *)
(* CCDs, threads, processes, slots and failures: what returns is complete, *)
(* no download waits for a permit in vain, and what is over is over; and   *)
(* about the progress that all sessions report: the furthest is shown; and *)
(* about the timeout of its downloads: it is fair to a CCD and to the      *)
(* thread that downloads it.                                               *)
(***************************************************************************)
EXTENDS CcdSession, CcdPipeline, CcdProgress, DownloadTimeout, Integers, SequenceTheorems,
        FiniteSetTheorems, WellFoundedInduction, TLAPS

-----------------------------------------------------------------------------
(* Queues. *)

\* No element of S is twice in the queue s.
Single(s, S) == \A i, j \in 1..Len(s) : s[i] \in S /\ s[i] = s[j] => i = j

\* What a new item does to a queue.
LEMMA AppendFacts ==
    ASSUME NEW T, NEW s \in Seq(T), NEW x \in T
    PROVE  /\ Append(s, x) \in Seq(T) /\ Append(s, x) # <<>>
           /\ ToSet(Append(s, x)) = ToSet(s) \union {x}
           /\ \A S : Single(s, S) /\ x \notin ToSet(s) \intersect S => Single(Append(s, x), S)
<1> DEFINE q == Append(s, x)
<1>1. /\ q \in Seq(T) /\ q # <<>> /\ Len(q) = Len(s) + 1 /\ Len(s) \in Nat
      /\ \A i \in 1..Len(s) : q[i] = s[i]
      /\ q[Len(s) + 1] = x
  BY AppendProperties, LenProperties
<1>2. DOMAIN q = 1..(Len(s) + 1) /\ DOMAIN s = 1..Len(s)
  BY <1>1, LenProperties
<1> HIDE DEF q
<1>3. ToSet(q) = ToSet(s) \union {x}
  <2>1. \A i \in DOMAIN q : q[i] \in ToSet(s) \union {x}
    BY <1>1, <1>2 DEF ToSet
  <2>2. \A i \in DOMAIN s : i \in DOMAIN q /\ q[i] = s[i]
    BY <1>1, <1>2
  <2>3. Len(s) + 1 \in DOMAIN q
    BY <1>1, <1>2
  <2> QED
    BY <1>1, <2>1, <2>2, <2>3 DEF ToSet
<1>4. ASSUME NEW S, Single(s, S), x \notin ToSet(s) \intersect S
      PROVE  Single(q, S)
  <2>1. \A i \in 1..Len(s) : q[i] = s[i] /\ s[i] \in ToSet(s)
    BY <1>1, <1>2 DEF ToSet
  <2>2. ASSUME NEW i \in 1..Len(q), NEW j \in 1..Len(q), q[i] \in S, q[i] = q[j]
        PROVE  i = j
    <3>1. CASE i \in 1..Len(s) /\ j \in 1..Len(s)
      BY <1>4, <2>1, <2>2, <3>1 DEF Single
    <3>2. CASE i \in 1..Len(s) /\ j = Len(s) + 1
      BY <1>1, <1>4, <2>1, <2>2, <3>2
    <3>3. CASE i = Len(s) + 1 /\ j \in 1..Len(s)
      BY <1>1, <1>4, <2>1, <2>2, <3>3
    <3> QED
      BY <1>1, <3>1, <3>2, <3>3
  <2> QED
    BY <2>2 DEF Single
<1> QED
  BY <1>1, <1>3, <1>4 DEF q

\* The last messages of a session are two more items.
LEMMA ConcatIsAppend ==
    ASSUME NEW T, NEW s \in Seq(T), NEW x \in T, NEW y \in T
    PROVE  /\ s \o <<x>> = Append(s, x)
           /\ s \o <<x, y>> = Append(Append(s, x), y)
<1>1. /\ Append(s, x) \in Seq(T) /\ Append(s, x) = s \o <<x>>
      /\ <<x>> \in Seq(T) /\ <<y>> \in Seq(T)
  BY AppendProperties, AppendIsConcat
<1>2. Append(Append(s, x), y) = (s \o <<x>>) \o <<y>>
  BY <1>1, AppendIsConcat
<1>3. (s \o <<x>>) \o <<y>> = s \o (<<x>> \o <<y>>)
  BY <1>1, ConcatAssociative
<1>4. <<x>> \o <<y>> = <<x, y>>
  <2>1. /\ <<x, y>> \in Seq(T) /\ Len(<<x, y>>) = 2 /\ Len(<<x>>) = 1 /\ Len(<<y>>) = 1
        /\ <<x, y>>[1] = x /\ <<x, y>>[2] = y /\ <<x>>[1] = x /\ <<y>>[1] = y
    OBVIOUS
  <2>2. /\ <<x>> \o <<y>> \in Seq(T) /\ Len(<<x>> \o <<y>>) = 2
        /\ (<<x>> \o <<y>>)[1] = x /\ (<<x>> \o <<y>>)[2] = y
    BY <1>1, <2>1, ConcatProperties
  <2> DEFINE q == <<x>> \o <<y>>  r == <<x, y>>
  <2>3. q \in Seq(T) /\ r \in Seq(T) /\ Len(q) = 2 /\ Len(r) = 2 /\ q[1] = r[1] /\ q[2] = r[2]
    BY <2>1, <2>2
  <2> HIDE DEF q, r
  <2>4. \A i \in 1..Len(q) : q[i] = r[i]
    BY <2>3
  <2>5. q = r
    BY <2>3, <2>4, SeqEqual
  <2> QED
    BY <2>5 DEF q, r
<1> QED
  BY <1>1, <1>2, <1>3, <1>4

\* What the next item leaves of a queue.
LEMMA TailFacts ==
    ASSUME NEW T, NEW s \in Seq(T), s # <<>>
    PROVE  /\ Tail(s) \in Seq(T) /\ Head(s) \in T
           /\ ToSet(s) = ToSet(Tail(s)) \union {Head(s)}
           /\ \A S : Single(s, S) => /\ Single(Tail(s), S)
                                     /\ Head(s) \notin ToSet(Tail(s)) \intersect S
<1> DEFINE q == Tail(s)
<1>1. /\ q \in Seq(T) /\ Head(s) \in T /\ Len(q) = Len(s) - 1
      /\ Len(s) \in Nat /\ Len(s) > 0 /\ Head(s) = s[1]
      /\ \A i \in 1..Len(q) : q[i] = s[i + 1]
  BY HeadTailProperties, LenProperties, EmptySeq
<1>2. DOMAIN q = 1..(Len(s) - 1) /\ DOMAIN s = 1..Len(s)
  BY <1>1, LenProperties
<1> HIDE DEF q
<1>3. ToSet(s) = ToSet(q) \union {Head(s)}
  <2>1. ASSUME NEW i \in DOMAIN s PROVE s[i] \in ToSet(q) \union {Head(s)}
    <3>1. CASE i = 1
      BY <1>1, <3>1
    <3>2. CASE i # 1
      <4>1. i - 1 \in DOMAIN q /\ q[i - 1] = s[i]
        BY <1>1, <1>2, <3>2
      <4> QED
        BY <4>1 DEF ToSet
    <3> QED
      BY <3>1, <3>2
  <2>2. \A i \in DOMAIN q : i + 1 \in DOMAIN s /\ q[i] = s[i + 1]
    BY <1>1, <1>2
  <2>3. 1 \in DOMAIN s
    BY <1>1, <1>2
  <2> QED
    BY <1>1, <2>1, <2>2, <2>3 DEF ToSet
<1>4. ASSUME NEW S, Single(s, S)
      PROVE  Single(q, S) /\ Head(s) \notin ToSet(q) \intersect S
  <2>1. \A i \in 1..Len(q) : i + 1 \in 1..Len(s) /\ q[i] = s[i + 1]
    BY <1>1
  <2>2. Single(q, S)
    BY <1>1, <1>4, <2>1 DEF Single
  <2>3. ASSUME NEW i \in DOMAIN q, q[i] = s[1], s[1] \in S PROVE FALSE
    <3>1. i + 1 \in 1..Len(s) /\ 1 \in 1..Len(s) /\ s[i + 1] = s[1] /\ i \in Nat \ {0}
      BY <1>1, <1>2, <2>1, <2>3
    <3>2. i + 1 = 1
      BY <1>4, <2>3, <3>1 DEF Single
    <3> QED
      BY <3>1, <3>2
  <2> QED
    BY <1>1, <2>2, <2>3 DEF ToSet
<1> QED
  BY <1>1, <1>3, <1>4 DEF q

-----------------------------------------------------------------------------
(* The inductive invariant. *)

\* The results of the copies, as messages.
Done == {"completed"} \X Copies

\* Where a copy may be.
InInbox(c) == c \in ToSet(inbox)
InQueue(c) == c \in ToSet(ccdQueue)
InResults(c) == <<"completed", c>> \in ToSet(resultQueue)
InHand(c) == sending = <<"completed", c>>

\* No copy is in two places, and what is somewhere was assigned.
Alone ==
    \A c \in Copies :
        /\ InInbox(c) => ~InQueue(c) /\ c \notin inPipeline /\ ~InResults(c)
                         /\ ~InHand(c) /\ c \notin completed
        /\ InQueue(c) => c \notin inPipeline /\ ~InResults(c) /\ ~InHand(c)
                         /\ c \notin completed
        /\ c \in inPipeline => ~InResults(c) /\ ~InHand(c) /\ c \notin completed
        /\ InResults(c) => ~InHand(c) /\ c \notin completed
        /\ InHand(c) => c \notin completed
        /\ \/ InInbox(c) \/ InQueue(c) \/ c \in inPipeline \/ InResults(c) \/ InHand(c)
           \/ c \in completed
           => c \in assigned

\* Nor is it twice in a queue.
Singles == Single(inbox, Copies) /\ Single(ccdQueue, Copies) /\ Single(resultQueue, Done)

\* The message that is being sent is none after it was sent.
Sending == sender # "send" => sending = <<"end">>

\* No copy is lost while nothing goes wrong.
Found ==
    connected /\ ~cancel /\ pipeline = "running" /\ stalls = 0 =>
        \A c \in assigned :
            \/ InInbox(c) \/ InQueue(c) \/ c \in inPipeline \/ InResults(c) \/ InHand(c)
            \/ c \in completed

\* The inductive invariant of the session.
IInv == TypeOK /\ Alone /\ Singles /\ Sending /\ Found

\* Messages that complete a copy.
LEMMA MessageFacts ==
    /\ \A c \in Copies : <<"completed", c>> \in Messages /\ <<"completed", c>> \in Done
    /\ \A c \in Copies : <<"progress", c>> \in Messages /\ <<"progress", c>> \notin Done
    /\ <<"end">> \in Messages \ Done /\ <<"error">> \in Messages \ Done
    /\ \A m \in Messages : m[1] = "completed" => m[2] \in Copies /\ m = <<"completed", m[2]>>
    /\ \A c : <<"completed", c>> # <<"end">> /\ <<"completed", c>> # <<"error">>
    /\ \A c, d : <<"completed", c>> # <<"progress", d>>
    /\ \A c, d : <<"completed", c>> = <<"completed", d>> => c = d
    /\ \A c : <<"completed", c>>[1] = "completed" /\ <<"completed", c>>[2] = c
BY DEF Messages, Done

\* A message that completes no copy comes into the queue of the results.
LEMMA OtherMessage ==
    ASSUME NEW q \in Seq(Messages), Single(q, Done), NEW m \in Messages \ Done
    PROVE  /\ Append(q, m) \in Seq(Messages) /\ Single(Append(q, m), Done)
           /\ \A d \in Done : d \in ToSet(Append(q, m)) <=> d \in ToSet(q)
BY AppendFacts

-----------------------------------------------------------------------------
(* The coordinator and the network. *)

\* A copy is assigned once.
LEMMA AssignStep ==
    ASSUME IInv, NEW c \in Copies, Assign(c)
    PROVE  IInv'
<1> USE SessionAssumption DEF IInv, Assign, feederVars, pipelineVars, senderVars
<1>1. inbox' \in Seq(Copies \union {End}) /\ ToSet(inbox') = ToSet(inbox) \union {c}
  BY AppendFacts DEF TypeOK
<1>2. Single(inbox', Copies)
  BY AppendFacts DEF TypeOK, Singles, Alone, InInbox
<1>3. TypeOK'
  BY <1>1, <1>2 DEF TypeOK
<1>4. Alone'
  BY <1>1, <1>2 DEF Alone, InInbox, InQueue, InResults, InHand, TypeOK
<1>5. Singles'
  BY <1>1, <1>2 DEF Singles, TypeOK, Alone, InInbox, InQueue, InResults, InHand
<1>6. Found'
  BY <1>1, <1>2 DEF Found, InInbox, InQueue, InResults, InHand, TypeOK
<1>7. Sending'
  BY DEF Sending
<1> QED
  BY <1>3, <1>4, <1>5, <1>6, <1>7

\* The end signal is no copy.
LEMMA SendEndStep ==
    ASSUME IInv, SendEnd
    PROVE  IInv'
<1> USE SessionAssumption DEF IInv, SendEnd, feederVars, pipelineVars, senderVars
<1>1. inbox' \in Seq(Copies \union {End}) /\ ToSet(inbox') = ToSet(inbox) \union {End}
  BY AppendFacts DEF TypeOK
<1>2. Single(inbox', Copies)
  BY AppendFacts DEF TypeOK, Singles
<1>3. TypeOK'
  BY <1>1, <1>2 DEF TypeOK
<1>4. Alone'
  BY <1>1, <1>2 DEF Alone, InInbox, InQueue, InResults, InHand, TypeOK
<1>5. Singles'
  BY <1>1, <1>2 DEF Singles, TypeOK, Alone, InInbox, InQueue, InResults, InHand
<1>6. Found'
  BY <1>1, <1>2 DEF Found, InInbox, InQueue, InResults, InHand, TypeOK
<1>7. Sending'
  BY DEF Sending
<1> QED
  BY <1>3, <1>4, <1>5, <1>6, <1>7

\* The connection breaks.
LEMMA DisconnectStep ==
    ASSUME IInv, Disconnect
    PROVE  IInv'
<1> USE SessionAssumption DEF IInv, Disconnect, coordinatorVars, feederVars,
                                 pipelineVars, senderVars
<1>1. TypeOK'
  BY DEF TypeOK
<1>2. Found'
  BY DEF Found, InInbox, InQueue, InResults, InHand, TypeOK
<1>3. Alone' /\ Singles' /\ Sending'
  BY DEF Alone, InInbox, InQueue, InResults, InHand, Singles, Sending
<1> QED
  BY <1>1, <1>2, <1>3

-----------------------------------------------------------------------------
(* receive_assignments. *)

\* A message goes from one queue to the other.
LEMMA ReceiveStep ==
    ASSUME IInv, Receive
    PROVE  IInv'
<1> USE SessionAssumption DEF IInv, Receive, coordinatorVars, feederVars, pipelineVars, senderVars
<1>1. /\ inbox' \in Seq(Copies \union {End}) /\ Head(inbox) \in Copies \union {End}
      /\ ToSet(inbox) = ToSet(inbox') \union {Head(inbox)} /\ Single(inbox', Copies)
      /\ Head(inbox) \notin ToSet(inbox') \intersect Copies
  BY TailFacts DEF TypeOK, Singles
<1>2. /\ ccdQueue' \in Seq(Copies \union {End})
      /\ ToSet(ccdQueue') = ToSet(ccdQueue) \union {Head(inbox)}
  BY <1>1, AppendFacts DEF TypeOK
<1>3. Single(ccdQueue', Copies)
  BY <1>1, AppendFacts DEF TypeOK, Singles, Alone, InInbox, InQueue
<1>4. TypeOK'
  BY <1>1, <1>2, <1>3 DEF TypeOK
<1>5. Alone'
  BY <1>1, <1>2, <1>3 DEF Alone, InInbox, InQueue, InResults, InHand, TypeOK
<1>6. Singles'
  BY <1>1, <1>2, <1>3 DEF Singles, TypeOK, Alone, InInbox, InQueue, InResults, InHand
<1>7. Found'
  BY <1>1, <1>2, <1>3 DEF Found, InInbox, InQueue, InResults, InHand, TypeOK
<1>8. Sending'
  BY DEF Sending
<1> QED
  BY <1>4, <1>5, <1>6, <1>7, <1>8

\* The end signal is no copy.
LEMMA ReceiverStopsStep ==
    ASSUME IInv, ReceiverStops
    PROVE  IInv'
<1> USE SessionAssumption DEF IInv, ReceiverStops, coordinatorVars, feederVars,
                                 pipelineVars, senderVars
<1>1. /\ ccdQueue' \in Seq(Copies \union {End})
      /\ ToSet(ccdQueue') = ToSet(ccdQueue) \union {End}
  BY AppendFacts DEF TypeOK
<1>2. Single(ccdQueue', Copies)
  BY AppendFacts DEF TypeOK, Singles
<1>3. TypeOK'
  BY <1>1, <1>2 DEF TypeOK
<1>4. Alone'
  BY <1>1, <1>2 DEF Alone, InInbox, InQueue, InResults, InHand, TypeOK
<1>5. Singles'
  BY <1>1, <1>2 DEF Singles, TypeOK, Alone, InInbox, InQueue, InResults, InHand
<1>6. Found'
  BY <1>1, <1>2 DEF Found, InInbox, InQueue, InResults, InHand, TypeOK
<1>7. Sending'
  BY DEF Sending
<1> QED
  BY <1>3, <1>4, <1>5, <1>6, <1>7

-----------------------------------------------------------------------------
(* ccd_generator. *)

\* The next copy goes to the pipeline, or is dropped when that failed.
LEMMA PullStep ==
    ASSUME IInv, Pull
    PROVE  IInv'
<1> USE SessionAssumption DEF IInv, Pull, coordinatorVars, senderVars
<1>1. /\ ccdQueue' \in Seq(Copies \union {End}) /\ Head(ccdQueue) \in Copies \union {End}
      /\ ToSet(ccdQueue) = ToSet(ccdQueue') \union {Head(ccdQueue)}
      /\ Single(ccdQueue', Copies)
      /\ Head(ccdQueue) \notin ToSet(ccdQueue') \intersect Copies
  BY TailFacts DEF TypeOK, Singles
<1>2. TypeOK'
  BY <1>1 DEF TypeOK
<1>3. Alone'
  BY <1>1 DEF Alone, InInbox, InQueue, InResults, InHand, TypeOK, Failure
<1>4. Singles'
  BY <1>1 DEF Singles, TypeOK, Alone, InInbox, InQueue, InResults, InHand
<1>5. Found'
  BY <1>1 DEF Found, InInbox, InQueue, InResults, InHand, TypeOK, Failure
<1>6. Sending'
  BY DEF Sending
<1> QED
  BY <1>2, <1>3, <1>4, <1>5, <1>6

\* No more copies are taken.
LEMMA FeederStopsStep ==
    ASSUME IInv, FeederStops
    PROVE  IInv'
<1> USE SessionAssumption DEF IInv, FeederStops, coordinatorVars, pipelineVars, senderVars
<1>1. TypeOK'
  BY DEF TypeOK
<1>2. Alone' /\ Singles' /\ Sending' /\ Found'
  BY DEF Alone, InInbox, InQueue, InResults, InHand, Singles, Sending, Found
<1> QED
  BY <1>1, <1>2

\* The event loop stalls.
LEMMA AbandonGetStep ==
    ASSUME IInv, AbandonGet
    PROVE  IInv'
<1> USE SessionAssumption DEF IInv, AbandonGet, coordinatorVars, pipelineVars, senderVars
<1>1. TypeOK'
  BY DEF TypeOK
<1>2. Found'
  <2>1. stalls' # 0
    BY DEF TypeOK
  <2> QED
    BY <2>1 DEF Found
<1>3. Alone' /\ Singles' /\ Sending'
  BY DEF Alone, InInbox, InQueue, InResults, InHand, Singles, Sending
<1> QED
  BY <1>1, <1>2, <1>3

\* A copy may be lost after a stall.
LEMMA AbandonedGetEndsStep ==
    ASSUME IInv, AbandonedGetEnds
    PROVE  IInv'
<1> USE SessionAssumption DEF IInv, AbandonedGetEnds, coordinatorVars, pipelineVars, senderVars
<1>1. /\ ccdQueue' \in Seq(Copies \union {End}) /\ Single(ccdQueue', Copies)
      /\ ToSet(ccdQueue') \subseteq ToSet(ccdQueue)
  BY TailFacts DEF TypeOK, Singles
<1>2. TypeOK'
  BY <1>1 DEF TypeOK
<1>3. Alone'
  BY <1>1 DEF Alone, InInbox, InQueue, InResults, InHand, TypeOK
<1>4. Singles'
  BY <1>1 DEF Singles, TypeOK, Alone, InInbox, InQueue, InResults, InHand
<1>5. Found'
  <2>1. stalls' # 0
    BY DEF TypeOK
  <2> QED
    BY <2>1 DEF Found
<1>6. Sending'
  BY DEF Sending
<1> QED
  BY <1>2, <1>3, <1>4, <1>5, <1>6

-----------------------------------------------------------------------------
(* The pipeline. *)

\* Progress completes no copy.
LEMMA ReportProgressStep ==
    ASSUME IInv, NEW c \in Copies, ReportProgress(c)
    PROVE  IInv'
<1> USE SessionAssumption DEF IInv, ReportProgress, coordinatorVars, feederVars, senderVars
<1>1. resultQueue' \in {resultQueue, Append(resultQueue, <<"progress", c>>)}
  OBVIOUS
<1>2. /\ resultQueue' \in Seq(Messages) /\ Single(resultQueue', Done)
      /\ \A m \in Done : m \in ToSet(resultQueue') <=> m \in ToSet(resultQueue)
  <2>1. <<"progress", c>> \in Messages \ Done
    BY MessageFacts
  <2>2. resultQueue \in Seq(Messages) /\ Single(resultQueue, Done)
    BY DEF TypeOK, Singles
  <2> HIDE DEF IInv, ReportProgress
  <2>3. CASE resultQueue' = resultQueue
    BY <2>2, <2>3
  <2>4. CASE resultQueue' = Append(resultQueue, <<"progress", c>>)
    BY <2>1, <2>2, <2>4, OtherMessage
  <2> QED
    BY <1>1, <2>3, <2>4
<1>3. TypeOK'
  BY <1>1, <1>2, MessageFacts DEF TypeOK
<1>4. Alone'
  BY <1>1, <1>2, MessageFacts DEF Alone, InInbox, InQueue, InResults, InHand, TypeOK
<1>5. Singles'
  BY <1>1, <1>2 DEF Singles, TypeOK, Alone, InInbox, InQueue, InResults, InHand
<1>6. Found'
  BY <1>1, <1>2, MessageFacts DEF Found, InInbox, InQueue, InResults, InHand, TypeOK
<1>7. Sending'
  BY DEF Sending
<1> QED
  BY <1>3, <1>4, <1>5, <1>6, <1>7

\* A copy leaves the pipeline when it is reported.
LEMMA FinishCopyStep ==
    ASSUME IInv, NEW c \in Copies, FinishCopy(c)
    PROVE  IInv'
<1> USE SessionAssumption DEF IInv, FinishCopy, coordinatorVars, feederVars, senderVars
<1>1. /\ resultQueue' \in Seq(Messages)
      /\ ToSet(resultQueue') = ToSet(resultQueue) \union {<<"completed", c>>}
  BY AppendFacts, MessageFacts DEF TypeOK
<1>2. Single(resultQueue', Done)
  BY AppendFacts, MessageFacts DEF TypeOK, Singles, Alone, InResults
<1>3. TypeOK'
  BY <1>1, <1>2, MessageFacts DEF TypeOK
<1>4. Alone'
  BY <1>1, <1>2, MessageFacts DEF Alone, InInbox, InQueue, InResults, InHand, TypeOK
<1>5. Singles'
  BY <1>1, <1>2 DEF Singles, TypeOK, Alone, InInbox, InQueue, InResults, InHand
<1>6. Found'
  BY <1>1, <1>2, MessageFacts DEF Found, InInbox, InQueue, InResults, InHand, TypeOK
<1>7. Sending'
  BY DEF Sending
<1> QED
  BY <1>3, <1>4, <1>5, <1>6, <1>7

\* A pipeline that fails loses what is in it.
LEMMA FailCopyStep ==
    ASSUME IInv, NEW c \in Copies, FailCopy(c)
    PROVE  IInv'
<1> USE SessionAssumption DEF IInv, FailCopy, coordinatorVars, feederVars, senderVars
<1>1. TypeOK'
  BY DEF TypeOK
<1>2. Alone'
  BY DEF Alone, InInbox, InQueue, InResults, InHand, TypeOK, Failure
<1>3. Found'
  BY DEF Found, InInbox, InQueue, InResults, InHand, TypeOK, Failure
<1>4. Singles' /\ Sending'
  BY DEF Singles, Sending
<1> QED
  BY <1>1, <1>2, <1>3, <1>4

\* The last messages complete no copy.
LEMMA PipelineEndsStep ==
    ASSUME IInv, PipelineEnds
    PROVE  IInv'
<1> USE SessionAssumption DEF IInv, PipelineEnds, coordinatorVars, senderVars
<1>1. \E q \in {resultQueue, Append(resultQueue, <<"error">>)} :
          resultQueue' = Append(q, <<"end">>)
  BY ConcatIsAppend, MessageFacts DEF TypeOK
<1>2. PICK q \in {resultQueue, Append(resultQueue, <<"error">>)} :
               resultQueue' = Append(q, <<"end">>)
  BY <1>1
<1>3. /\ q \in Seq(Messages) /\ Single(q, Done)
      /\ \A m \in Done : m \in ToSet(q) <=> m \in ToSet(resultQueue)
  <2>1. <<"error">> \in Messages \ Done
    BY MessageFacts
  <2>2. resultQueue \in Seq(Messages) /\ Single(resultQueue, Done)
    BY DEF TypeOK, Singles
  <2> HIDE DEF IInv, PipelineEnds
  <2>3. CASE q = resultQueue
    BY <2>2, <2>3
  <2>4. CASE q = Append(resultQueue, <<"error">>)
    BY <2>1, <2>2, <2>4, OtherMessage
  <2> QED
    BY <2>3, <2>4
<1>4. /\ resultQueue' \in Seq(Messages) /\ Single(resultQueue', Done)
      /\ \A m \in Done : m \in ToSet(resultQueue') <=> m \in ToSet(resultQueue)
  <2>1. <<"end">> \in Messages \ Done
    BY MessageFacts
  <2> HIDE DEF IInv, PipelineEnds
  <2> QED
    BY <1>2, <1>3, <2>1, OtherMessage
<1>5. TypeOK'
  BY <1>1, <1>2, <1>3, <1>4, MessageFacts DEF TypeOK
<1>6. Alone'
  BY <1>1, <1>2, <1>3, <1>4, MessageFacts DEF Alone, InInbox, InQueue, InResults,
     InHand, TypeOK, Failure
<1>7. Singles'
  BY <1>1, <1>2, <1>3, <1>4 DEF Singles, TypeOK, Alone, InInbox, InQueue, InResults,
     InHand
<1>8. Found'
  BY <1>1, <1>2, <1>3, <1>4, MessageFacts DEF Found, InInbox, InQueue, InResults,
     InHand, TypeOK, Failure
<1>9. Sending'
  BY DEF Sending
<1> QED
  BY <1>5, <1>6, <1>7, <1>8, <1>9

-----------------------------------------------------------------------------
(* send_results. *)

\* Nothing is sent yet.
LEMMA SenderChecksStep ==
    ASSUME IInv, SenderChecks
    PROVE  IInv'
<1> USE SessionAssumption DEF IInv, SenderChecks, coordinatorVars, feederVars, pipelineVars
<1>1. TypeOK'
  BY DEF TypeOK
<1>2. Sending'
  BY DEF Sending, TypeOK
<1>3. Alone' /\ Singles' /\ Found'
  BY DEF Alone, InInbox, InQueue, InResults, InHand, Singles, Found
<1> QED
  BY <1>1, <1>2, <1>3

\* The next message is taken.
LEMMA SenderGetsStep ==
    ASSUME IInv, SenderGets
    PROVE  IInv'
<1> USE SessionAssumption DEF IInv, SenderGets, coordinatorVars, feederVars, pipelineVars
<1>1. /\ resultQueue' \in Seq(Messages) /\ Head(resultQueue) \in Messages
      /\ ToSet(resultQueue) = ToSet(resultQueue') \union {Head(resultQueue)}
      /\ Single(resultQueue', Done)
      /\ Head(resultQueue) \notin ToSet(resultQueue') \intersect Done
  BY TailFacts DEF TypeOK, Singles
<1>2. TypeOK'
  BY <1>1, MessageFacts DEF TypeOK
<1>3. \A c \in Copies : /\ InInbox(c)' <=> InInbox(c)
                        /\ InQueue(c)' <=> InQueue(c)
  BY DEF InInbox, InQueue
<1>4. ASSUME NEW c \in Copies
      PROVE  /\ ~InHand(c)
             /\ InResults(c) <=> InResults(c)' \/ InHand(c)'
             /\ ~(InResults(c)' /\ InHand(c)')
  <2>1. ~InHand(c)
    BY MessageFacts DEF InHand, Sending
  <2>2. InResults(c) <=> InResults(c)' \/ InHand(c)'
    BY <1>1 DEF InResults, InHand
  <2>3. ~(InResults(c)' /\ InHand(c)')
    BY <1>1, MessageFacts DEF InResults, InHand
  <2> QED
    BY <2>1, <2>2, <2>3
<1>5. Alone'
  BY <1>3, <1>4 DEF Alone
<1>6. Singles'
  BY <1>1 DEF Singles, TypeOK, Alone, InInbox, InQueue, InResults, InHand
<1>7. Sending'
  BY <1>1 DEF Sending, TypeOK
<1>8. Found'
  <2>1. assigned \subseteq Copies
    BY DEF TypeOK
  <2> QED
    BY <1>3, <1>4, <2>1 DEF Found
<1> QED
  BY <1>2, <1>5, <1>6, <1>7, <1>8

\* The message arrives, or the connection is lost.
LEMMA SenderSendsStep ==
    ASSUME IInv, SenderSends
    PROVE  IInv'
<1> USE SessionAssumption DEF IInv, SenderSends, feederVars, pipelineVars
<1>1. TypeOK'
  BY MessageFacts DEF TypeOK
<1>2. Alone'
  <2>1. \A c \in Copies : ~InHand(c)'
    BY MessageFacts DEF InHand
  <2>2. CASE completed' = completed
    BY <2>1, <2>2 DEF Alone, InInbox, InQueue, InResults
  <2>3. CASE completed' # completed
    <3>1. sending[1] = "completed" /\ completed' = completed \union {sending[2]}
      BY <2>3
    <3>2. sending[2] \in Copies /\ InHand(sending[2])
      BY <3>1, MessageFacts DEF TypeOK, InHand
    <3> QED
      BY <2>1, <3>1, <3>2 DEF Alone, InInbox, InQueue, InResults
  <2> QED
    BY <2>2, <2>3
<1>3. Sending'
  BY DEF Sending, TypeOK
<1>4. Found'
  <2> SUFFICES ASSUME connected, ~cancel, pipeline = "running", stalls = 0, NEW c \in assigned
               PROVE  \/ InInbox(c)' \/ InQueue(c)' \/ c \in inPipeline' \/ InResults(c)'
                      \/ InHand(c)' \/ c \in completed'
    BY DEF Found
  <2>1. \/ InInbox(c) \/ InQueue(c) \/ c \in inPipeline \/ InResults(c) \/ InHand(c)
        \/ c \in completed
    BY DEF Found
  <2>2. InHand(c) => c \in completed'
    BY DEF InHand
  <2>3. /\ InInbox(c)' <=> InInbox(c)
        /\ InQueue(c)' <=> InQueue(c)
        /\ InResults(c)' <=> InResults(c)
        /\ inPipeline' = inPipeline /\ completed \subseteq completed'
    BY DEF InInbox, InQueue, InResults
  <2> QED
    BY <2>1, <2>2, <2>3
<1>5. Singles'
  BY DEF Singles
<1> QED
  BY <1>1, <1>2, <1>3, <1>4, <1>5

\* The session is over.
LEMMA CloseStep ==
    ASSUME IInv, Close
    PROVE  IInv'
<1> USE SessionAssumption DEF IInv, Close, coordinatorVars, feederVars, pipelineVars, senderVars
<1>1. TypeOK'
  BY DEF TypeOK
<1>2. Alone' /\ Singles' /\ Sending' /\ Found'
  BY DEF Alone, InInbox, InQueue, InResults, InHand, Singles, Sending, Found
<1> QED
  BY <1>1, <1>2

-----------------------------------------------------------------------------
(* The specification. *)

\* Nothing has been assigned yet.
LEMMA InitIInv == Init => IInv
<1> SUFFICES ASSUME Init PROVE IInv
  OBVIOUS
<1> USE SessionAssumption DEF Init
<1>1. /\ ToSet(inbox) = {} /\ ToSet(ccdQueue) = {} /\ ToSet(resultQueue) = {}
      /\ Len(inbox) = 0 /\ Len(ccdQueue) = 0 /\ Len(resultQueue) = 0
  BY DEF ToSet
<1>2. TypeOK
  <2>1. {endSent, errorSeen, connected, cancel, closed} \subseteq BOOLEAN
    OBVIOUS
  <2>2. inbox \in Seq(Copies \union {End}) /\ ccdQueue \in Seq(Copies \union {End})
    OBVIOUS
  <2>3. resultQueue \in Seq(Messages) /\ sending \in Messages
    BY MessageFacts
  <2>4. stalls \in 0..MaxStalls /\ getters \in 0..stalls
    OBVIOUS
  <2> QED
    BY <2>1, <2>2, <2>3, <2>4 DEF TypeOK
<1>3. Alone
  BY <1>1, MessageFacts DEF Alone, InInbox, InQueue, InResults, InHand
<1>4. Singles /\ Sending /\ Found
  BY <1>1 DEF Singles, Single, Sending, Found
<1> QED
  BY <1>2, <1>3, <1>4 DEF IInv

\* A step of something else.
LEMMA UnchangedIInv ==
    ASSUME IInv, UNCHANGED vars
    PROVE  IInv'
BY DEF IInv, TypeOK, Alone, Singles, Sending, Found, InInbox, InQueue, InResults, InHand,
       vars, coordinatorVars, feederVars, pipelineVars, senderVars

\* Every step keeps the invariant.
LEMMA StepIInv ==
    ASSUME IInv, [Next]_vars
    PROVE  IInv'
<1>1. ASSUME NEW c \in Copies, Assign(c) PROVE IInv'
  BY <1>1, AssignStep
<1>2. ASSUME SendEnd PROVE IInv'
  BY <1>2, SendEndStep
<1>3. ASSUME Disconnect PROVE IInv'
  BY <1>3, DisconnectStep
<1>4. ASSUME Receive PROVE IInv'
  BY <1>4, ReceiveStep
<1>5. ASSUME ReceiverStops PROVE IInv'
  BY <1>5, ReceiverStopsStep
<1>6. ASSUME Pull PROVE IInv'
  BY <1>6, PullStep
<1>7. ASSUME FeederStops PROVE IInv'
  BY <1>7, FeederStopsStep
<1>8. ASSUME AbandonGet PROVE IInv'
  BY <1>8, AbandonGetStep
<1>9. ASSUME AbandonedGetEnds PROVE IInv'
  BY <1>9, AbandonedGetEndsStep
<1>10. ASSUME NEW c \in Copies, ReportProgress(c) PROVE IInv'
  BY <1>10, ReportProgressStep
<1>11. ASSUME NEW c \in Copies, FinishCopy(c) PROVE IInv'
  BY <1>11, FinishCopyStep
<1>12. ASSUME NEW c \in Copies, FailCopy(c) PROVE IInv'
  BY <1>12, FailCopyStep
<1>13. ASSUME PipelineEnds PROVE IInv'
  BY <1>13, PipelineEndsStep
<1>14. ASSUME SenderChecks PROVE IInv'
  BY <1>14, SenderChecksStep
<1>15. ASSUME SenderGets PROVE IInv'
  BY <1>15, SenderGetsStep
<1>16. ASSUME SenderSends PROVE IInv'
  BY <1>16, SenderSendsStep
<1>17. ASSUME Close PROVE IInv'
  BY <1>17, CloseStep
<1>18. ASSUME UNCHANGED vars PROVE IInv'
  BY <1>18, UnchangedIInv
<1> QED
  BY <1>1, <1>2, <1>3, <1>4, <1>5, <1>6, <1>7, <1>8, <1>9, <1>10, <1>11, <1>12, <1>13,
     <1>14, <1>15, <1>16, <1>17, <1>18 DEF Next, ReceiverStep, FeederStep, SenderStep

\* The inductive invariant holds in every reachable state.
THEOREM InductiveInvariant == Spec => []IInv
<1>1. Init => IInv
  BY InitIInv
<1>2. IInv /\ [Next]_vars => IInv'
  BY StepIInv
<1> QED
  BY <1>1, <1>2, PTL DEF Spec

\* What the numbered places are.
LEMMA PlacesAre ==
    ASSUME NEW c
    PROVE  /\ DOMAIN Places(c) = 1..6
           /\ Places(c)[1] <=> InInbox(c)
           /\ Places(c)[2] <=> InQueue(c)
           /\ Places(c)[3] <=> c \in inPipeline
           /\ Places(c)[4] <=> InResults(c)
           /\ Places(c)[5] <=> InHand(c)
           /\ Places(c)[6] <=> c \in completed
<1>1. DOMAIN Places(c) = 1..6
  BY DEF Places
<1>2. Places(c)[1] <=> InInbox(c)
  BY DEF Places, InInbox
<1>3. Places(c)[2] <=> InQueue(c)
  BY DEF Places, InQueue
<1>4. Places(c)[3] <=> c \in inPipeline
  BY DEF Places
<1>5. Places(c)[4] <=> InResults(c)
  BY DEF Places, InResults
<1>6. Places(c)[5] <=> InHand(c)
  BY DEF Places, InHand
<1>7. Places(c)[6] <=> c \in completed
  BY DEF Places
<1> QED
  BY <1>1, <1>2, <1>3, <1>4, <1>5, <1>6, <1>7

\* The tasks of a session (receive_assignments, ccd_generator, the pipeline and
\* send_results) never process or report a copy twice, and report nothing that
\* was not assigned.
THEOREM CopyInOnePlace == Spec => []AtMostOnePlace
<1>1. ASSUME IInv PROVE AtMostOnePlace
  <2> SUFFICES ASSUME NEW c \in Copies, NEW i \in 1..6, NEW j \in 1..6, Places(c)[i]
               PROVE  c \in assigned /\ (Places(c)[j] => i = j)
    BY DEF AtMostOnePlace
  <2>1. i \in {1, 2, 3, 4, 5, 6} /\ j \in {1, 2, 3, 4, 5, 6}
    OBVIOUS
  <2> QED
    BY <1>1, <2>1, PlacesAre DEF IInv, Alone
<1> QED
  BY <1>1, InductiveInvariant, PTL

\* While the session is up and the event loop keeps pace, no copy is lost between
\* those tasks.
THEOREM NoCopyIsLost == Spec => []NothingLost
<1>1. ASSUME IInv PROVE NothingLost
  <2> SUFFICES ASSUME connected, ~cancel, pipeline = "running", stalls = 0,
                      NEW c \in assigned
               PROVE  \E i \in 1..6 : Places(c)[i]
    BY <1>1 DEF NothingLost, IInv, TypeOK
  <2>1. \/ InInbox(c) \/ InQueue(c) \/ c \in inPipeline \/ InResults(c) \/ InHand(c)
        \/ c \in completed
    BY <1>1 DEF IInv, Found
  <2>2. 1 \in 1..6 /\ 2 \in 1..6 /\ 3 \in 1..6 /\ 4 \in 1..6 /\ 5 \in 1..6 /\ 6 \in 1..6
    OBVIOUS
  <2> QED
    BY <2>1, <2>2, PlacesAre
<1> QED
  BY <1>1, InductiveInvariant, PTL

\* Every state of a session is well typed.
THEOREM TypeCorrect == Spec => []TypeOK
BY InductiveInvariant, PTL DEF IInv

\* What the run checks of a session on two copies holds for any set of copies and any
\* number of stalls: its tasks process and report every copy they got once and only once.
THEOREM SessionIsSafe == Spec => []SessionInv
<1>1. TypeOK /\ AtMostOnePlace /\ NothingLost => SessionInv
  BY DEF SessionInv
<1> QED
  BY <1>1, TypeCorrect, CopyInOnePlace, NoCopyIsLost, PTL

-----------------------------------------------------------------------------
(* The pipeline of the session. *)

\* What progress_queue carries: a report of a CCD, or the end mark.
ProgressMessages == (Ccds \X {"preprocessed", "saved"}) \union {<<"done">>}

\* The types; the assumption bounds no set, but the session has yielded finitely many refs.
PipeShapes ==
    /\ given \subseteq Ccds /\ IsFiniteSet(given) /\ saved \subseteq Ccds
    /\ ended \in BOOLEAN /\ refilling \in BOOLEAN /\ exhausted \in BOOLEAN
    /\ drained \in BOOLEAN
    /\ place \in [Ccds -> CcdPlaces] /\ attempt \in [Ccds -> 1..2]
    /\ ccdFile \in [Ccds -> {"none", "part", "whole"}]
    /\ permits \in Nat
    /\ pathFeeder \in {"running", "failing", "closing", "raised", "done"}
    /\ main \in {"running", "terminating", "raised", "returned"}
    /\ progressQueue \in Seq(ProgressMessages)
    /\ emitted \subseteq Ccds \X Reports
    /\ outcome \in {"running", "returned", "raised"}
    /\ pipelineFaults \in 0..MaxPipelineFaults

\* A CCD is in the pipeline once its ref was yielded.
PlacesInv == \A c \in Ccds : place[c] = "none" <=> c \notin given

\* Who has a permit of download_sem: from the beginning of the download until the file is
\* read, or for ever.
Holders == At({"downloading", "downloaded", "failed", "pooled", "processing"})

\* A permit is lost only with a CCD that is dropped.
PermitsInv ==
    /\ permits + Cardinality(Holders) <= Permits
    /\ At({"dropped"}) = {} => permits + Cardinality(Holders) = Permits

\* A CCD holds a slot of buffer_slots from its ref until its reports were yielded.
Underway == given \ At({"completed"})

\* The slots bound the CCDs that are underway.
SlotsInv == Cardinality(Underway) <= Slots

\* The threads: who leaves has nothing in hand, and CCDs are dropped by a failure.
ThreadsInv ==
    /\ exhausted => ~refilling
    /\ pathFeeder \in {"raised", "done"} => ~refilling /\ At({"waiting", "downloading"}) = {}
    /\ main \in {"running", "returned"} =>
          /\ pathFeeder # "closing"
          /\ pathFeeder = "done" => InFlight = {}
          /\ At({"dropped"}) # {} => pathFeeder \in {"failing", "raised"}
    /\ main # "running" => InPool = {}
    /\ main = "returned" => pathFeeder = "done"
    /\ main = "raised" => pathFeeder \in {"raised", "done"}
    /\ outcome # "running" => drained /\ outcome = main

\* The last thing that main() puts into the queue is its end.
EndMark == <<"done">>

\* It is there from the end of main() until run() has taken it, and nothing follows it.
QueueInv ==
    LET n == Len(progressQueue) IN
    /\ \A i \in 1 .. n : progressQueue[i] = EndMark => i = n /\ ~drained
    /\ main \in {"running", "terminating"} =>
          ~drained /\ \A i \in 1 .. n : progressQueue[i] # EndMark
    /\ main \in {"raised", "returned"} =>
          IF drained THEN progressQueue = <<>>
          ELSE n > 0 /\ progressQueue[n] = EndMark

\* What was reported of a CCD: put into q, or on its way there.
Told(c, what) ==
    \/ <<c, what>> \in emitted
    \/ \E i \in 1 .. Len(progressQueue) : progressQueue[i] = <<c, what>>

\* What must have been reported of a CCD that is at a place.
Reported(c, at) ==
    /\ at \in {"downloading", "downloaded", "pooled", "processing", "tiling", "result",
               "completed"} => <<c, "started">> \in emitted
    /\ at \in {"downloaded", "pooled", "processing", "tiling", "result", "completed"} =>
          <<c, "downloaded">> \in emitted
    /\ at \in {"tiling", "result", "completed"} => Told(c, "preprocessed")
    /\ at \in {"result", "completed"} => c \in saved /\ Told(c, "saved")
    /\ at = "completed" => <<c, "metadata">> \in emitted

\* Every CCD has reported what precedes its place, and only a given CCD is saved.
ReportsInv ==
    \A c \in Ccds : /\ \A at \in {place[c]} : Reported(c, at)
                    /\ c \in saved => c \in given

\* The inductive invariant of the pipeline.
PipeIInv ==
    /\ PipeShapes /\ PlacesInv /\ PermitsInv /\ SlotsInv /\ ThreadsInv /\ QueueInv
    /\ ReportsInv

\* At the beginning the pipeline is empty.
LEMMA PipelineInitIInv == PipelineInit => PipeIInv
<1> SUFFICES ASSUME PipelineInit PROVE PipeIInv
  OBVIOUS
<1>1. /\ Holders = {} /\ Underway = {} /\ InFlight = {} /\ InPool = {}
      /\ At({"dropped"}) = {} /\ At({"waiting", "downloading"}) = {}
  BY DEF PipelineInit, Holders, Underway, InFlight, InPool, At
<1>2. Permits \in Nat /\ Slots \in Nat /\ MaxPipelineFaults \in Nat
  BY PipelineAssumption
<1>3. PermitsInv /\ SlotsInv
  BY <1>1, <1>2, FS_EmptySet DEF PipelineInit, PermitsInv, SlotsInv
<1>4. PipeShapes
  <2>1. IsFiniteSet(given)
    BY FS_EmptySet DEF PipelineInit
  <2>2. place \in [Ccds -> CcdPlaces] /\ progressQueue \in Seq(ProgressMessages)
    BY DEF PipelineInit, CcdPlaces
  <2>3. attempt \in [Ccds -> 1..2] /\ ccdFile \in [Ccds -> {"none", "part", "whole"}]
    BY DEF PipelineInit
  <2>4. permits \in Nat /\ pipelineFaults \in 0..MaxPipelineFaults
    BY <1>2 DEF PipelineInit
  <2>5. given = {} /\ saved = {} /\ emitted = {}
    BY DEF PipelineInit
  <2> QED
    BY <2>1, <2>2, <2>3, <2>4, <2>5 DEF PipelineInit, PipeShapes
<1>5. PlacesInv /\ ThreadsInv
  BY <1>1 DEF PipelineInit, PlacesInv, ThreadsInv
<1>6. QueueInv /\ ReportsInv
  <2>1. Len(progressQueue) = 0 /\ main = "running" /\ ~ drained
    BY DEF PipelineInit
  <2>2. \A c \in Ccds : place[c] = "none" /\ c \notin saved
    BY DEF PipelineInit
  <2> QED
    BY <2>1, <2>2 DEF QueueInv, ReportsInv, Reported
<1> QED
  BY <1>3, <1>4, <1>5, <1>6 DEF PipeIInv

\* Permit holders are CCDs under way.
LEMMA HoldersAreUnderway ==
    ASSUME PipeIInv
    PROVE  /\ Holders \subseteq Underway /\ IsFiniteSet(Underway) /\ IsFiniteSet(Holders)
           /\ Cardinality(Holders) \in Nat /\ Cardinality(Underway) \in Nat
           /\ Cardinality(Holders) <= Cardinality(Underway)
<1>1. Holders \subseteq Underway
  BY DEF Holders, Underway, At, PipeIInv, PlacesInv
<1>2. IsFiniteSet(Underway)
  <2>1. Underway \subseteq given
    BY DEF Underway
  <2> QED
    BY <2>1, FS_Subset DEF PipeIInv, PipeShapes
<1> QED
  BY <1>1, <1>2, FS_Subset, FS_CardinalityType

\* The invariant says what the run checks.
LEMMA PipeIInvImplies == PipeIInv => PipelineInv
<1> SUFFICES ASSUME PipeIInv PROVE PipelineInv
  OBVIOUS
<1>1. PipelineTypeOK
  <2>1. permits \in 0 .. Permits
    BY HoldersAreUnderway, PipelineAssumption DEF PipeIInv, PipeShapes, PermitsInv
  <2>2. saved \subseteq given
    BY DEF PipeIInv, PipeShapes, ReportsInv
  <2> QED
    BY <2>1, <2>2 DEF PipeIInv, PipeShapes, PipelineTypeOK, ProgressMessages
<1>2. ReturnedIsComplete
  <2> SUFFICES ASSUME outcome = "returned", NEW c \in given
               PROVE  c \in saved /\ \A k \in Reports : <<c, k>> \in emitted
    BY DEF ReturnedIsComplete
  <2>1. main = "returned" /\ drained
    BY DEF PipeIInv, ThreadsInv
  <2>2. progressQueue = <<>>
    BY <2>1 DEF PipeIInv, QueueInv
  <2>3. c \in Ccds /\ place[c] = "completed"
    <3>1. c \in Ccds /\ place[c] \in CcdPlaces /\ place[c] # "none"
      BY DEF PipeIInv, PipeShapes, PlacesInv
    <3>2. c \notin InFlight /\ c \notin InPool /\ c \notin At({"dropped"})
      BY <2>1 DEF PipeIInv, ThreadsInv
    <3> QED
      BY <3>1, <3>2 DEF InFlight, InPool, At, CcdPlaces
  <2>4. /\ c \in saved /\ <<c, "started">> \in emitted /\ <<c, "downloaded">> \in emitted
        /\ Told(c, "preprocessed") /\ Told(c, "saved") /\ <<c, "metadata">> \in emitted
    BY <2>3 DEF PipeIInv, ReportsInv, Reported
  <2>5. \A k : Told(c, k) => <<c, k>> \in emitted
    BY <2>2 DEF Told
  <2> QED
    BY <2>4, <2>5 DEF Reports
<1>3. NoWaitForPermit
  <2> SUFFICES ASSUME NEW c \in Ccds, place[c] = "waiting", pathFeeder = "running", main = "running"
               PROVE  permits > 0
    BY DEF NoWaitForPermit
  <2>1. At({"dropped"}) = {}
    BY DEF PipeIInv, ThreadsInv
  <2>2. permits + Cardinality(Holders) = Permits /\ permits \in Nat
    BY <2>1 DEF PipeIInv, PipeShapes, PermitsInv
  <2>3. c \in Underway /\ c \notin Holders
    BY DEF Underway, Holders, At, PipeIInv, PlacesInv
  <2>4. Cardinality(Holders) # Cardinality(Underway)
    BY <2>3, HoldersAreUnderway, FS_Subset
  <2>5. Cardinality(Underway) <= Slots
    BY DEF PipeIInv, SlotsInv
  <2> QED
    BY <2>2, <2>4, <2>5, HoldersAreUnderway, PipelineAssumption
<1> QED
  BY <1>1, <1>2, <1>3 DEF PipelineInv
\* A CCD that moves leaves the others where they are.
LEMMA MoveEffect ==
    ASSUME PipeShapes, NEW c \in Ccds, NEW to \in CcdPlaces, MoveCcd(c, to)
    PROVE  /\ place' \in [Ccds -> CcdPlaces] /\ place'[c] = to
           /\ \A b \in Ccds : b # c => place'[b] = place[b]
BY DEF PipeShapes, MoveCcd

\* What each step does, without the tuples of variables.

\* The types.
LEMMA ShapesStep ==
    ASSUME PipeIInv, [PipelineNext]_pipeVars
    PROVE  PipeShapes'
<1>1. CASE UNCHANGED pipeVars
  BY <1>1 DEF pipeVars, pathFeederVars, downloadVars, resultVars, PipeIInv, PipeShapes
<1>2. CASE EndSignal
  BY <1>2 DEF EndSignal, downloadVars, resultVars, PipeIInv, PipeShapes
<1>3. CASE Refill
  BY <1>3 DEF Refill, downloadVars, resultVars, PipeIInv, PipeShapes
<1>4. CASE Exhaust
  BY <1>4 DEF Exhaust, downloadVars, resultVars, PipeIInv, PipeShapes
<1>5. CASE FeederEnds
  BY <1>5 DEF FeederEnds, downloadVars, resultVars, PipeIInv, PipeShapes
<1>6. CASE MainFails
  BY <1>6 DEF MainFails, pathFeederVars, downloadVars, resultVars, PipeIInv,
       PipeShapes, CcdPlaces
<1>7. CASE MainEnds
  BY <1>7 DEF MainEnds, pathFeederVars, downloadVars, PipeIInv, PipeShapes, ProgressMessages
<1>8. CASE Drain
  <2>1. progressQueue \in Seq(ProgressMessages) /\ progressQueue # <<>>
    BY <1>8 DEF Drain, PipeIInv, PipeShapes
  <2>2. Head(progressQueue) \in ProgressMessages /\ Tail(progressQueue) \in Seq(ProgressMessages)
    BY <2>1, HeadTailProperties
  <2>3. Head(progressQueue) # <<"done">> => Head(progressQueue) \in Ccds \X Reports
    BY <2>2 DEF ProgressMessages, Reports
  <2>4. emitted' \subseteq Ccds \X Reports
    BY <1>8, <2>3 DEF Drain, PipeIInv, PipeShapes
  <2> QED
    BY <1>8, <2>2, <2>4 DEF Drain, PipeIInv, PipeShapes, pathFeederVars, downloadVars
<1>9. CASE FinishPipeline
  BY <1>9 DEF FinishPipeline, pathFeederVars, downloadVars, PipeIInv, PipeShapes
<1>10. ASSUME NEW c \in Ccds, Give(c) PROVE PipeShapes'
  <2>1. IsFiniteSet(given')
    BY <1>10, FS_AddElement DEF Give, PipeIInv, PipeShapes
  <2>2. place' \in [Ccds -> CcdPlaces]
    BY <1>10 DEF Give, MoveCcd, CcdPlaces, PipeIInv, PipeShapes
  <2> QED
    BY <1>10, <2>1, <2>2 DEF Give, PipeIInv, PipeShapes, downloadVars, resultVars
<1>11. ASSUME NEW c \in Ccds, Acquire(c) PROVE PipeShapes'
  BY <1>11 DEF Acquire, MoveCcd, Emit, pathFeederVars, PipeIInv, PipeShapes,
       CcdPlaces, Reports
<1>12. ASSUME NEW c \in Ccds, Write(c) PROVE PipeShapes'
  BY <1>12 DEF Write, pathFeederVars, resultVars, PipeIInv, PipeShapes
<1>13. ASSUME NEW c \in Ccds, Downloaded(c) PROVE PipeShapes'
  BY <1>13 DEF Downloaded, MoveCcd, Emit, pathFeederVars, downloadVars, PipeIInv,
       PipeShapes, CcdPlaces, Reports
<1>14. ASSUME NEW c \in Ccds, TimeOut(c) PROVE PipeShapes'
  <2>1. pipelineFaults' \in 0..MaxPipelineFaults
    BY <1>14, PipelineAssumption DEF PipeIInv, PipeShapes, TimeOut, Fault
  <2>2. place' \in [Ccds -> CcdPlaces]
    BY <1>14 DEF TimeOut, MoveCcd, CcdPlaces, PipeIInv, PipeShapes
  <2>3. ccdFile' \in [Ccds -> {"none", "part", "whole"}] /\ attempt' \in [Ccds -> 1..2]
    BY <1>14 DEF TimeOut, PipeIInv, PipeShapes, downloadVars
  <2>4. permits' \in Nat
    BY <1>14 DEF TimeOut, PipeIInv, PipeShapes, downloadVars
  <2> QED
    BY <1>14, <2>1, <2>2, <2>3, <2>4 DEF TimeOut, PipeIInv, PipeShapes,
         pathFeederVars, downloadVars,
       resultVars
<1>15. ASSUME NEW c \in Ccds, DownloadFails(c) PROVE PipeShapes'
  <2>1. pipelineFaults' \in 0..MaxPipelineFaults
    BY <1>15, PipelineAssumption DEF PipeIInv, PipeShapes, DownloadFails, Fault
  <2>2. place' \in [Ccds -> CcdPlaces]
    BY <1>15 DEF DownloadFails, MoveCcd, CcdPlaces, PipeIInv, PipeShapes
  <2>3. ccdFile' \in [Ccds -> {"none", "part", "whole"}] /\ attempt' \in [Ccds -> 1..2]
    BY <1>15 DEF DownloadFails, PipeIInv, PipeShapes, downloadVars
  <2>4. permits' \in Nat
    BY <1>15 DEF DownloadFails, PipeIInv, PipeShapes, downloadVars
  <2> QED
    BY <1>15, <2>1, <2>2, <2>3, <2>4 DEF DownloadFails, PipeIInv, PipeShapes,
         pathFeederVars, downloadVars,
       resultVars
<1>16. ASSUME NEW c \in Ccds, Feed(c) PROVE PipeShapes'
  BY <1>16 DEF Feed, MoveCcd, downloadVars, resultVars, PipeIInv, PipeShapes, CcdPlaces
<1>17. ASSUME NEW c \in Ccds, FeedFails(c) PROVE PipeShapes'
  BY <1>17 DEF FeedFails, MoveCcd, downloadVars, resultVars, PipeIInv, PipeShapes,
       CcdPlaces
<1>18. ASSUME NEW c \in Ccds, StartProcess(c) PROVE PipeShapes'
  BY <1>18 DEF StartProcess, MoveCcd, pathFeederVars, downloadVars, resultVars,
       PipeIInv, PipeShapes, CcdPlaces
<1>19. ASSUME NEW c \in Ccds, Preprocess(c) PROVE PipeShapes'
  BY <1>19 DEF Preprocess, MoveCcd, pathFeederVars, PipeIInv, PipeShapes, CcdPlaces,
       ProgressMessages
<1>20. ASSUME NEW c \in Ccds, SaveTiles(c) PROVE PipeShapes'
  BY <1>20 DEF SaveTiles, MoveCcd, pathFeederVars, downloadVars, PipeIInv,
       PipeShapes, CcdPlaces, ProgressMessages
<1>21. ASSUME NEW c \in Ccds, ProcessFails(c) PROVE PipeShapes'
  <2>1. pipelineFaults' \in 0..MaxPipelineFaults
    BY <1>21, PipelineAssumption DEF PipeIInv, PipeShapes, ProcessFails, Fault
  <2>2. place' \in [Ccds -> CcdPlaces]
    BY <1>21 DEF ProcessFails, MoveCcd, CcdPlaces, PipeIInv, PipeShapes
  <2>3. ccdFile' \in [Ccds -> {"none", "part", "whole"}] /\ attempt' \in [Ccds -> 1..2]
    BY <1>21 DEF ProcessFails, PipeIInv, PipeShapes, downloadVars
  <2>4. permits' \in Nat
    BY <1>21 DEF ProcessFails, PipeIInv, PipeShapes, downloadVars
  <2> QED
    BY <1>21, <2>1, <2>2, <2>3, <2>4 DEF ProcessFails, PipeIInv, PipeShapes,
         pathFeederVars, downloadVars,
       resultVars
<1>22. ASSUME NEW c \in Ccds, Result(c) PROVE PipeShapes'
  BY <1>22 DEF Result, MoveCcd, Emit, pathFeederVars, downloadVars, PipeIInv,
       PipeShapes, CcdPlaces, Reports
<1> QED
  BY <1>1, <1>2, <1>3, <1>4, <1>5, <1>6, <1>7, <1>8, <1>9, <1>10, <1>11, <1>12,
       <1>13, <1>14, <1>15, <1>16, <1>17, <1>18, <1>19, <1>20, <1>21, <1>22
     DEF PipelineNext, PathFeederStep, MainStep, Download, Process

\* A CCD is in the pipeline once its ref was yielded.
LEMMA PlacesStep ==
    ASSUME PipeIInv, [PipelineNext]_pipeVars
    PROVE  PlacesInv'
<1>1. CASE UNCHANGED pipeVars
  BY <1>1 DEF pipeVars, pathFeederVars, downloadVars, resultVars, PipeIInv,
       PlacesInv, InPool, At, CcdPlaces
<1>2. CASE EndSignal
  BY <1>2 DEF EndSignal, downloadVars, resultVars, PipeIInv, PlacesInv
<1>3. CASE Refill
  BY <1>3 DEF Refill, downloadVars, resultVars, PipeIInv, PlacesInv
<1>4. CASE Exhaust
  BY <1>4 DEF Exhaust, downloadVars, resultVars, PipeIInv, PlacesInv
<1>5. CASE FeederEnds
  BY <1>5 DEF FeederEnds, downloadVars, resultVars, PipeIInv, PipeShapes, PlacesInv
<1>6. CASE MainFails
  BY <1>6 DEF MainFails, pathFeederVars, downloadVars, resultVars, PipeIInv,
       PipeShapes, PlacesInv, InPool, At
<1>7. CASE MainEnds
  BY <1>7 DEF MainEnds, pathFeederVars, downloadVars, PipeIInv, PipeShapes, PlacesInv
<1>8. CASE Drain
  BY <1>8 DEF Drain, pathFeederVars, downloadVars, PipeIInv, PlacesInv
<1>9. CASE FinishPipeline
  BY <1>9 DEF FinishPipeline, pathFeederVars, downloadVars, PipeIInv, PipeShapes, PlacesInv
<1>10. ASSUME NEW c \in Ccds, Give(c) PROVE PlacesInv'
  BY <1>10 DEF Give, MoveCcd, downloadVars, resultVars, PipeIInv, PipeShapes, PlacesInv
<1>11. ASSUME NEW c \in Ccds, Acquire(c) PROVE PlacesInv'
  BY <1>11 DEF Acquire, MoveCcd, Emit, pathFeederVars, PipeIInv, PipeShapes, PlacesInv
<1>12. ASSUME NEW c \in Ccds, Write(c) PROVE PlacesInv'
  BY <1>12 DEF Write, pathFeederVars, resultVars, PipeIInv, PlacesInv
<1>13. ASSUME NEW c \in Ccds, Downloaded(c) PROVE PlacesInv'
  BY <1>13 DEF Downloaded, MoveCcd, Emit, pathFeederVars, downloadVars, PipeIInv,
       PipeShapes, PlacesInv
<1>14. ASSUME NEW c \in Ccds, TimeOut(c) PROVE PlacesInv'
  BY <1>14 DEF TimeOut, MoveCcd, pathFeederVars, resultVars, PipeIInv, PipeShapes,
       PlacesInv
<1>15. ASSUME NEW c \in Ccds, DownloadFails(c) PROVE PlacesInv'
  BY <1>15 DEF DownloadFails, MoveCcd, pathFeederVars, downloadVars, resultVars,
       PipeIInv, PipeShapes, PlacesInv
<1>16. ASSUME NEW c \in Ccds, Feed(c) PROVE PlacesInv'
  BY <1>16 DEF Feed, MoveCcd, downloadVars, resultVars, PipeIInv, PipeShapes, PlacesInv
<1>17. ASSUME NEW c \in Ccds, FeedFails(c) PROVE PlacesInv'
  BY <1>17 DEF FeedFails, MoveCcd, downloadVars, resultVars, PipeIInv, PipeShapes,
       PlacesInv
<1>18. ASSUME NEW c \in Ccds, StartProcess(c) PROVE PlacesInv'
  BY <1>18 DEF StartProcess, MoveCcd, pathFeederVars, downloadVars, resultVars,
       PipeIInv, PipeShapes, PlacesInv
<1>19. ASSUME NEW c \in Ccds, Preprocess(c) PROVE PlacesInv'
  BY <1>19 DEF Preprocess, MoveCcd, pathFeederVars, PipeIInv, PipeShapes, PlacesInv
<1>20. ASSUME NEW c \in Ccds, SaveTiles(c) PROVE PlacesInv'
  BY <1>20 DEF SaveTiles, MoveCcd, pathFeederVars, downloadVars, PipeIInv,
       PipeShapes, PlacesInv
<1>21. ASSUME NEW c \in Ccds, ProcessFails(c) PROVE PlacesInv'
  BY <1>21 DEF ProcessFails, MoveCcd, pathFeederVars, resultVars, PipeIInv,
       PipeShapes, PlacesInv
<1>22. ASSUME NEW c \in Ccds, Result(c) PROVE PlacesInv'
  BY <1>22 DEF Result, MoveCcd, Emit, pathFeederVars, downloadVars, PipeIInv,
       PipeShapes, PlacesInv
<1> QED
  BY <1>1, <1>2, <1>3, <1>4, <1>5, <1>6, <1>7, <1>8, <1>9, <1>10, <1>11, <1>12,
       <1>13, <1>14, <1>15, <1>16, <1>17, <1>18, <1>19, <1>20, <1>21, <1>22
     DEF PipelineNext, PathFeederStep, MainStep, Download, Process

\* Who leaves has nothing in hand.
LEMMA ThreadsStep ==
    ASSUME PipeIInv, [PipelineNext]_pipeVars
    PROVE  ThreadsInv'
<1>1. CASE UNCHANGED pipeVars
  BY <1>1 DEF pipeVars, pathFeederVars, downloadVars, resultVars, PipeIInv,
       ThreadsInv, InPool, InFlight, At, CcdPlaces
<1>2. CASE EndSignal
  BY <1>2 DEF EndSignal, downloadVars, resultVars, PipeIInv, PipeShapes, ThreadsInv,
       InPool, InFlight, At
<1>3. CASE Refill
  BY <1>3 DEF Refill, downloadVars, resultVars, PipeIInv, PipeShapes, ThreadsInv,
       InPool, InFlight, At
<1>4. CASE Exhaust
  BY <1>4 DEF Exhaust, downloadVars, resultVars, PipeIInv, PipeShapes, ThreadsInv,
       InPool, InFlight, At
<1>5. CASE FeederEnds
  BY <1>5 DEF FeederEnds, downloadVars, resultVars, PipeIInv, PipeShapes,
       ThreadsInv, InPool, InFlight, At
<1>6. CASE MainFails
  BY <1>6 DEF MainFails, pathFeederVars, downloadVars, resultVars, PipeIInv,
       PipeShapes, ThreadsInv, InPool, InFlight, At
<1>7. CASE MainEnds
  BY <1>7 DEF MainEnds, pathFeederVars, downloadVars, PipeIInv, PipeShapes,
       ThreadsInv, InPool, InFlight, At
<1>8. CASE Drain
  BY <1>8 DEF Drain, pathFeederVars, downloadVars, PipeIInv, PipeShapes, ThreadsInv,
       InPool, InFlight, At
<1>9. CASE FinishPipeline
  BY <1>9 DEF FinishPipeline, pathFeederVars, downloadVars, PipeIInv, PipeShapes,
       ThreadsInv, InPool, InFlight, At
<1>10. ASSUME NEW c \in Ccds, Give(c) PROVE ThreadsInv'
  BY <1>10 DEF Give, MoveCcd, downloadVars, resultVars, PipeIInv, PipeShapes,
       ThreadsInv, InPool, InFlight, At
<1>11. ASSUME NEW c \in Ccds, Acquire(c) PROVE ThreadsInv'
  BY <1>11 DEF Acquire, MoveCcd, Emit, pathFeederVars, PipeIInv, PipeShapes,
       ThreadsInv, InPool, InFlight, At
<1>12. ASSUME NEW c \in Ccds, Write(c) PROVE ThreadsInv'
  BY <1>12 DEF Write, pathFeederVars, resultVars, PipeIInv, PipeShapes, ThreadsInv,
       InPool, InFlight, At
<1>13. ASSUME NEW c \in Ccds, Downloaded(c) PROVE ThreadsInv'
  BY <1>13 DEF Downloaded, MoveCcd, Emit, pathFeederVars, downloadVars, PipeIInv,
       PipeShapes, ThreadsInv, InPool, InFlight, At
<1>14. ASSUME NEW c \in Ccds, TimeOut(c) PROVE ThreadsInv'
  BY <1>14 DEF TimeOut, MoveCcd, pathFeederVars, resultVars, PipeIInv, PipeShapes,
       ThreadsInv, InPool, InFlight, At
<1>15. ASSUME NEW c \in Ccds, DownloadFails(c) PROVE ThreadsInv'
  BY <1>15 DEF DownloadFails, MoveCcd, pathFeederVars, downloadVars, resultVars,
       PipeIInv, PipeShapes, ThreadsInv, InPool, InFlight, At
<1>16. ASSUME NEW c \in Ccds, Feed(c) PROVE ThreadsInv'
  BY <1>16 DEF Feed, MoveCcd, downloadVars, resultVars, PipeIInv, PipeShapes,
       ThreadsInv, InPool, InFlight, At
<1>17. ASSUME NEW c \in Ccds, FeedFails(c) PROVE ThreadsInv'
  BY <1>17 DEF FeedFails, MoveCcd, downloadVars, resultVars, PipeIInv, PipeShapes,
       ThreadsInv, InPool, InFlight, At
<1>18. ASSUME NEW c \in Ccds, StartProcess(c) PROVE ThreadsInv'
  BY <1>18 DEF StartProcess, MoveCcd, pathFeederVars, downloadVars, resultVars,
       PipeIInv, PipeShapes, ThreadsInv, InPool, InFlight, At
<1>19. ASSUME NEW c \in Ccds, Preprocess(c) PROVE ThreadsInv'
  BY <1>19 DEF Preprocess, MoveCcd, pathFeederVars, PipeIInv, PipeShapes,
       ThreadsInv, InPool, InFlight, At
<1>20. ASSUME NEW c \in Ccds, SaveTiles(c) PROVE ThreadsInv'
  BY <1>20 DEF SaveTiles, MoveCcd, pathFeederVars, downloadVars, PipeIInv,
       PipeShapes, ThreadsInv, InPool, InFlight, At
<1>21. ASSUME NEW c \in Ccds, ProcessFails(c) PROVE ThreadsInv'
  BY <1>21 DEF ProcessFails, MoveCcd, pathFeederVars, resultVars, PipeIInv,
       PipeShapes, ThreadsInv, InPool, InFlight, At
<1>22. ASSUME NEW c \in Ccds, Result(c) PROVE ThreadsInv'
  BY <1>22 DEF Result, MoveCcd, Emit, pathFeederVars, downloadVars, PipeIInv,
       PipeShapes, ThreadsInv, InPool, InFlight, At
<1> QED
  BY <1>1, <1>2, <1>3, <1>4, <1>5, <1>6, <1>7, <1>8, <1>9, <1>10, <1>11, <1>12,
       <1>13, <1>14, <1>15, <1>16, <1>17, <1>18, <1>19, <1>20, <1>21, <1>22
     DEF PipelineNext, PathFeederStep, MainStep, Download, Process

\* The places of Holders.
HoldingPlaces == {"downloading", "downloaded", "failed", "pooled", "processing"}

\* A move takes a permit from a CCD, gives it one, or leaves it.
LEMMA MoveHolds ==
    ASSUME PipeIInv, NEW c \in Ccds, NEW to \in CcdPlaces, MoveCcd(c, to)
    PROVE  /\ (place[c] \in HoldingPlaces <=> to \in HoldingPlaces) => Holders' = Holders
           /\ place[c] \notin HoldingPlaces /\ to \in HoldingPlaces =>
                 Cardinality(Holders') = Cardinality(Holders) + 1
           /\ place[c] \in HoldingPlaces /\ to \notin HoldingPlaces =>
                 Cardinality(Holders') = Cardinality(Holders) - 1
           /\ to = "dropped" => At({"dropped"})' # {}
           /\ place[c] # "dropped" /\ At({"dropped"})' = {} => At({"dropped"}) = {}
<1>1. /\ place' \in [Ccds -> CcdPlaces] /\ place'[c] = to
      /\ \A b \in Ccds : b # c => place'[b] = place[b]
  BY MoveEffect DEF PipeIInv
<1>2. /\ Holders = {b \in Ccds : place[b] \in HoldingPlaces}
      /\ Holders' = {b \in Ccds : place'[b] \in HoldingPlaces}
  BY DEF Holders, HoldingPlaces, At
<1>3. IsFiniteSet(Holders)
  BY HoldersAreUnderway
<1>4. ASSUME place[c] \in HoldingPlaces <=> to \in HoldingPlaces PROVE Holders' = Holders
  BY <1>1, <1>2, <1>4
<1>5. ASSUME place[c] \notin HoldingPlaces, to \in HoldingPlaces
      PROVE  Cardinality(Holders') = Cardinality(Holders) + 1
  <2>1. Holders' = Holders \union {c} /\ c \notin Holders
    BY <1>1, <1>2, <1>5
  <2> QED
    BY <1>3, <2>1, FS_AddElement
<1>6. ASSUME place[c] \in HoldingPlaces, to \notin HoldingPlaces
      PROVE  Cardinality(Holders') = Cardinality(Holders) - 1
  <2>1. Holders' = Holders \ {c} /\ c \in Holders
    BY <1>1, <1>2, <1>6
  <2> QED
    BY <1>3, <2>1, FS_RemoveElement
<1>7. /\ to = "dropped" => At({"dropped"})' # {}
      /\ place[c] # "dropped" /\ At({"dropped"})' = {} => At({"dropped"}) = {}
  BY <1>1 DEF At
<1> QED
  BY <1>4, <1>5, <1>6, <1>7

\* No step makes permits of nothing, and only a CCD that is dropped takes one away.
LEMMA PermitsStep ==
    ASSUME PipeIInv, [PipelineNext]_pipeVars
    PROVE  PermitsInv'
<1> DEFINE n == Cardinality(Holders)
           none == At({"dropped"}) = {}
<1>1. /\ n \in Nat /\ permits \in Nat /\ Permits \in Nat
      /\ permits + n <= Permits /\ (none => permits + n = Permits)
  BY HoldersAreUnderway, PipelineAssumption DEF PipeIInv, PipeShapes, PermitsInv
<1>2. SUFFICES \/ permits' = permits /\ n' = n /\ (none' => none)
               \/ permits' = permits /\ n' = n - 1 /\ ~ none'
               \/ permits' = permits /\ n' \in Nat /\ n' <= n /\ ~ none'
               \/ permits' = permits + 1 /\ n' = n - 1 /\ (none' => none)
               \/ permits > 0 /\ permits' = permits - 1 /\ n' = n + 1 /\ (none' => none)
  BY <1>1 DEF PermitsInv
<1>3. CASE place' = place /\ permits' = permits
  BY <1>3 DEF Holders, At
<1>4. CASE MainFails
  <2>1. /\ place' = [c \in Ccds |-> IF c \in InPool THEN "dropped" ELSE place[c]]
        /\ permits' = permits /\ DOMAIN place = Ccds
    BY <1>4 DEF MainFails, downloadVars, PipeIInv, PipeShapes
  <2>2. CASE InPool = {}
    <3>1. \A c \in Ccds : place'[c] = place[c]
      BY <2>1, <2>2
    <3>2. Holders' = Holders /\ At({"dropped"})' = At({"dropped"})
      BY <3>1 DEF Holders, At
    <3> QED
      BY <2>1, <3>2
  <2>3. CASE InPool # {}
    <3>1. Holders' \subseteq Holders
      BY <2>1 DEF Holders, At
    <3>2. n' \in Nat /\ n' <= n
      BY <3>1, HoldersAreUnderway, FS_Subset, FS_CardinalityType
    <3>3. ~ none'
      BY <2>1, <2>3 DEF At, InPool
    <3> QED
      BY <2>1, <3>2, <3>3
  <2> QED
    BY <2>2, <2>3
<1>5. CASE \E c \in Ccds : Acquire(c)
  <2>1. PICK c \in Ccds : Acquire(c)
    BY <1>5
  <2>2. /\ place[c] = "waiting" /\ permits > 0 /\ permits' = permits - 1
        /\ MoveCcd(c, "downloading") /\ "downloading" \in CcdPlaces
    BY <2>1 DEF Acquire, CcdPlaces
  <2>3. n' = n + 1 /\ (none' => none)
    BY <2>2, MoveHolds DEF HoldingPlaces
  <2> QED
    BY <2>2, <2>3
<1>6. CASE \E c \in Ccds : Preprocess(c) \/ ProcessFails(c)
  <2>1. PICK c \in Ccds : Preprocess(c) \/ ProcessFails(c)
    BY <1>6
  <2>2. PICK to \in {"tiling", "error"} :
           /\ place[c] \in {"processing", "tiling"} /\ MoveCcd(c, to)
           /\ permits' = IF place[c] = "processing" THEN permits + 1 ELSE permits
    BY <2>1 DEF Preprocess, ProcessFails
  <2>3. to \in CcdPlaces
    BY DEF CcdPlaces
  <2>4. IF place[c] = "processing" THEN n' = n - 1 ELSE n' = n
    BY <2>2, <2>3, MoveHolds DEF HoldingPlaces
  <2>5. none' => none
    BY <2>2, <2>3, MoveHolds
  <2> QED
    BY <2>2, <2>4, <2>5
<1>7. CASE \E c \in Ccds : \/ Give(c) \/ Downloaded(c) \/ TimeOut(c) \/ DownloadFails(c)
                           \/ StartProcess(c) \/ SaveTiles(c) \/ Result(c)
  <2>1. PICK c \in Ccds : \/ Give(c) \/ Downloaded(c) \/ TimeOut(c) \/ DownloadFails(c)
                          \/ StartProcess(c) \/ SaveTiles(c) \/ Result(c)
    BY <1>7
  <2>2. CASE place' = place /\ permits' = permits
    BY <1>3, <2>2
  <2>3. ASSUME ~ (place' = place /\ permits' = permits)
        PROVE  permits' = permits /\ \E to \in CcdPlaces \ {"none"} : 
                /\ MoveCcd(c, to)
                /\ place[c] # "dropped"
                /\ place[c] \in HoldingPlaces <=> to \in HoldingPlaces
    <3>1. CASE Give(c)
      <4>1. place[c] = "none" /\ permits' = permits
        BY <3>1 DEF Give, PipeIInv, PlacesInv, downloadVars
      <4> QED
        BY <3>1, <4>1 DEF Give, HoldingPlaces, CcdPlaces
    <3>2. CASE Downloaded(c) \/ StartProcess(c) \/ SaveTiles(c) \/ Result(c)
      BY <3>2 DEF Downloaded, StartProcess, SaveTiles, Result, HoldingPlaces,
           CcdPlaces, downloadVars
    <3>3. CASE TimeOut(c) \/ DownloadFails(c)
      BY <2>3, <3>3 DEF TimeOut, DownloadFails, HoldingPlaces, CcdPlaces, downloadVars
    <3> QED
      BY <2>1, <3>1, <3>2, <3>3
  <2> QED
    BY <2>2, <2>3, MoveHolds
<1>8. CASE \E c \in Ccds : Feed(c) \/ FeedFails(c)
  <2>1. PICK c \in Ccds : Feed(c) \/ FeedFails(c)
    BY <1>8
  <2>2. PICK to \in {"pooled", "dropped"} : MoveCcd(c, to)
    BY <2>1 DEF Feed, FeedFails
  <2>3. place[c] \in {"downloaded", "failed"} /\ permits' = permits /\ to \in CcdPlaces
    BY <2>1 DEF Feed, FeedFails, downloadVars, CcdPlaces
  <2>4. CASE to = "pooled"
    BY <2>2, <2>3, <2>4, MoveHolds DEF HoldingPlaces
  <2>5. CASE to = "dropped"
    BY <2>2, <2>3, <2>5, MoveHolds DEF HoldingPlaces
  <2> QED
    BY <2>4, <2>5
<1>9. UNCHANGED pipeVars => place' = place /\ permits' = permits
  BY DEF pipeVars, downloadVars
<1>10. EndSignal \/ Refill \/ Exhaust \/ FeederEnds \/ MainEnds \/ Drain \/ FinishPipeline
         => place' = place /\ permits' = permits
  BY DEF EndSignal, Refill, Exhaust, FeederEnds, MainEnds, Drain, FinishPipeline,
       downloadVars
<1>11. \A c \in Ccds : Write(c) => place' = place /\ permits' = permits
  BY DEF Write
<1> QED
  BY <1>3, <1>4, <1>5, <1>6, <1>7, <1>8, <1>9, <1>10, <1>11
     DEF PipelineNext, PathFeederStep, MainStep, Download, Process

\* The session gets a ref only while it has a slot.
LEMMA SlotsStep ==
    ASSUME PipeIInv, [PipelineNext]_pipeVars
    PROVE  SlotsInv'
<1>1. /\ IsFiniteSet(Underway) /\ Cardinality(Underway) \in Nat
      /\ Cardinality(Underway) <= Slots
      /\ Slots \in Nat
  BY HoldersAreUnderway, PipelineAssumption DEF PipeIInv, SlotsInv
<1>2. CASE Underway' \subseteq Underway
  <2>1. Cardinality(Underway') <= Cardinality(Underway) /\ Cardinality(Underway') \in Nat
    BY <1>1, <1>2, FS_Subset, FS_CardinalityType
  <2> QED
    BY <1>1, <2>1 DEF SlotsInv
<1>3. CASE \E c \in Ccds : Give(c)
  <2>1. PICK c \in Ccds : Give(c)
    BY <1>3
  <2>2. Cardinality(Underway) < Slots
    BY <2>1 DEF Give, Underway
  <2>3. Underway' = Underway \union {c}
    BY <2>1 DEF Give, Underway, At, MoveCcd, PipeIInv, PipeShapes
  <2>4. Cardinality(Underway') <= Slots
    <3>1. Cardinality(Underway') = IF c \in Underway THEN Cardinality(Underway)
                                   ELSE Cardinality(Underway) + 1
      BY <1>1, <2>3, FS_AddElement
    <3> QED
      BY <1>1, <2>2, <3>1
  <2> QED
    BY <2>4 DEF SlotsInv
<1>4. CASE given' = given /\ \A c \in Ccds : place[c] = "completed" => place'[c] = "completed"
  <2>1. Underway' \subseteq Underway
    BY <1>4 DEF Underway, At
  <2> QED
    BY <1>2, <2>1
<1>5. CASE \/ UNCHANGED pipeVars \/ EndSignal \/ Refill \/ Exhaust \/ FeederEnds \/ MainEnds
           \/ Drain \/ FinishPipeline
  <2>1. given' = given /\ place' = place
    BY <1>5 DEF pipeVars, pathFeederVars, EndSignal, Refill, Exhaust, FeederEnds,
         MainEnds, Drain,
                FinishPipeline
  <2> QED
    BY <1>4, <2>1
<1>6. CASE MainFails
  BY <1>4, <1>6 DEF MainFails, pathFeederVars, InPool, At
<1>7. CASE \E c \in Ccds : \/ Acquire(c) \/ Write(c) \/ Downloaded(c) \/ TimeOut(c)
                           \/ DownloadFails(c) \/ Feed(c) \/ FeedFails(c) \/ StartProcess(c)
                           \/ Preprocess(c) \/ SaveTiles(c) \/ ProcessFails(c) \/ Result(c)
  <2>1. PICK c \in Ccds : \/ Acquire(c) \/ Write(c) \/ Downloaded(c) \/ TimeOut(c)
                          \/ DownloadFails(c) \/ Feed(c) \/ FeedFails(c) \/ StartProcess(c)
                          \/ Preprocess(c) \/ SaveTiles(c) \/ ProcessFails(c) \/ Result(c)
    BY <1>7
  <2>2. given' = given /\ place[c] # "completed"
    BY <2>1 DEF Acquire, Write, Downloaded, TimeOut, DownloadFails, Feed,
         FeedFails, StartProcess,
                Preprocess, SaveTiles, ProcessFails, Result, pathFeederVars
  <2>3. \A b \in Ccds : b # c => place'[b] = place[b]
    BY <2>1 DEF Acquire, Write, Downloaded, TimeOut, DownloadFails, Feed,
         FeedFails, StartProcess,
                Preprocess, SaveTiles, ProcessFails, Result, MoveCcd, PipeIInv, PipeShapes
  <2> QED
    BY <1>4, <2>2, <2>3
<1> QED
  BY <1>3, <1>5, <1>6, <1>7 DEF PipelineNext, PathFeederStep, MainStep, Download, Process

\* A report of a CCD is not the end.
LEMMA ReportsAreNotEnd == \A c, what : <<c, what>> # EndMark
BY DEF EndMark

\* Appending to the queue of progress, and taking its first element.
LEMMA Appended ==
    ASSUME PipeShapes, NEW m \in ProgressMessages, progressQueue' = Append(progressQueue, m)
    PROVE  /\ Len(progressQueue) \in Nat /\ Len(progressQueue') = Len(progressQueue) + 1
           /\ progressQueue'[Len(progressQueue) + 1] = m
           /\ \A i \in 1 .. Len(progressQueue) : progressQueue'[i] = progressQueue[i]
BY DEF PipeShapes

\* What run() has taken from progress_queue was emitted, unless it was the end mark.
LEMMA Drained ==
    ASSUME PipeShapes, Drain
    PROVE  /\ Len(progressQueue) \in Nat \ {0} /\ Len(progressQueue') = Len(progressQueue) - 1
           /\ Head(progressQueue) = progressQueue[1]
           /\ \A i \in 1 .. Len(progressQueue') : progressQueue'[i] = progressQueue[i + 1]
           /\ \A i \in 2 .. Len(progressQueue) : progressQueue[i] = progressQueue'[i - 1]
<1>1. /\ progressQueue \in Seq(ProgressMessages) /\ progressQueue # <<>>
      /\ progressQueue' = Tail(progressQueue)
  BY DEF Drain, PipeShapes
<1>2. Len(progressQueue) \in Nat \ {0} /\ Len(progressQueue') = Len(progressQueue) - 1
  BY <1>1
<1>3. \A i \in 1 .. Len(progressQueue') : progressQueue'[i] = progressQueue[i + 1]
  BY <1>1
<1> QED
  BY <1>1, <1>2, <1>3

\* The end stays the last thing in the queue.
LEMMA QueueStep ==
    ASSUME PipeIInv, [PipelineNext]_pipeVars
    PROVE  QueueInv'
<1> DEFINE n == Len(progressQueue)
<1>1. n \in Nat /\ progressQueue \in Seq(ProgressMessages) /\ (progressQueue = <<>> <=> n = 0)
  BY DEF PipeIInv, PipeShapes
<1>2. CASE UNCHANGED <<progressQueue, drained, main>>
  BY <1>2 DEF PipeIInv, QueueInv
<1>3. CASE MainFails
  BY <1>3 DEF MainFails, resultVars, PipeIInv, QueueInv
<1>4. CASE MainEnds
  <2>1. /\ main \in {"running", "terminating"} /\ main' \in {"returned", "raised"}
        /\ progressQueue' = Append(progressQueue, EndMark) /\ drained' = drained
        /\ EndMark \in ProgressMessages
    BY <1>4 DEF MainEnds, EndMark, ProgressMessages
  <2>2. ~ drained /\ \A i \in 1 .. n : progressQueue[i] # EndMark
    BY <2>1 DEF PipeIInv, QueueInv
  <2>3. Len(progressQueue') = n + 1 /\ progressQueue'[n + 1] = EndMark
        /\ \A i \in 1 .. n : progressQueue'[i] = progressQueue[i]
    BY <2>1, Appended DEF PipeIInv
  <2> QED
    BY <1>1, <2>1, <2>2, <2>3 DEF QueueInv
<1>5. CASE Drain
  <2>1. /\ n # 0 /\ Len(progressQueue') = n - 1
        /\ \A i \in 1 .. n - 1 : progressQueue'[i] = progressQueue[i + 1]
        /\ Head(progressQueue) = progressQueue[1]
    BY <1>1, <1>5, Drained DEF PipeIInv
  <2>2. main' = main
    BY <1>5 DEF Drain
  <2>3. CASE progressQueue[1] = EndMark
    <3>1. n = 1 /\ drained' /\ main \in {"raised", "returned"}
      <4>1. drained'
        BY <1>5, <2>1, <2>3 DEF Drain, EndMark
      <4>2. 1 \in 1 .. n
        BY <1>1, <2>1
      <4>3. main \in {"running", "terminating", "raised", "returned"}
        BY DEF PipeIInv, PipeShapes
      <4> QED
        BY <2>3, <4>1, <4>2, <4>3 DEF PipeIInv, QueueInv
    <3>2. progressQueue' = <<>>
      BY <1>1, <1>5, <3>1 DEF Drain
    <3> QED
      BY <2>1, <2>2, <3>1, <3>2 DEF QueueInv
  <2>4. CASE progressQueue[1] # EndMark
    <3>1. drained' = drained
      BY <1>5, <2>1, <2>4 DEF Drain, EndMark
    <3>2. ~ (main \in {"raised", "returned"} /\ drained)
      BY <1>1, <2>1 DEF PipeIInv, QueueInv
    <3>3. \A i \in 1 .. n - 1 : i + 1 \in 1 .. n /\ i + 1 # 1
      BY <1>1
    <3>4. \A i \in 1 .. n - 1 : progressQueue'[i] = EndMark => i + 1 = n /\ ~ drained
      BY <2>1, <3>3 DEF PipeIInv, QueueInv
    <3>5. ASSUME main \in {"raised", "returned"} PROVE n - 1 > 0 /\ progressQueue'[n - 1] = EndMark
      <4>1. progressQueue[n] = EndMark /\ n # 1
        BY <2>4, <3>2, <3>5 DEF PipeIInv, QueueInv
      <4>2. n - 1 \in 1 .. n - 1 /\ (n - 1) + 1 = n
        BY <1>1, <2>1, <4>1
      <4> QED
        BY <2>1, <4>1, <4>2
    <3>6. main \in {"running", "terminating"} =>
             ~ drained /\ \A i \in 1 .. n - 1 : progressQueue'[i] # EndMark
      BY <2>1, <3>3 DEF PipeIInv, QueueInv
    <3>7. \A i \in 1 .. n - 1 : progressQueue'[i] = EndMark => i = n - 1 /\ ~ drained
      BY <1>1, <3>4
    <3> QED
      BY <2>1, <2>2, <3>1, <3>2, <3>5, <3>6, <3>7 DEF QueueInv
  <2> QED
    BY <2>3, <2>4
<1>6. CASE \E c \in Ccds : Preprocess(c) \/ SaveTiles(c)
  <2>1. PICK c \in Ccds : Preprocess(c) \/ SaveTiles(c)
    BY <1>6
  <2>2. PICK k \in {"preprocessed", "saved"} : progressQueue' = Append(progressQueue, <<c, k>>)
    BY <2>1 DEF Preprocess, SaveTiles
  <2>3. main' = main /\ drained' = drained /\ c \in InPool
    BY <2>1 DEF Preprocess, SaveTiles, InPool, At
  <2>4. main = "running"
    BY <2>3 DEF PipeIInv, ThreadsInv
  <2>5. ~ drained /\ \A i \in 1 .. n : progressQueue[i] # EndMark
    BY <2>4 DEF PipeIInv, QueueInv
  <2>6. <<c, k>> \in ProgressMessages
    BY DEF ProgressMessages
  <2>7. Len(progressQueue') = n + 1 /\ progressQueue'[n + 1] = <<c, k>>
        /\ \A i \in 1 .. n : progressQueue'[i] = progressQueue[i]
    BY <2>2, <2>6, Appended DEF PipeIInv
  <2>8. \A i \in 1 .. n + 1 : progressQueue'[i] # EndMark
    <3>1. \A i \in 1 .. n + 1 : i \in 1 .. n \/ i = n + 1
      BY <1>1
    <3> QED
      BY <2>5, <2>7, <3>1, ReportsAreNotEnd
  <2> QED
    BY <2>3, <2>4, <2>5, <2>7, <2>8 DEF QueueInv
<1>7. CASE \/ UNCHANGED pipeVars \/ EndSignal \/ Refill \/ Exhaust \/ FeederEnds \/ FinishPipeline
           \/ \E c \in Ccds :
                 \/ Give(c) \/ Acquire(c) \/ Write(c) \/ Downloaded(c) \/ TimeOut(c)
                 \/ DownloadFails(c) \/ Feed(c) \/ FeedFails(c) \/ StartProcess(c)
                 \/ ProcessFails(c) \/ Result(c)
  BY <1>2, <1>7 DEF pipeVars, resultVars, EndSignal, Refill, Exhaust, FeederEnds,
       FinishPipeline,
       Give, Acquire, Write, Downloaded, TimeOut, DownloadFails, Feed, FeedFails, StartProcess,
       ProcessFails, Result
<1> QED
  BY <1>3, <1>4, <1>5, <1>6, <1>7 DEF PipelineNext, PathFeederStep, MainStep,
       Download, Process

\* What was reported stays so: reports go through the queue, or directly.
LEMMA ToldStays ==
    ASSUME PipeIInv, [PipelineNext]_pipeVars
    PROVE  emitted \subseteq emitted' /\ \A c \in Ccds : \A k : Told(c, k) => Told(c, k)'
<1> DEFINE n == Len(progressQueue)
<1>1. n \in Nat
  BY DEF PipeIInv, PipeShapes
<1>2. CASE progressQueue' = progressQueue /\ emitted \subseteq emitted'
  BY <1>2 DEF Told
<1>3. CASE \E m \in ProgressMessages : /\ progressQueue' = Append(progressQueue, m)
                                      /\ emitted' = emitted
  <2>1. Len(progressQueue') = n + 1 /\ \A i \in 1 .. n : progressQueue'[i] = progressQueue[i]
    BY <1>3, Appended DEF PipeIInv
  <2>2. \A i \in 1 .. n : i \in 1 .. Len(progressQueue')
    BY <1>1, <2>1
  <2> QED
    BY <1>3, <2>1, <2>2 DEF Told
<1>4. CASE Drain
  <2>1. /\ n # 0 /\ Len(progressQueue') = n - 1
        /\ \A i \in 2 .. n : progressQueue[i] = progressQueue'[i - 1]
        /\ Head(progressQueue) = progressQueue[1]
    BY <1>1, <1>4, Drained DEF PipeIInv
  <2>2. emitted \subseteq emitted'
    BY <1>4 DEF Drain
  <2>3. \A c, k : progressQueue[1] = <<c, k>> => <<c, k>> \in emitted'
    BY <1>4, <2>1, ReportsAreNotEnd DEF Drain, EndMark
  <2>4. ASSUME NEW c \in Ccds, NEW k, Told(c, k) PROVE Told(c, k)'
    <3>1. CASE <<c, k>> \in emitted
      BY <2>2, <3>1 DEF Told
    <3>2. CASE \E i \in 1 .. n : progressQueue[i] = <<c, k>>
      <4>1. PICK i \in 1 .. n : progressQueue[i] = <<c, k>>
        BY <3>2
      <4>2. CASE i = 1
        BY <2>3, <4>1, <4>2 DEF Told
      <4>3. CASE i # 1
        <5>1. i \in 2 .. n /\ i - 1 \in 1 .. Len(progressQueue')
          BY <1>1, <2>1, <4>3
        <5> QED
          BY <2>1, <4>1, <5>1 DEF Told
      <4> QED
        BY <4>2, <4>3
    <3> QED
      BY <2>4, <3>1, <3>2 DEF Told
  <2> QED
    BY <2>2, <2>4
<1>5. CASE MainEnds
  <2>1. EndMark \in ProgressMessages
    BY DEF EndMark, ProgressMessages
  <2> QED
    BY <1>3, <1>5, <2>1 DEF MainEnds, EndMark
<1>6. CASE \E c \in Ccds : Preprocess(c) \/ SaveTiles(c)
  <2>1. \A c \in Ccds : <<c, "preprocessed">> \in ProgressMessages /\ <<c, "saved">> \in ProgressMessages
    BY DEF ProgressMessages
  <2> QED
    BY <1>3, <1>6, <2>1 DEF Preprocess, SaveTiles
<1>7. CASE \/ UNCHANGED pipeVars \/ EndSignal \/ Refill \/ Exhaust \/ FeederEnds \/ FinishPipeline
           \/ MainFails
           \/ \E c \in Ccds :
                 \/ Give(c) \/ Acquire(c) \/ Write(c) \/ Downloaded(c) \/ TimeOut(c)
                 \/ DownloadFails(c) \/ Feed(c) \/ FeedFails(c) \/ StartProcess(c)
                 \/ ProcessFails(c) \/ Result(c)
  <2>1. progressQueue' = progressQueue /\ emitted \subseteq emitted'
    BY <1>7 DEF pipeVars, resultVars, EndSignal, Refill, Exhaust, FeederEnds,
         FinishPipeline,
         MainFails, Give, Acquire, Write, Downloaded, TimeOut, DownloadFails, Feed, FeedFails,
         StartProcess, ProcessFails, Result, Emit
  <2> QED
    BY <1>2, <2>1
<1> QED
  BY <1>4, <1>5, <1>6, <1>7 DEF PipelineNext, PathFeederStep, MainStep, Download, Process

\* No CCD gets to a place before the reports of its way there.
LEMMA ReportsStep ==
    ASSUME PipeIInv, [PipelineNext]_pipeVars
    PROVE  ReportsInv'
<1>1. emitted \subseteq emitted' /\ \A c \in Ccds : \A k : Told(c, k) => Told(c, k)'
  BY ToldStays
<1>2. saved \subseteq saved' /\ given \subseteq given'
  BY DEF PipelineNext, pipeVars, pathFeederVars, resultVars, EndSignal, Refill,
       Exhaust, FeederEnds,
     FinishPipeline, MainFails, MainEnds, Drain, Give, Acquire, Write, Downloaded, TimeOut,
     DownloadFails, Feed, FeedFails, StartProcess, Preprocess, SaveTiles, ProcessFails, Result,
     PathFeederStep, MainStep, Download, Process
<1>3. \A c \in Ccds : /\ \A at \in {place[c]} : Reported(c, at)
                      /\ c \in saved => c \in given
  BY DEF PipeIInv, ReportsInv
<1>4. \A c \in Ccds : \A at : Reported(c, at) => Reported(c, at)'
  BY <1>1, <1>2 DEF Reported
<1>5. SUFFICES ASSUME NEW b \in Ccds
               PROVE  /\ \A at \in {place'[b]} : Reported(b, at)'
                      /\ b \in saved' => b \in given'
  BY DEF ReportsInv
<1>6. CASE place'[b] = place[b] /\ saved' = saved
  BY <1>2, <1>3, <1>4, <1>6
<1>7. CASE place'[b] \in {"none", "waiting", "dropped", "error", "failed"} /\ saved' = saved
  BY <1>2, <1>3, <1>7 DEF Reported
<1>8. CASE \E c \in Ccds :
                \/ Give(c) \/ DownloadFails(c) \/ FeedFails(c)
                \/ ProcessFails(c) \/ TimeOut(c)
  <2>1. PICK c \in Ccds :
            \/ Give(c) \/ DownloadFails(c) \/ FeedFails(c)
            \/ ProcessFails(c) \/ TimeOut(c)
    BY <1>8
  <2>2. saved' = saved
    BY <2>1 DEF Give, DownloadFails, FeedFails, ProcessFails, TimeOut, resultVars
  <2>3. place' = place \/ \E to \in {"waiting", "dropped", "error", "failed"} : MoveCcd(c, to)
    BY <2>1 DEF Give, DownloadFails, FeedFails, ProcessFails, TimeOut
  <2>4. place'[b] = place[b] \/ place'[b] \in {"waiting", "dropped", "error", "failed"}
    BY <2>3 DEF MoveCcd, PipeIInv, PipeShapes
  <2> QED
    BY <1>6, <1>7, <2>2, <2>4
<1>9. ASSUME NEW c \in Ccds, NEW to \in CcdPlaces, MoveCcd(c, to), Reported(c, to)',
             saved' \subseteq saved \union {c}, place[c] # "none"
      PROVE  /\ \A at \in {place'[b]} : Reported(b, at)'
             /\ b \in saved' => b \in given'
  <2>1. place'[c] = to /\ \A u \in Ccds : u # c => place'[u] = place[u]
    BY <1>9, MoveEffect DEF PipeIInv
  <2>2. c \in given'
    BY <1>2, <1>9 DEF PipeIInv, PlacesInv
  <2>3. CASE b = c
    BY <1>9, <2>1, <2>2, <2>3
  <2>4. CASE b # c
    BY <1>2, <1>3, <1>4, <1>9, <2>1, <2>4
  <2> QED
    BY <2>3, <2>4
<1>10. CASE \E c \in Ccds : Acquire(c) \/ Downloaded(c) \/ Feed(c) \/ StartProcess(c)
  <2>1. PICK c \in Ccds : Acquire(c) \/ Downloaded(c) \/ Feed(c) \/ StartProcess(c)
    BY <1>10
  <2>2. PICK to \in {"downloading", "downloaded", "pooled", "dropped", "processing"} :
           /\ MoveCcd(c, to) /\ saved' = saved
           /\ to = "downloading" => <<c, "started">> \in emitted'
           /\ to = "downloaded" => place[c] = "downloading" /\ <<c, "downloaded">> \in emitted'
           /\ to = "pooled" => place[c] = "downloaded"
           /\ to = "processing" => place[c] = "pooled"
    BY <2>1 DEF Acquire, Downloaded, Feed, StartProcess, Emit, resultVars
  <2>3. place[c] # "none" /\ to \in CcdPlaces
    BY <2>1 DEF Acquire, Downloaded, Feed, StartProcess, CcdPlaces
  <2>4. \A at \in {place[c]} : Reported(c, at)'
    BY <1>3, <1>4
  <2>5. Reported(c, to)'
    BY <2>2, <2>4 DEF Reported
  <2> QED
    BY <1>9, <2>2, <2>3, <2>5
<1>11. CASE \E c \in Ccds : Preprocess(c) \/ SaveTiles(c)
  <2>1. PICK c \in Ccds : Preprocess(c) \/ SaveTiles(c)
    BY <1>11
  <2>2. PICK k \in {"preprocessed", "saved"} :
            /\ progressQueue' = Append(progressQueue, <<c, k>>)
            /\ k = (IF Preprocess(c) THEN "preprocessed" ELSE "saved")
    BY <2>1 DEF Preprocess, SaveTiles
  <2>3. Told(c, k)'
    <3>1. <<c, k>> \in ProgressMessages
      BY DEF ProgressMessages
    <3>2. /\ Len(progressQueue) \in Nat /\ Len(progressQueue') = Len(progressQueue) + 1
          /\ progressQueue'[Len(progressQueue) + 1] = <<c, k>>
      BY <2>2, <3>1, Appended DEF PipeIInv
    <3>3. Len(progressQueue') \in 1 .. Len(progressQueue')
      BY <3>2
    <3> QED
      BY <3>2, <3>3 DEF Told
  <2>4. \A at \in {place[c]} : Reported(c, at)'
    BY <1>3, <1>4
  <2>5. CASE Preprocess(c)
    <3>1. /\ place[c] = "processing" /\ MoveCcd(c, "tiling") /\ saved' = saved
          /\ "tiling" \in CcdPlaces /\ k = "preprocessed"
      BY <2>2, <2>5 DEF Preprocess, CcdPlaces
    <3>2. Reported(c, "tiling")'
      BY <2>3, <2>4, <3>1 DEF Reported
    <3> QED
      BY <1>9, <3>1, <3>2
  <2>6. CASE SaveTiles(c)
    <3>1. /\ place[c] = "tiling" /\ MoveCcd(c, "result") /\ saved' = saved \union {c}
          /\ "result" \in CcdPlaces /\ k = "saved"
      BY <2>2, <2>6 DEF Preprocess, SaveTiles, CcdPlaces
    <3>2. Reported(c, "result")'
      BY <2>3, <2>4, <3>1 DEF Reported
    <3> QED
      BY <1>9, <3>1, <3>2
  <2> QED
    BY <2>1, <2>5, <2>6
<1>12. CASE \E c \in Ccds : Result(c)
  <2>1. PICK c \in Ccds : Result(c)
    BY <1>12
  <2>2. /\ place[c] = "result" /\ MoveCcd(c, "completed") /\ saved' = saved
        /\ <<c, "metadata">> \in emitted' /\ "completed" \in CcdPlaces
    BY <2>1 DEF Result, Emit, CcdPlaces
  <2>3. \A at \in {place[c]} : Reported(c, at)'
    BY <1>3, <1>4
  <2>4. Reported(c, "completed")'
    BY <2>2, <2>3 DEF Reported
  <2> QED
    BY <1>9, <2>2, <2>4
<1>13. CASE MainFails
  BY <1>6, <1>7, <1>13 DEF MainFails, resultVars
<1>14. CASE \/ UNCHANGED pipeVars \/ EndSignal \/ Refill \/ Exhaust \/ FeederEnds \/ FinishPipeline
            \/ MainEnds \/ Drain \/ \E c \in Ccds : Write(c)
  BY <1>6, <1>14 DEF pipeVars, resultVars, EndSignal, Refill, Exhaust, FeederEnds,
       FinishPipeline, MainEnds, Drain, Write
<1> QED
  BY <1>8, <1>10, <1>11, <1>12, <1>13, <1>14
     DEF PipelineNext, PathFeederStep, MainStep, Download, Process

\* Every step keeps the invariant.
LEMMA PipeStep == ASSUME PipeIInv, [PipelineNext]_pipeVars PROVE PipeIInv'
BY ShapesStep, PlacesStep, PermitsStep, SlotsStep, ThreadsStep, QueueStep, ReportsStep
     DEF PipeIInv

\* The invariant holds in every state of the pipeline.
LEMMA PipelineInvariant == PipelineSpec => []PipeIInv
<1>1. PipelineInit => PipeIInv
  BY PipelineInitIInv
<1>2. PipeIInv /\ [PipelineNext]_pipeVars => PipeIInv'
  BY PipeStep
<1> QED
  BY <1>1, <1>2, PTL DEF PipelineSpec

\* A pipeline that returns has yielded all it was given, with its reports, and its tiles are
\* saved; no download waits for a permit for nothing (generate_single_fits_tiles_pipeline,
\* imap_unordered_threadpool), for any CCDs, threads, processes, slots and failures.
THEOREM PipelineIsSafe == PipelineSpec => []PipelineInv
BY PipelineInvariant, PipeIInvImplies, PTL

\* When the pipeline is over, none of its threads and processes goes on.
THEOREM PipelineOverIsOver == PipelineSpec => OverIsOver
<1>1. PipeIInv /\ [PipelineNext]_pipeVars => [StaysOver]_pipeVars
  <2> SUFFICES ASSUME PipeIInv, [PipelineNext]_pipeVars, outcome # "running",
                      ~ UNCHANGED pipeVars
               PROVE  UNCHANGED <<place, ccdFile, emitted, saved>>
    BY DEF StaysOver
  <2>1. /\ drained /\ main \in {"raised", "returned"} /\ progressQueue = <<>>
        /\ ~ refilling /\ pathFeeder \in {"raised", "done"}
        /\ InPool = {} /\ At({"waiting", "downloading"}) = {}
    <3>1. main \in {"raised", "returned"} /\ drained
      BY DEF PipeIInv, PipeShapes, ThreadsInv
    <3>2. progressQueue = <<>>
      BY <3>1 DEF PipeIInv, QueueInv
    <3>3. pathFeeder \in {"raised", "done"} /\ InPool = {}
      BY <3>1 DEF PipeIInv, ThreadsInv
    <3> QED
      BY <3>1, <3>2, <3>3 DEF PipeIInv, ThreadsInv
  <2>2. \A c \in Ccds : place[c] \notin {"waiting", "downloading", "pooled", "processing", "tiling",
                                        "error", "result"}
    BY <2>1 DEF InPool, At
  <2>3. EndSignal
    BY <2>1, <2>2 DEF PipelineNext, pipeVars, Refill, Exhaust, FeederEnds, FinishPipeline,
       MainFails, MainEnds, Drain, Give, Acquire, Write, Downloaded, TimeOut, DownloadFails, Feed,
       FeedFails, StartProcess, Preprocess, SaveTiles, ProcessFails, Result, PathFeederStep,
       MainStep, Download, Process
  <2> QED
    BY <2>3 DEF EndSignal, downloadVars, resultVars
<1>2. PipelineSpec => [][PipelineNext]_pipeVars
  BY PTL DEF PipelineSpec
<1> QED
  BY <1>1, <1>2, PipelineInvariant, PTL DEF OverIsOver

-----------------------------------------------------------------------------
(* The progress that the coordinator shows. *)

\* A factor that is not 0 keeps the order.
LEMMA TimesKeepsOrder ==
    ASSUME NEW a \in Nat, NEW b \in Nat, NEW t \in Nat \ {0}
    PROVE  a * t > b * t <=> a > b
<1>1. ASSUME a > b PROVE a * t > b * t
  <2>1. PICK d \in Nat \ {0} : a = b + d
    <3>1. a - b \in Nat \ {0} /\ a = b + (a - b)
      BY <1>1
    <3> QED
      BY <3>1
  <2>2. a * t = b * t + d * t /\ d * t > 0
    BY <2>1
  <2>3. b * t \in Int /\ d * t \in Int
    BY <2>1
  <2> QED
    BY <2>2, <2>3
<1>2. ASSUME ~ (a > b) PROVE ~ (a * t > b * t)
  <2>1. PICK d \in Nat : b = a + d
    <3>1. b - a \in Nat /\ b = a + (b - a)
      BY <1>2
    <3> QED
      BY <3>1
  <2>2. b * t = a * t + d * t /\ d * t >= 0
    BY <2>1
  <2>3. a * t \in Int /\ d * t \in Int
    BY <2>1
  <2> QED
    BY <2>2, <2>3
<1> QED
  BY <1>1, <1>2

\* _merge_generate_progress keeps what it has or takes what is new, and neither of them
\* is ahead of the result, whatever the totals are.
LEMMA MergeIsFurthest ==
    ASSUME NEW e \in [total : Nat, count : Nat], NEW n \in [total : Nat, count : Nat]
    PROVE  /\ Merge(e, n) \in {e, n}
           /\ ~ Exceeds(e, Merge(e, n)) /\ ~ Exceeds(n, Merge(e, n))
<1>1. TotalOf(e) \in Nat /\ TotalOf(n) \in Nat /\ e.count \in Nat /\ n.count \in Nat
  BY DEF TotalOf
<1>2. ~ Exceeds(e, e) /\ ~ Exceeds(n, n)
  <2>1. e.count * TotalOf(e) \in Nat /\ n.count * TotalOf(n) \in Nat
    BY <1>1
  <2> QED
    BY <2>1 DEF Exceeds
<1>3. Exceeds(e, n) => ~ Exceeds(n, e)
  <2>1. e.count * TotalOf(n) \in Nat /\ n.count * TotalOf(e) \in Nat
    BY <1>1
  <2> QED
    BY <2>1 DEF Exceeds
<1>4. e = NotShown => ~ Exceeds(e, n)
  <2>1. ASSUME e = NotShown PROVE ~ Exceeds(e, n)
    <3>1. e.count * TotalOf(n) = 0
      BY <1>1, <2>1 DEF NotShown, Progress
    <3>2. n.count * TotalOf(e) \in Nat
      BY <1>1
    <3> QED
      BY <3>1, <3>2 DEF Exceeds
  <2> QED
    BY <2>1
<1> QED
  BY <1>2, <1>3, <1>4 DEF Merge

\* The progress that reports and the status have: with the same total, the count decides.
LEMMA CountDecides ==
    ASSUME NEW i \in 0 .. Steps, NEW e \in {NotShown} \union [total : {Steps}, count : 0 .. Steps]
    PROVE  LET m == Merge(e, Progress(Steps, i)) IN
           /\ m \in [total : {Steps}, count : 0 .. Steps]
           /\ i <= m.count /\ e.count <= m.count /\ m.count \in {i, e.count}
<1> DEFINE n == Progress(Steps, i)
<1>1. n \in [total : {Steps}, count : 0 .. Steps] /\ n.count = i /\ Steps \in Nat \ {0}
  BY ProgressAssumption DEF Progress
<1>2. CASE e = NotShown
  <2>1. Merge(e, n) = n /\ e.count = 0
    BY <1>2 DEF Merge, NotShown, Progress
  <2> QED
    BY <1>1, <2>1
<1>3. CASE e # NotShown
  <2>1. e \in [total : {Steps}, count : 0 .. Steps]
    BY <1>3
  <2>2. TotalOf(e) = Steps /\ TotalOf(n) = Steps /\ e.count \in Nat /\ n.count \in Nat
    BY <1>1, <2>1 DEF TotalOf
  <2>3. /\ Exceeds(e, n) <=> e.count > n.count
        /\ Exceeds(n, e) <=> n.count > e.count
    BY <1>1, <2>2, TimesKeepsOrder DEF Exceeds
  <2> HIDE DEF n
  <2> QED
    BY <1>1, <1>3, <2>1, <2>2, <2>3 DEF Merge, n
<1> QED
  BY <1>2, <1>3

\* At the beginning nothing has arrived, and nothing is shown.
LEMMA NothingYet == ProgressInit => ProgressInv
<1> SUFFICES ASSUME ProgressInit PROVE ProgressInv
  OBVIOUS
<1>1. NotShown = [total |-> 0, count |-> 0]
  BY DEF NotShown, Progress
<1>2. shownProgress = [c \in ProgressCcds |-> [total |-> 0, count |-> 0]]
  BY <1>1 DEF ProgressInit
<1>3. \A c \in ProgressCcds : shownProgress[c].count = 0
  BY <1>2
<1>4. \A c \in ProgressCcds, s \in ProgressSessions : arrived[<<s, c>>] = 0
  BY DEF ProgressInit, Pairs
<1>5. ProgressTypeOK
  BY ProgressAssumption DEF ProgressInit, ProgressTypeOK, Pairs
<1>6. ASSUME NEW c \in ProgressCcds
      PROVE  /\ \A s \in ProgressSessions : arrived[<<s, c>>] <= shownProgress[c].count
             /\ ~ (shownProgress[c].count > 0)
  <2> DEFINE n == shownProgress[c].count
  <2>1. n = 0 /\ \A s \in ProgressSessions : arrived[<<s, c>>] = 0
    BY <1>3, <1>4
  <2> HIDE DEF n
  <2>2. ~ (n > 0) /\ \A s \in ProgressSessions : arrived[<<s, c>>] <= n
    BY <2>1
  <2> QED
    BY <2>2 DEF n
<1>7. FurthestIsShown
  BY <1>6 DEF FurthestIsShown
<1> QED
  BY <1>5, <1>7 DEF ProgressInv

\* The status shows the furthest report of all copies of a CCD.
THEOREM ProgressIsFurthest == ProgressSpec => []ProgressInv
<1> USE ProgressAssumption DEF ProgressInv, ProgressTypeOK, FurthestIsShown, Pairs
<1>1. ProgressInit => ProgressInv
  BY NothingYet
<1>2. ASSUME ProgressInv, [ProgressNext]_progressVars PROVE ProgressInv'
  <2> USE <1>2
  <2>1. CASE UNCHANGED progressVars
    BY <2>1 DEF progressVars
  <2>2. ASSUME NEW s \in ProgressSessions, SessionBreaks(s) PROVE ProgressInv'
    BY <2>2 DEF SessionBreaks
  <2>3. ASSUME NEW s \in ProgressSessions, NEW c \in ProgressCcds, AssignCopy(s, c)
        PROVE  ProgressInv'
    <3>1. /\ openSessions' = openSessions /\ copiesGiven' = copiesGiven \union {<<s, c>>}
          /\ reached' = reached /\ arrived' = arrived
      BY <2>3 DEF AssignCopy
    <3>2. Progress(Steps, 0) \in [total : {Steps}, count : 0 .. Steps]
      BY DEF Progress
    <3>3. /\ shownProgress' \in [ProgressCcds ->
                 {NotShown} \union [total : {Steps}, count : 0 .. Steps]]
          /\ \A b \in ProgressCcds : shownProgress'[b].count = shownProgress[b].count
      BY <2>3, <3>2 DEF AssignCopy, NotShown, Progress
    <3>4. ProgressTypeOK'
      BY <3>1, <3>3
    <3>5. FurthestIsShown'
      BY <3>1, <3>3
    <3> QED
      BY <3>4, <3>5
  <2>4. ASSUME NEW s \in ProgressSessions, NEW c \in ProgressCcds, Report(s, c)
        PROVE  ProgressInv'
    <3>1. /\ openSessions' = openSessions /\ copiesGiven' = copiesGiven
          /\ arrived' = arrived /\ shownProgress' = shownProgress
          /\ <<s, c>> \in copiesGiven /\ reached[<<s, c>>] < Steps
          /\ reached' = [reached EXCEPT ![<<s, c>>] = reached[<<s, c>>] + 1]
      BY <2>4 DEF Report
    <3>2. FurthestIsShown'
      BY <3>1
    <3>3. reached' \in [Pairs -> 0 .. Steps]
      BY <3>1
    <3>4. \A p \in Pairs : arrived'[p] <= reached'[p] /\ (p \notin copiesGiven' => reached'[p] = 0)
      BY <3>1
    <3> QED
      BY <3>1, <3>2, <3>3, <3>4
  <2>5. ASSUME NEW s \in ProgressSessions, NEW c \in ProgressCcds, ReceiveProgress(s, c)
        PROVE  ProgressInv'
    <3> DEFINE i == arrived[<<s, c>>] + 1
               m == Merge(shownProgress[c], Progress(Steps, i))
    <3>1. /\ openSessions' = openSessions /\ copiesGiven' = copiesGiven
          /\ reached' = reached /\ arrived[<<s, c>>] < reached[<<s, c>>]
          /\ arrived' = [arrived EXCEPT ![<<s, c>>] = i]
          /\ shownProgress' = [shownProgress EXCEPT ![c] = m]
      BY <2>5 DEF ReceiveProgress
    <3>2. i \in 0 .. Steps /\ i <= reached[<<s, c>>]
      BY <3>1
    <3>3. /\ m \in [total : {Steps}, count : 0 .. Steps]
          /\ i <= m.count /\ shownProgress[c].count <= m.count
          /\ m.count \in {i, shownProgress[c].count}
      BY <3>2, CountDecides
    <3> HIDE DEF m
    <3>4. ProgressTypeOK'
      BY <3>1, <3>2, <3>3
    <3>5. ASSUME NEW b \in ProgressCcds, b # c
          PROVE  /\ shownProgress'[b] = shownProgress[b]
                 /\ \A r \in ProgressSessions : arrived'[<<r, b>>] = arrived[<<r, b>>]
      BY <3>1, <3>5
    <3>6. /\ shownProgress'[c] = m /\ arrived'[<<s, c>>] = i
          /\ \A r \in ProgressSessions \ {s} : arrived'[<<r, c>>] = arrived[<<r, c>>]
      BY <3>1
    <3>7. shownProgress[c].count \in Nat /\ \A r \in ProgressSessions : arrived[<<r, c>>] \in Nat
      BY DEF NotShown, Progress
    <3>8. \A r \in ProgressSessions : arrived'[<<r, c>>] <= m.count
      BY <3>3, <3>6, <3>7
    <3>9. m.count > 0 => \E r \in ProgressSessions : arrived'[<<r, c>>] = m.count
      <4>1. CASE m.count = i
        BY <3>6, <4>1
      <4>2. CASE m.count # i
        <5>1. m.count = shownProgress[c].count
          BY <3>3, <4>2
        <5>2. ASSUME m.count > 0
              PROVE  \E r \in ProgressSessions \ {s} : arrived[<<r, c>>] = m.count
          <6>1. PICK r \in ProgressSessions : arrived[<<r, c>>] = shownProgress[c].count
            BY <5>1, <5>2
          <6>2. r # s
            <7>1. arrived[<<s, c>>] \in Nat /\ shownProgress[c].count \in Nat
              BY <3>7
            <7>2. arrived[<<s, c>>] + 1 <= shownProgress[c].count
              BY <3>3, <5>1
            <7>3. arrived[<<s, c>>] # shownProgress[c].count
              BY <7>1, <7>2
            <7> QED
              BY <6>1, <7>3
          <6> QED
            BY <5>1, <6>1, <6>2
        <5> QED
          BY <3>6, <5>2
      <4> QED
        BY <4>1, <4>2
    <3>10. FurthestIsShown'
      <4>1. ASSUME NEW b \in ProgressCcds
            PROVE  /\ \A r \in ProgressSessions : arrived'[<<r, b>>] <= shownProgress'[b].count
                   /\ shownProgress'[b].count > 0 =>
                         \E r \in ProgressSessions : arrived'[<<r, b>>] = shownProgress'[b].count
        <5>1. CASE b = c
          <6>1. shownProgress'[c].count = m.count
            BY <3>6
          <6> QED
            BY <3>8, <3>9, <5>1, <6>1
        <5>2. CASE b # c
          <6>1. shownProgress'[b].count = shownProgress[b].count
            BY <3>5, <5>2
          <6>2. \A r \in ProgressSessions : arrived'[<<r, b>>] = arrived[<<r, b>>]
            BY <3>5, <5>2
          <6>3. FurthestIsShown
            OBVIOUS
          <6> QED
            BY <6>1, <6>2, <6>3
        <5> QED
          BY <5>1, <5>2
      <4> QED
        BY <4>1
    <3> QED
      BY <3>4, <3>10
  <2> QED
    BY <2>1, <2>2, <2>3, <2>4, <2>5 DEF ProgressNext
<1> QED
  BY <1>1, <1>2, PTL DEF ProgressSpec

-----------------------------------------------------------------------------
(* The timeout of the downloads (DownloadTimeout).                           *)

\* A set of natural numbers that is not empty has a least one.
LEMMA LeastNatural ==
    ASSUME NEW T, T \subseteq Nat, T # {}
    PROVE  \E x \in T : \A y \in T : x <= y
<1> DEFINE R == {ss \in Nat \X Nat : ss[1] < ss[2]}
<1>1. IsWellFoundedOn(R, Nat)
  BY NatLessThanWellFounded, Zenon DEF OpToRel
<1> HIDE DEF R
<1>2. PICK x \in T : \A y \in T : <<y, x>> \notin R
  BY <1>1, WFMin
<1>3. \A y \in T : ~(y < x)
  BY <1>2 DEF R
<1> QED
  BY <1>3

LEMMA TheTwo ==
    ASSUME NEW a \in Nat, NEW b \in Nat
    PROVE  /\ Max({a, b}) \in {a, b} /\ Max({a, b}) >= a /\ Max({a, b}) >= b
           /\ Min({a, b}) \in {a, b} /\ Min({a, b}) <= a /\ Min({a, b}) <= b
<1>1. \E x \in {a, b} : \A y \in {a, b} : x >= y
  OBVIOUS
<1>2. \E x \in {a, b} : \A y \in {a, b} : x <= y
  OBVIOUS
<1>3. Max({a, b}) \in {a, b} /\ \A y \in {a, b} : Max({a, b}) >= y
  BY <1>1 DEF Max
<1>4. Min({a, b}) \in {a, b} /\ \A y \in {a, b} : Min({a, b}) <= y
  BY <1>2 DEF Min
<1> QED
  BY <1>3, <1>4

LEMMA TargetIsPositive == SampleTarget \in Nat \ {0}
<1>1. (SlotsPerJob + 1) \div 2 \in Nat
  BY DownloadsAssumption
<1>2. Max({(SlotsPerJob + 1) \div 2, 1}) >= 1
      /\ Max({(SlotsPerJob + 1) \div 2, 1}) \in {(SlotsPerJob + 1) \div 2, 1}
  BY <1>1, TheTwo
<1> QED
  BY <1>1, <1>2 DEF SampleTarget

\* What is at place k of the sorted durations: fewer than k are less, and k are not more.
LEMMA NthIsThere ==
    ASSUME NEW ds \in Seq(Nat), NEW bound \in Nat, \A i \in 1..Len(ds) : ds[i] <= bound,
           NEW k \in 1..Len(ds)
    PROVE  /\ NthOf(ds, k) \in Nat /\ NthOf(ds, k) <= bound
           /\ Cardinality({i \in 1..Len(ds) : ds[i] < NthOf(ds, k)}) < k
           /\ Cardinality({i \in 1..Len(ds) : ds[i] <= NthOf(ds, k)}) >= k
<1>1. /\ Len(ds) \in Nat /\ DOMAIN ds = 1..Len(ds) /\ \A i \in 1..Len(ds) : ds[i] \in Nat
      /\ Range(ds) = {ds[i] : i \in 1..Len(ds)}
  BY LenProperties, ElementOfSeq, RangeEquality
<1> DEFINE D == 1..Len(ds)
           Upto(y) == {i \in D : ds[i] <= y}
           Below(y) == {i \in D : ds[i] < y}
           T == {y \in Nat : Cardinality(Upto(y)) >= k}
<1>2. IsFiniteSet(D) /\ Cardinality(D) = Len(ds)
  <2>1. \A j \in Nat : IsFiniteSet(1..j) /\ Cardinality(1..j) = j
    <3> TAKE j \in Nat
    <3> QED
      BY FS_Interval
  <2> QED
    BY <1>1, <2>1
<1>3. \A U \in SUBSET D : IsFiniteSet(U) /\ Cardinality(U) \in Nat
  BY <1>2, FS_Subset, FS_CardinalityType
<1>4. bound \in T
  <2>1. Upto(bound) = D
    OBVIOUS
  <2>2. k <= Len(ds) /\ Len(ds) \in Nat
    BY <1>1
  <2>3. Cardinality(Upto(bound)) >= k
    BY <2>1, <2>2, <1>2
  <2> QED
    BY <2>3
<1>5. PICK x \in T : \A y \in T : x <= y
  <2>1. T \subseteq Nat /\ T # {}
    BY <1>4
  <2> HIDE DEF T
  <2> QED
    BY <2>1, LeastNatural
<1>6. x \in Nat /\ x <= bound /\ Cardinality(Upto(x)) >= k
  BY <1>4, <1>5
<1>7. Cardinality(Below(x)) < k
  <2>1. CASE x = 0
    <3>1. Below(x) = {}
      BY <1>1, <2>1
    <3>2. Cardinality(Below(x)) = 0
      BY <3>1, FS_EmptySet
    <3>3. k \in Nat /\ 0 < k
      BY <1>1
    <3> HIDE DEF Below
    <3> QED
      BY <3>2, <3>3
  <2>2. CASE x # 0
    <3>1. x - 1 \in Nat /\ ~(x <= x - 1)
      BY <1>6, <2>2
    <3>2. x - 1 \notin T
      BY <1>5, <3>1
    <3>3. Upto(x - 1) = Below(x)
      BY <1>1, <1>6, <3>1
    <3>4. Cardinality(Upto(x - 1)) \in Nat /\ ~(Cardinality(Upto(x - 1)) >= k)
      BY <1>3, <3>1, <3>2
    <3>5. Cardinality(Upto(x - 1)) < k
      <4>1. k \in Nat
        BY <1>1
      <4> HIDE DEF Upto
      <4> QED
        BY <3>4, <4>1
    <3> QED
      BY <3>3, <3>5
  <2> QED
    BY <2>1, <2>2
<1>8. x \in Range(ds)
  <2> SUFFICES ASSUME x \notin Range(ds) PROVE FALSE
    OBVIOUS
  <2>1. Upto(x) = Below(x)
    BY <1>1, <1>6
  <2>2. Cardinality(Below(x)) \in Nat
    BY <1>3
  <2>3. Cardinality(Below(x)) >= k
    BY <1>6, <2>1, Zenon
  <2>4. k \in Nat
    BY <1>1
  <2> HIDE DEF Below
  <2> QED
    BY <1>7, <2>2, <2>3, <2>4
<1>9. LET n == NthOf(ds, k) IN
      n \in Range(ds) /\ Cardinality(Below(n)) < k /\ Cardinality(Upto(n)) >= k
  BY <1>1, <1>6, <1>7, <1>8 DEF NthOf
<1> QED
  BY <1>1, <1>9

\* Twice the median: half of the sample is not above the median, and half not below it.
LEMMA MedianHalves ==
    ASSUME NEW ds \in Seq(Nat), NEW bound \in Nat, \A i \in 1..Len(ds) : ds[i] <= bound,
           Len(ds) >= 1
    PROVE  LET l == TwiceMedian(ds) IN
           /\ l \in Nat /\ l <= 2 * bound
           /\ 2 * Cardinality({i \in 1..Len(ds) : 2 * ds[i] <= l}) >= Len(ds)
           /\ 2 * Cardinality({i \in 1..Len(ds) : 2 * ds[i] >= l}) >= Len(ds)
<1>1. /\ Len(ds) \in Nat /\ \A i \in 1..Len(ds) : ds[i] \in Nat
  BY LenProperties, ElementOfSeq
<1> DEFINE n == Len(ds)  D == 1..Len(ds)  m == n \div 2  l == TwiceMedian(ds)
           Upto(y) == {i \in D : ds[i] <= y}
           Below(y) == {i \in D : ds[i] < y}
           From(y) == {i \in D : ds[i] >= y}
           Small == {i \in D : 2 * ds[i] <= l}
           Large == {i \in D : 2 * ds[i] >= l}
<1>2. IsFiniteSet(D) /\ Cardinality(D) = n
  <2>1. \A j \in Nat : IsFiniteSet(1..j) /\ Cardinality(1..j) = j
    <3> TAKE j \in Nat
    <3> QED
      BY FS_Interval
  <2> QED
    BY <1>1, <2>1
<1>3. \A U \in SUBSET D : IsFiniteSet(U) /\ Cardinality(U) \in Nat
  BY <1>2, FS_Subset, FS_CardinalityType
<1>4. \A U, V \in SUBSET D : U \subseteq V => Cardinality(U) <= Cardinality(V)
  <2> TAKE U, V \in SUBSET D
  <2> HAVE U \subseteq V
  <2> QED
    BY <1>3, FS_Subset
<1>5. \A y \in Nat : Cardinality(From(y)) = n - Cardinality(Below(y))
  <2> TAKE y \in Nat
  <2>1. From(y) = D \ Below(y) /\ D \cap Below(y) = Below(y)
    BY <1>1
  <2> HIDE DEF From, Below, D, n
  <2>2. Cardinality(D \ Below(y)) = Cardinality(D) - Cardinality(D \cap Below(y))
    BY <1>2, FS_Difference
  <2> QED
    BY <1>2, <2>1, <2>2
<1>9. n \in Nat
  BY <1>1
<1>6. m \in Nat /\ (n % 2 = 1 => n = 2 * m + 1) /\ (n % 2 # 1 => n = 2 * m /\ m >= 1)
  BY <1>1
<1>7. CASE n % 2 = 1
  <2> DEFINE x == NthOf(ds, m + 1)
  <2>1. m + 1 \in 1..n
    BY <1>1, <1>6, <1>7
  <2>2. /\ x \in Nat /\ x <= bound
        /\ Cardinality(Below(x)) < m + 1 /\ Cardinality(Upto(x)) >= m + 1
    BY <2>1, NthIsThere
  <2>3. l = 2 * x
    BY <1>7 DEF TwiceMedian
  <2> HIDE DEF x, l, m
  <2>4. Small = Upto(x) /\ Large = From(x)
    BY <1>1, <2>2, <2>3
  <2>5. Cardinality(Below(x)) \in Nat /\ Cardinality(Upto(x)) \in Nat
    BY <1>3
  <2>6. Cardinality(From(x)) = n - Cardinality(Below(x)) /\ Cardinality(From(x)) \in Nat
    BY <1>3, <1>5, <2>2
  <2>7. /\ l \in Nat /\ l <= 2 * bound
        /\ 2 * Cardinality(Small) >= n /\ 2 * Cardinality(Large) >= n
    <3> HIDE DEF From, Below, Upto, Small, Large, n, D
    <3>1. l \in Nat /\ l <= 2 * bound
      BY <2>2, <2>3
    <3>2. n = 2 * m + 1
      BY <1>6, <1>7
    <3>3. 2 * Cardinality(Upto(x)) >= n
      BY <1>6, <1>9, <2>2, <2>5, <3>2
    <3>4. 2 * Cardinality(From(x)) >= n
      BY <1>6, <1>9, <2>2, <2>5, <2>6, <3>2
    <3> QED
      BY <2>4, <3>1, <3>3, <3>4
  <2> QED
    BY <2>7 DEF l
<1>8. CASE n % 2 # 1
  <2> DEFINE a == NthOf(ds, m)  b == NthOf(ds, m + 1)
  <2>1. m \in 1..n /\ m + 1 \in 1..n
    BY <1>1, <1>6, <1>8
  <2>2. /\ a \in Nat /\ a <= bound
        /\ Cardinality(Below(a)) < m /\ Cardinality(Upto(a)) >= m
        /\ b \in Nat /\ b <= bound
        /\ Cardinality(Below(b)) < m + 1 /\ Cardinality(Upto(b)) >= m + 1
    BY <2>1, NthIsThere
  <2>3. l = a + b
    BY <1>8 DEF TwiceMedian
  <2> HIDE DEF a, b, l, m
  <2>4. a <= b
    <3> SUFFICES ASSUME b < a PROVE FALSE
      BY <2>2
    <3>1. Upto(b) \subseteq Below(a)
      BY <1>1, <2>2
    <3>2. Cardinality(Upto(b)) <= Cardinality(Below(a))
      BY <1>4, <3>1
    <3>3. Cardinality(Upto(b)) \in Nat /\ Cardinality(Below(a)) \in Nat
      BY <1>3
    <3> QED
      BY <1>6, <2>2, <3>2, <3>3
  <2>5. Upto(a) \subseteq Small /\ From(b) \subseteq Large
    BY <1>1, <2>2, <2>3, <2>4
  <2>6. /\ Cardinality(Below(b)) \in Nat /\ Cardinality(Upto(a)) \in Nat
        /\ Cardinality(Small) \in Nat /\ Cardinality(Large) \in Nat
        /\ Cardinality(Upto(a)) <= Cardinality(Small)
        /\ Cardinality(From(b)) <= Cardinality(Large)
    BY <1>3, <1>4, <2>5
  <2>7. Cardinality(From(b)) = n - Cardinality(Below(b)) /\ Cardinality(From(b)) \in Nat
    BY <1>3, <1>5, <2>2
  <2>8. /\ l \in Nat /\ l <= 2 * bound
        /\ 2 * Cardinality(Small) >= n /\ 2 * Cardinality(Large) >= n
    <3> HIDE DEF From, Below, Upto, Small, Large, n, D
    <3>1. l \in Nat /\ l <= 2 * bound
      BY <2>2, <2>3
    <3>2. n = 2 * m
      BY <1>6, <1>8
    <3>3. 2 * Cardinality(Small) >= n
      BY <1>6, <1>9, <2>2, <2>6, <3>2
    <3>4. 2 * Cardinality(Large) >= n
      BY <1>6, <1>9, <2>2, <2>6, <2>7, <3>2
    <3> QED
      BY <3>1, <3>3, <3>4
  <2> QED
    BY <2>8 DEF l
<1> QED
  BY <1>7, <1>8

\* The ticks of a CCD: those of its attempts so far, each between the shortest and the
\* longest timeout, and of the one that runs.
Counted(c) ==
    /\ age[c] <= Longest(limit)
    /\ ticks[c] <= Attempts * Longest(limit)
    /\ state[c] = "timedout" => ticks[c] >= Attempts * Shortest(limit)
    /\ state[c] = "waiting" => ticks[c] = 0
    /\ state[c] = "running" =>
          /\ attemptOf[c] >= 1
          /\ ticks[c] >= (attemptOf[c] - 1) * Shortest(limit) + age[c]
          /\ ticks[c] <= (attemptOf[c] - 1) * Longest(limit) + age[c]

\* The inductive invariant: what decides the limit is not longer than the timeout that it
\* replaces, and so the bounds of every CCD only widen.
DownloadsIInv ==
    /\ DownloadsTypeOK /\ LimitFitsSample
    /\ IsFiniteSet(CcdsIn("running"))
    /\ limit <= 2 * Bootstrap
    /\ limit = NoLimit => \A i \in 1..Len(durations) : durations[i] <= Bootstrap
    /\ \A c \in RefCcds : Counted(c)

\* The timeouts there were and are.
LEMMA TimeoutBounds ==
    ASSUME NEW l \in Nat \union {NoLimit}, l <= 2 * Bootstrap
    PROVE  /\ Shortest(l) \in Nat /\ Longest(l) \in Nat
           /\ Shortest(l) <= Bootstrap /\ Bootstrap <= Longest(l)
           /\ Longest(l) <= 2 * Bootstrap
           /\ l > 0 => Shortest(l) <= l /\ l <= Longest(l)
           /\ l = NoLimit => Shortest(l) = Bootstrap /\ Longest(l) = Bootstrap
<1>1. Bootstrap \in Nat /\ NoLimit = -1
  BY DownloadsAssumption DEF NoLimit
<1>2. CASE l > 0
  <2>1. l \in Nat /\ l # NoLimit
    BY <1>1, <1>2
  <2>2. /\ Max({l, Bootstrap}) \in {l, Bootstrap} /\ Max({l, Bootstrap}) >= l
        /\ Max({l, Bootstrap}) >= Bootstrap
        /\ Min({l, Bootstrap}) \in {l, Bootstrap} /\ Min({l, Bootstrap}) <= l
        /\ Min({l, Bootstrap}) <= Bootstrap
    BY <1>1, <2>1, TheTwo
  <2>3. Longest(l) = Max({l, Bootstrap}) /\ Shortest(l) = Min({l, Bootstrap})
    BY <1>2 DEF Longest, Shortest
  <2> QED
    BY <1>1, <2>1, <2>2, <2>3
<1>3. CASE ~(l > 0)
  BY <1>1, <1>3 DEF Longest, Shortest
<1> QED
  BY <1>2, <1>3

\* Products with the number of an attempt.
LEMMA AttemptProducts ==
    /\ \A k, t \in Nat : k * t \in Nat
    /\ \A k, t \in Int : (k - 1) * t + t = k * t
    /\ \A k, t, u \in Nat : t <= u => k * t <= k * u
    /\ \A k, m, t \in Nat : k <= m => k * t <= m * t
<1>1. \A k, t \in Nat : k * t \in Nat
  OBVIOUS
<1>2. \A k, t \in Int : (k - 1) * t + t = k * t
  OBVIOUS
<1>3. \A k, t, u \in Nat : t <= u => k * t <= k * u
  <2> TAKE k, t, u \in Nat
  <2> HAVE t <= u
  <2>1. u - t \in Nat /\ k * (u - t) \in Nat
    BY <1>1
  <2>2. k * u = k * t + k * (u - t)
    OBVIOUS
  <2>3. k * t \in Int /\ k * u \in Int
    BY <1>1
  <2> QED
    BY <2>1, <2>2, <2>3
<1>4. \A k, m, t \in Nat : k <= m => k * t <= m * t
  <2> TAKE k, m, t \in Nat
  <2> HAVE k <= m
  <2>1. m - k \in Nat /\ (m - k) * t \in Nat
    BY <1>1
  <2>2. m * t = k * t + (m - k) * t
    OBVIOUS
  <2>3. k * t \in Int /\ m * t \in Int
    BY <1>1
  <2> QED
    BY <2>1, <2>2, <2>3
<1> QED
  BY <1>1, <1>2, <1>3, <1>4

LEMMA DownloadsInitIInv == DownloadsInit => DownloadsIInv
<1> SUFFICES ASSUME DownloadsInit PROVE DownloadsIInv
  OBVIOUS
<1>1. /\ Bootstrap \in Nat /\ Attempts \in Nat /\ Downloaders \in Nat /\ NoLimit = -1
      /\ limit = NoLimit /\ durations = <<>>
  BY DownloadsAssumption DEF DownloadsInit, NoLimit
<1>2. limit <= 2 * Bootstrap
  BY <1>1
<1>3. Shortest(limit) \in Nat /\ Longest(limit) \in Nat
  BY <1>1, <1>2, TimeoutBounds
<1>4. CcdsIn("running") = {} /\ IsFiniteSet({}) /\ Cardinality({}) = 0
  BY FS_EmptySet DEF DownloadsInit, CcdsIn
<1>5. durations \in Seq(Nat) /\ Len(durations) = 0
  BY <1>1, EmptySeq
<1>6. DownloadsTypeOK
  <2>1. 0 \in 0..Attempts /\ 0 \in 0..(2 * Bootstrap) /\ 0 \in Nat
    BY <1>1
  <2>2. Cardinality(CcdsIn("running")) <= Downloaders
    BY <1>1, <1>4
  <2> QED
    BY <1>1, <1>5, <2>1, <2>2 DEF DownloadsInit, DownloadsTypeOK
<1>7. LimitFitsSample
  BY <1>1, <1>5, TargetIsPositive DEF LimitFitsSample
<1>8. 0 <= Attempts * Longest(limit)
  <2>1. Attempts * Longest(limit) \in Nat
    BY <1>1, <1>3
  <2> QED
    BY <2>1
<1>9. \A i \in 1..Len(durations) : durations[i] <= Bootstrap
  BY <1>5
<1>10. ASSUME NEW c \in RefCcds
       PROVE  Counted(c)
  <2>1. age[c] <= Longest(limit) /\ ticks[c] = 0 /\ state[c] = "waiting"
    BY <1>3 DEF DownloadsInit
  <2> QED
    BY <1>8, <2>1 DEF Counted
<1> QED
  BY <1>2, <1>4, <1>6, <1>7, <1>9, <1>10 DEF DownloadsIInv

\* The types of what a step finds.
LEMMA DownloadFacts ==
    ASSUME DownloadsIInv
    PROVE  /\ Bootstrap \in Nat /\ Attempts \in Nat /\ Downloaders \in Nat /\ NoLimit = -1
           /\ limit \in Nat \union {NoLimit} /\ limit <= 2 * Bootstrap
           /\ Shortest(limit) \in Nat /\ Longest(limit) \in Nat /\ ActiveTimeout \in Nat
           /\ Shortest(limit) <= ActiveTimeout /\ ActiveTimeout <= Longest(limit)
           /\ Longest(limit) <= 2 * Bootstrap
           /\ \A c \in RefCcds : /\ age[c] \in Nat /\ age[c] <= 2 * Bootstrap /\ ticks[c] \in Nat
                                 /\ attemptOf[c] \in Nat /\ attemptOf[c] <= Attempts
           /\ \A c \in RefCcds : ticks[c] <= Attempts * Longest(limit)
<1>1. /\ Bootstrap \in Nat /\ Attempts \in Nat /\ Downloaders \in Nat /\ NoLimit = -1
      /\ limit \in Nat \union {NoLimit} /\ limit <= 2 * Bootstrap
  BY DownloadsAssumption DEF DownloadsIInv, DownloadsTypeOK, NoLimit
<1>2. /\ Shortest(limit) \in Nat /\ Longest(limit) \in Nat /\ ActiveTimeout \in Nat
      /\ Shortest(limit) <= ActiveTimeout /\ ActiveTimeout <= Longest(limit)
      /\ Longest(limit) <= 2 * Bootstrap
  <2>1. /\ Shortest(limit) \in Nat /\ Longest(limit) \in Nat
        /\ Shortest(limit) <= Bootstrap /\ Bootstrap <= Longest(limit)
        /\ Longest(limit) <= 2 * Bootstrap
        /\ limit > 0 => Shortest(limit) <= limit /\ limit <= Longest(limit)
    BY <1>1, TimeoutBounds
  <2>2. ActiveTimeout = IF limit > 0 THEN limit ELSE Bootstrap
    BY <1>1 DEF ActiveTimeout
  <2> QED
    BY <1>1, <2>1, <2>2
<1>3. \A c \in RefCcds : /\ age[c] \in 0..(2 * Bootstrap) /\ ticks[c] \in Nat
                         /\ attemptOf[c] \in 0..Attempts
  BY DEF DownloadsIInv, DownloadsTypeOK
<1> QED
  BY <1>1, <1>2, <1>3 DEF DownloadsIInv, Counted

\* What was counted stays within the bounds when the limit is fixed.
LEMMA BoundsWiden ==
    ASSUME DownloadsIInv, NEW c \in RefCcds, state[c] = "running",
           NEW s \in Nat, NEW l \in Nat, s <= Shortest(limit), Longest(limit) <= l
    PROVE  /\ ticks[c] >= (attemptOf[c] - 1) * s + age[c]
           /\ ticks[c] <= (attemptOf[c] - 1) * l + age[c]
           /\ age[c] <= l
<1>1. /\ Shortest(limit) \in Nat /\ Longest(limit) \in Nat /\ age[c] \in Nat /\ ticks[c] \in Nat
      /\ attemptOf[c] \in Nat
  BY DownloadFacts
<1>2. /\ attemptOf[c] >= 1 /\ age[c] <= Longest(limit)
      /\ ticks[c] >= (attemptOf[c] - 1) * Shortest(limit) + age[c]
      /\ ticks[c] <= (attemptOf[c] - 1) * Longest(limit) + age[c]
  BY DEF DownloadsIInv, Counted
<1> DEFINE k == attemptOf[c] - 1
<1>3. k \in Nat
  BY <1>1, <1>2
<1> HIDE DEF k
<1>4. k * s <= k * Shortest(limit) /\ k * Longest(limit) <= k * l
  BY <1>1, <1>3, AttemptProducts
<1>5. k * s \in Nat /\ k * Shortest(limit) \in Nat /\ k * Longest(limit) \in Nat /\ k * l \in Nat
  BY <1>1, <1>3, AttemptProducts
<1>6. ticks[c] >= k * Shortest(limit) + age[c] /\ ticks[c] <= k * Longest(limit) + age[c]
  BY <1>2 DEF k
<1>7. ticks[c] >= k * s + age[c] /\ ticks[c] <= k * l + age[c]
  BY <1>1, <1>4, <1>5, <1>6
<1>8. age[c] <= l
  BY <1>1, <1>2
<1> QED
  BY <1>7, <1>8 DEF k

\* All ticks of a running download: no more than its attempts may have.
LEMMA WithinAttempts ==
    ASSUME DownloadsIInv, NEW c \in RefCcds, state[c] = "running"
    PROVE  /\ ticks[c] <= attemptOf[c] * Longest(limit)
           /\ age[c] >= ActiveTimeout => ticks[c] >= attemptOf[c] * Shortest(limit)
<1>1. /\ Shortest(limit) \in Nat /\ Longest(limit) \in Nat /\ age[c] \in Nat /\ ticks[c] \in Nat
      /\ attemptOf[c] \in Nat /\ ActiveTimeout \in Nat /\ Shortest(limit) <= ActiveTimeout
  BY DownloadFacts
<1>2. /\ attemptOf[c] >= 1 /\ age[c] <= Longest(limit)
      /\ ticks[c] >= (attemptOf[c] - 1) * Shortest(limit) + age[c]
      /\ ticks[c] <= (attemptOf[c] - 1) * Longest(limit) + age[c]
  BY DEF DownloadsIInv, Counted
<1> DEFINE a == (attemptOf[c] - 1) * Shortest(limit)  b == (attemptOf[c] - 1) * Longest(limit)
           d == attemptOf[c] * Shortest(limit)  e == attemptOf[c] * Longest(limit)
<1>3. a \in Nat /\ b \in Nat /\ d \in Nat /\ e \in Nat /\ a + Shortest(limit) = d /\ b + Longest(limit) = e
  <2>1. attemptOf[c] - 1 \in Nat /\ attemptOf[c] \in Int /\ Shortest(limit) \in Int /\ Longest(limit) \in Int
    BY <1>1, <1>2
  <2> QED
    BY <1>1, <2>1, AttemptProducts
<1>4. ticks[c] >= a + age[c] /\ ticks[c] <= b + age[c]
  BY <1>2
<1> HIDE DEF a, b, d, e
<1>5. ticks[c] <= e /\ (age[c] >= ActiveTimeout => ticks[c] >= d)
  BY <1>1, <1>2, <1>3, <1>4
<1> QED
  BY <1>5 DEF d, e

\* A CCD whose numbers stay keeps its bounds when the timeouts move apart.
LEMMA CountedStays ==
    ASSUME DownloadsIInv, NEW c \in RefCcds,
           state'[c] = state[c], attemptOf'[c] = attemptOf[c],
           age'[c] = age[c], ticks'[c] = ticks[c],
           Shortest(limit') \in Nat, Longest(limit') \in Nat,
           Shortest(limit') <= Shortest(limit), Longest(limit) <= Longest(limit')
    PROVE  Counted(c)'
<1>1. Counted(c)
  BY DEF DownloadsIInv
<1>2. /\ Attempts \in Nat /\ Shortest(limit) \in Nat /\ Longest(limit) \in Nat
      /\ age[c] \in Nat /\ ticks[c] \in Nat
  BY DownloadFacts
<1> DEFINE s == Shortest(limit')  l == Longest(limit')
<1>3. /\ Attempts * s <= Attempts * Shortest(limit)
      /\ Attempts * Longest(limit) <= Attempts * l
  BY <1>2, AttemptProducts
<1>4. /\ Attempts * s \in Nat /\ Attempts * Shortest(limit) \in Nat
      /\ Attempts * l \in Nat /\ Attempts * Longest(limit) \in Nat
  BY <1>2, AttemptProducts
<1>5. state[c] = "running" =>
        /\ attemptOf[c] >= 1
        /\ ticks[c] >= (attemptOf[c] - 1) * s + age[c]
        /\ ticks[c] <= (attemptOf[c] - 1) * l + age[c]
  <2> SUFFICES ASSUME state[c] = "running"
               PROVE  /\ attemptOf[c] >= 1
                      /\ ticks[c] >= (attemptOf[c] - 1) * s + age[c]
                      /\ ticks[c] <= (attemptOf[c] - 1) * l + age[c]
    OBVIOUS
  <2>1. attemptOf[c] >= 1
    BY <1>1 DEF Counted
  <2> HIDE DEF s, l
  <2>2. s \in Nat /\ l \in Nat /\ s <= Shortest(limit) /\ Longest(limit) <= l
    BY DEF s, l
  <2> QED
    BY <2>1, <2>2, BoundsWiden
<1>6. age[c] <= l /\ ticks[c] <= Attempts * l
  <2>1. age[c] <= Longest(limit) /\ ticks[c] <= Attempts * Longest(limit)
    BY <1>1 DEF Counted
  <2> QED
    BY <1>2, <1>3, <1>4, <2>1
<1>7. state[c] = "timedout" => ticks[c] >= Attempts * s
  <2>1. state[c] = "timedout" => ticks[c] >= Attempts * Shortest(limit)
    BY <1>1 DEF Counted
  <2> QED
    BY <1>2, <1>3, <1>4, <2>1
<1>8. state[c] = "waiting" => ticks[c] = 0
  BY <1>1 DEF Counted
<1> HIDE DEF s, l
<1>9. /\ age'[c] <= l
      /\ ticks'[c] <= Attempts * l
      /\ state'[c] = "timedout" => ticks'[c] >= Attempts * s
      /\ state'[c] = "waiting" => ticks'[c] = 0
      /\ state'[c] = "running" =>
            /\ attemptOf'[c] >= 1
            /\ ticks'[c] >= (attemptOf'[c] - 1) * s + age'[c]
            /\ ticks'[c] <= (attemptOf'[c] - 1) * l + age'[c]
  BY <1>5, <1>6, <1>7, <1>8
<1> QED
  BY <1>9, Zenon DEF Counted, s, l

LEMMA StartStep ==
    ASSUME DownloadsIInv, NEW c \in RefCcds, StartDownload(c)
    PROVE  DownloadsIInv'
<1>1. /\ DownloadsTypeOK /\ LimitFitsSample /\ IsFiniteSet(CcdsIn("running"))
      /\ limit <= 2 * Bootstrap
      /\ limit = NoLimit => \A i \in 1..Len(durations) : durations[i] <= Bootstrap
      /\ \A d \in RefCcds : Counted(d)
  BY DEF DownloadsIInv
<1>2. /\ Attempts \in Nat \ {0} /\ Shortest(limit) \in Nat /\ Longest(limit) \in Nat
      /\ Bootstrap \in Nat /\ Downloaders \in Nat
  BY DownloadFacts, DownloadsAssumption
<1>3. state[c] = "waiting"
  <2>1. CcdsIn("waiting") \subseteq Nat /\ CcdsIn("waiting") # {} /\ c = Min(CcdsIn("waiting"))
    BY DownloadsAssumption DEF StartDownload, FirstOf, CcdsIn
  <2>2. \E x \in CcdsIn("waiting") : \A y \in CcdsIn("waiting") : x <= y
    BY <2>1, LeastNatural
  <2>3. Min(CcdsIn("waiting")) \in CcdsIn("waiting")
    BY <2>2 DEF Min
  <2> QED
    BY <2>1, <2>3 DEF CcdsIn
<1>4. /\ state' = [state EXCEPT ![c] = "running"]
      /\ attemptOf' = [attemptOf EXCEPT ![c] = 1] /\ age' = [age EXCEPT ![c] = 0]
      /\ ticks' = ticks /\ durations' = durations /\ limit' = limit
  BY DEF StartDownload
<1>5. CcdsIn("running")' = CcdsIn("running") \union {c} /\ c \notin CcdsIn("running")
  BY <1>1, <1>3, <1>4 DEF CcdsIn, DownloadsTypeOK
<1>6. IsFiniteSet(CcdsIn("running")') /\ Cardinality(CcdsIn("running")') <= Downloaders
  <2>1. Cardinality(CcdsIn("running")) < Downloaders
    BY DEF StartDownload
  <2>2. /\ IsFiniteSet(CcdsIn("running") \union {c})
        /\ Cardinality(CcdsIn("running") \union {c}) = Cardinality(CcdsIn("running")) + 1
        /\ Cardinality(CcdsIn("running")) \in Nat
    BY <1>1, <1>5, FS_AddElement, FS_CardinalityType
  <2> QED
    BY <1>2, <1>5, <2>1, <2>2
<1>7. DownloadsTypeOK'
  <2>1. 1 \in 0..Attempts /\ 0 \in 0..(2 * Bootstrap)
    BY <1>2
  <2> QED
    BY <1>1, <1>4, <1>6, <2>1 DEF DownloadsTypeOK
<1>8. LimitFitsSample'
  BY <1>1, <1>4 DEF LimitFitsSample
<1>9. ASSUME NEW d \in RefCcds
      PROVE  Counted(d)'
  <2>1. CASE d # c
    <3>1. state'[d] = state[d] /\ attemptOf'[d] = attemptOf[d] /\ age'[d] = age[d]
          /\ ticks'[d] = ticks[d]
      BY <1>1, <1>4, <2>1 DEF DownloadsTypeOK
    <3>2. /\ Shortest(limit') \in Nat /\ Longest(limit') \in Nat
          /\ Shortest(limit') <= Shortest(limit) /\ Longest(limit) <= Longest(limit')
      BY <1>2, <1>4
    <3> QED
      BY <3>1, <3>2, CountedStays
  <2>2. CASE d = c
    <3>1. state'[c] = "running" /\ attemptOf'[c] = 1 /\ age'[c] = 0 /\ ticks'[c] = ticks[c]
      BY <1>1, <1>4 DEF DownloadsTypeOK
    <3>2. ticks[c] = 0
      BY <1>1, <1>3 DEF Counted
    <3>3. /\ 0 * Shortest(limit) = 0 /\ 0 * Longest(limit) = 0
          /\ Attempts * Longest(limit) \in Nat
      BY <1>2, AttemptProducts
    <3>4. /\ age'[c] <= Longest(limit)
          /\ ticks'[c] <= Attempts * Longest(limit)
          /\ attemptOf'[c] >= 1
          /\ ticks'[c] >= (attemptOf'[c] - 1) * Shortest(limit) + age'[c]
          /\ ticks'[c] <= (attemptOf'[c] - 1) * Longest(limit) + age'[c]
      BY <1>2, <3>1, <3>2, <3>3
    <3> QED
      BY <1>4, <2>2, <3>1, <3>4 DEF Counted
  <2> QED
    BY <2>1, <2>2
<1> QED
  BY <1>1, <1>4, <1>6, <1>7, <1>8, <1>9 DEF DownloadsIInv

\* A success is recorded: it may fix the limit, and then half of the sample is on either
\* side of half of it.
LEMMA SuccessIsRecorded ==
    ASSUME DownloadsIInv, NEW c \in RefCcds, state[c] = "running", RecordSuccess(age[c])
    PROVE  /\ durations' \in Seq(Nat) /\ limit' \in Nat \union {NoLimit}
           /\ LimitFitsSample'
           /\ limit' <= 2 * Bootstrap
           /\ limit' = NoLimit => \A i \in 1..Len(durations') : durations'[i] <= Bootstrap
           /\ Shortest(limit') \in Nat /\ Longest(limit') \in Nat
           /\ Shortest(limit') <= Shortest(limit) /\ Longest(limit) <= Longest(limit')
<1>1. /\ durations \in Seq(Nat) /\ LimitFitsSample
      /\ limit = NoLimit => \A i \in 1..Len(durations) : durations[i] <= Bootstrap
      /\ age[c] <= Longest(limit)
  BY DEF DownloadsIInv, DownloadsTypeOK, Counted
<1>2. /\ Bootstrap \in Nat /\ NoLimit = -1 /\ age[c] \in Nat
      /\ limit \in Nat \union {NoLimit} /\ limit <= 2 * Bootstrap
      /\ Shortest(limit) \in Nat /\ Longest(limit) \in Nat
  BY DownloadFacts
<1>3. SampleTarget \in Nat \ {0} /\ Len(durations) \in Nat
  BY <1>1, TargetIsPositive, LenProperties
<1>4. /\ durations' \in Seq(Nat) /\ Len(durations') = Len(durations) + 1
      /\ \A i \in 1..Len(durations) : durations'[i] = durations[i]
      /\ durations'[Len(durations) + 1] = age[c]
  BY <1>1, <1>2, AppendProperties DEF RecordSuccess
<1>5. limit = NoLimit => \A i \in 1..Len(durations') : durations'[i] <= Bootstrap
  <2> SUFFICES ASSUME limit = NoLimit, NEW i \in 1..Len(durations')
               PROVE  durations'[i] <= Bootstrap
    OBVIOUS
  <2>1. Longest(limit) = Bootstrap
    BY <1>2, TimeoutBounds
  <2>2. CASE i \in 1..Len(durations)
    BY <1>1, <1>4, <2>2
  <2>3. CASE i = Len(durations) + 1
    BY <1>1, <1>4, <2>1, <2>3
  <2>4. i \in 1..Len(durations) \/ i = Len(durations) + 1
    BY <1>3, <1>4
  <2> QED
    BY <2>2, <2>3, <2>4
<1>6. CASE limit # NoLimit
  <2>1. limit' = limit
    BY <1>6 DEF RecordSuccess
  <2>2. Len(durations) >= SampleTarget /\ Len(durations') >= SampleTarget
    BY <1>1, <1>3, <1>4, <1>6 DEF LimitFitsSample
  <2>3. \A i \in 1..SampleTarget : durations'[i] = durations[i]
    BY <1>3, <1>4, <2>2
  <2>4. /\ {i \in 1..SampleTarget : 2 * durations'[i] <= limit'}
             = {i \in 1..SampleTarget : 2 * durations[i] <= limit}
        /\ {i \in 1..SampleTarget : 2 * durations'[i] >= limit'}
             = {i \in 1..SampleTarget : 2 * durations[i] >= limit}
    BY <2>1, <2>3
  <2>5. LimitFitsSample'
    BY <1>1, <1>6, <2>1, <2>2, <2>4 DEF LimitFitsSample
  <2> QED
    BY <1>2, <1>4, <1>6, <2>1, <2>5
<1>7. CASE limit = NoLimit /\ Len(durations') < SampleTarget
  <2>1. limit' = limit
    BY <1>7 DEF RecordSuccess
  <2>2. LimitFitsSample'
    BY <1>3, <1>4, <1>7, <2>1 DEF LimitFitsSample
  <2> QED
    BY <1>2, <1>4, <1>5, <2>1, <2>2
<1>8. CASE limit = NoLimit /\ ~(Len(durations') < SampleTarget)
  <2>1. limit' = TwiceMedian(durations')
    BY <1>8 DEF RecordSuccess
  <2>2. Len(durations') = SampleTarget
    BY <1>1, <1>3, <1>4, <1>8 DEF LimitFitsSample
  <2>3. /\ limit' \in Nat /\ limit' <= 2 * Bootstrap
        /\ 2 * Cardinality({i \in 1..SampleTarget : 2 * durations'[i] <= limit'}) >= SampleTarget
        /\ 2 * Cardinality({i \in 1..SampleTarget : 2 * durations'[i] >= limit'}) >= SampleTarget
    <3>1. Len(durations') >= 1 /\ \A i \in 1..Len(durations') : durations'[i] <= Bootstrap
      BY <1>3, <1>5, <1>8, <2>2
    <3> DEFINE ds == durations'  l == TwiceMedian(durations')
    <3>2. /\ l \in Nat /\ l <= 2 * Bootstrap
          /\ 2 * Cardinality({i \in 1..Len(ds) : 2 * ds[i] <= l}) >= Len(ds)
          /\ 2 * Cardinality({i \in 1..Len(ds) : 2 * ds[i] >= l}) >= Len(ds)
      BY <1>2, <1>4, <3>1, MedianHalves
    <3> QED
      BY <2>1, <2>2, <3>2
  <2>4. limit' # NoLimit
    BY <1>2, <2>3
  <2>5. LimitFitsSample'
    <3>1. (limit' # NoLimit) <=> (Len(durations') >= SampleTarget)
      BY <1>3, <2>2, <2>4
    <3> QED
      BY <2>3, <3>1, Zenon DEF LimitFitsSample
  <2>6. /\ Shortest(limit) = Bootstrap /\ Longest(limit) = Bootstrap
        /\ Shortest(limit') \in Nat /\ Longest(limit') \in Nat
        /\ Shortest(limit') <= Bootstrap /\ Bootstrap <= Longest(limit')
    BY <1>2, <1>8, <2>3, TimeoutBounds
  <2> QED
    BY <1>4, <2>3, <2>4, <2>5, <2>6
<1> QED
  BY <1>6, <1>7, <1>8

\* A thread is free again.
LEMMA OneRunsLess ==
    ASSUME DownloadsIInv, NEW c \in RefCcds, state[c] = "running",
           NEW s \in {"done", "failed", "timedout"}, state' = [state EXCEPT ![c] = s]
    PROVE  /\ IsFiniteSet(CcdsIn("running")') /\ Cardinality(CcdsIn("running")') <= Downloaders
           /\ state' \in [RefCcds -> {"waiting", "running", "done", "failed", "timedout"}]
           /\ state'[c] = s /\ \A d \in RefCcds \ {c} : state'[d] = state[d]
<1>1. /\ state \in [RefCcds -> {"waiting", "running", "done", "failed", "timedout"}]
      /\ IsFiniteSet(CcdsIn("running")) /\ Cardinality(CcdsIn("running")) <= Downloaders
  BY DEF DownloadsIInv, DownloadsTypeOK
<1>2. CcdsIn("running")' \subseteq CcdsIn("running")
  BY <1>1 DEF CcdsIn
<1>3. /\ IsFiniteSet(CcdsIn("running")') /\ Cardinality(CcdsIn("running")') \in Nat
      /\ Cardinality(CcdsIn("running")) \in Nat
      /\ Cardinality(CcdsIn("running")') <= Cardinality(CcdsIn("running"))
  BY <1>1, <1>2, FS_Subset, FS_CardinalityType
<1>4. Downloaders \in Nat
  BY DownloadFacts
<1> QED
  BY <1>1, <1>3, <1>4

LEMMA EndStep ==
    ASSUME DownloadsIInv, NEW c \in RefCcds, DownloadEnds(c) \/ DownloadRaises(c)
    PROVE  DownloadsIInv'
<1>1. PICK s \in {"done", "failed"} :
        /\ state[c] = "running" /\ state' = [state EXCEPT ![c] = s]
        /\ UNCHANGED <<attemptOf, age, ticks>>
  BY DEF DownloadEnds, DownloadRaises
<1>2. /\ DownloadsTypeOK /\ LimitFitsSample /\ limit <= 2 * Bootstrap
      /\ limit = NoLimit => \A i \in 1..Len(durations) : durations[i] <= Bootstrap
      /\ \A d \in RefCcds : Counted(d)
  BY DEF DownloadsIInv
<1>3. Shortest(limit) \in Nat /\ Longest(limit) \in Nat
  BY DownloadFacts
<1>4. /\ durations' \in Seq(Nat) /\ limit' \in Nat \union {NoLimit}
      /\ LimitFitsSample'
      /\ limit' <= 2 * Bootstrap
      /\ limit' = NoLimit => \A i \in 1..Len(durations') : durations'[i] <= Bootstrap
      /\ Shortest(limit') \in Nat /\ Longest(limit') \in Nat
      /\ Shortest(limit') <= Shortest(limit) /\ Longest(limit) <= Longest(limit')
  <2>1. CASE DownloadEnds(c)
    BY <1>1, <2>1, SuccessIsRecorded DEF DownloadEnds
  <2>2. CASE DownloadRaises(c)
    <3>1. durations' = durations /\ limit' = limit
      BY <2>2 DEF DownloadRaises
    <3>2. LimitFitsSample'
      BY <1>2, <3>1 DEF LimitFitsSample
    <3> QED
      BY <1>2, <1>3, <3>1, <3>2 DEF DownloadsTypeOK
  <2> QED
    BY <2>1, <2>2
<1>5. /\ IsFiniteSet(CcdsIn("running")') /\ Cardinality(CcdsIn("running")') <= Downloaders
      /\ state' \in [RefCcds -> {"waiting", "running", "done", "failed", "timedout"}]
      /\ state'[c] = s /\ \A d \in RefCcds \ {c} : state'[d] = state[d]
  BY <1>1, OneRunsLess
<1>6. DownloadsTypeOK'
  BY <1>1, <1>2, <1>4, <1>5 DEF DownloadsTypeOK
<1>7. ASSUME NEW d \in RefCcds
      PROVE  Counted(d)'
  <2>1. CASE d # c
    BY <1>1, <1>4, <1>5, <2>1, CountedStays
  <2>2. CASE d = c
    <3>1. /\ age[c] <= Longest(limit) /\ ticks[c] <= Attempts * Longest(limit)
          /\ age[c] \in Nat /\ ticks[c] \in Nat /\ Attempts \in Nat
      BY <1>2, DownloadFacts DEF Counted
    <3>2. /\ Attempts * Longest(limit) <= Attempts * Longest(limit')
          /\ Attempts * Longest(limit) \in Nat /\ Attempts * Longest(limit') \in Nat
      BY <1>3, <1>4, <3>1, AttemptProducts
    <3>3. age'[c] <= Longest(limit') /\ ticks'[c] <= Attempts * Longest(limit')
      BY <1>1, <1>3, <1>4, <3>1, <3>2
    <3>4. state'[c] \notin {"timedout", "waiting", "running"}
      BY <1>5
    <3> QED
      BY <2>2, <3>3, <3>4 DEF Counted
  <2> QED
    BY <2>1, <2>2
<1> QED
  BY <1>4, <1>5, <1>6, <1>7 DEF DownloadsIInv

LEMMA TimeOutStep ==
    ASSUME DownloadsIInv, NEW c \in RefCcds, DownloadTimesOut(c)
    PROVE  DownloadsIInv'
<1>1. /\ state[c] = "running" /\ age[c] >= ActiveTimeout
      /\ ticks' = ticks /\ durations' = durations /\ limit' = limit
  BY DEF DownloadTimesOut
<1>2. /\ DownloadsTypeOK /\ LimitFitsSample /\ limit <= 2 * Bootstrap
      /\ limit = NoLimit => \A i \in 1..Len(durations) : durations[i] <= Bootstrap
      /\ \A d \in RefCcds : Counted(d)
      /\ IsFiniteSet(CcdsIn("running")) /\ Cardinality(CcdsIn("running")) <= Downloaders
  BY DEF DownloadsIInv, DownloadsTypeOK
<1>3. /\ Shortest(limit) \in Nat /\ Longest(limit) \in Nat /\ Bootstrap \in Nat
      /\ attemptOf[c] \in Nat /\ attemptOf[c] <= Attempts /\ Attempts \in Nat
      /\ ticks[c] \in Nat
  BY DownloadFacts
<1>4. /\ ticks[c] <= attemptOf[c] * Longest(limit)
      /\ ticks[c] >= attemptOf[c] * Shortest(limit)
      /\ age[c] <= Longest(limit) /\ ticks[c] <= Attempts * Longest(limit)
      /\ attemptOf[c] >= 1
  BY <1>1, <1>2, WithinAttempts DEF Counted
<1>5. LimitFitsSample'
  BY <1>1, <1>2 DEF LimitFitsSample
<1>6. /\ Shortest(limit') \in Nat /\ Longest(limit') \in Nat
      /\ Shortest(limit') <= Shortest(limit) /\ Longest(limit) <= Longest(limit')
  BY <1>1, <1>3
<1>7. CASE attemptOf[c] >= Attempts
  <2>1. /\ state' = [state EXCEPT ![c] = "timedout"]
        /\ attemptOf' = attemptOf /\ age' = age
    BY <1>7 DEF DownloadTimesOut
  <2>2. /\ IsFiniteSet(CcdsIn("running")') /\ Cardinality(CcdsIn("running")') <= Downloaders
        /\ state' \in [RefCcds -> {"waiting", "running", "done", "failed", "timedout"}]
        /\ state'[c] = "timedout" /\ \A d \in RefCcds \ {c} : state'[d] = state[d]
    BY <1>1, <2>1, OneRunsLess
  <2>3. DownloadsTypeOK'
    BY <1>1, <1>2, <2>1, <2>2 DEF DownloadsTypeOK
  <2>4. attemptOf[c] = Attempts
    BY <1>3, <1>7
  <2>5. Counted(c)'
    BY <1>1, <1>4, <2>1, <2>2, <2>4 DEF Counted
  <2>6. \A d \in RefCcds \ {c} : Counted(d)'
    BY <1>1, <1>6, <2>1, <2>2, CountedStays
  <2> QED
    BY <1>1, <1>2, <1>5, <2>2, <2>3, <2>5, <2>6 DEF DownloadsIInv
<1>8. CASE ~(attemptOf[c] >= Attempts)
  <2>1. /\ attemptOf' = [attemptOf EXCEPT ![c] = attemptOf[c] + 1]
        /\ age' = [age EXCEPT ![c] = 0] /\ state' = state
    BY <1>8 DEF DownloadTimesOut
  <2>2. attemptOf[c] + 1 \in 0..Attempts /\ 0 \in 0..(2 * Bootstrap)
    BY <1>3, <1>8
  <2>3. CcdsIn("running")' = CcdsIn("running")
    BY <2>1 DEF CcdsIn
  <2>4. DownloadsTypeOK'
    BY <1>1, <1>2, <2>1, <2>2, <2>3 DEF DownloadsTypeOK
  <2>5. attemptOf'[c] = attemptOf[c] + 1 /\ age'[c] = 0 /\ state'[c] = "running"
    BY <1>1, <1>2, <2>1 DEF DownloadsTypeOK
  <2>6. Counted(c)'
    <3>1. attemptOf'[c] >= 1 /\ attemptOf'[c] - 1 = attemptOf[c] /\ age'[c] <= Longest(limit)
      BY <1>3, <2>5
    <3>2. /\ attemptOf[c] * Shortest(limit) + 0 = attemptOf[c] * Shortest(limit)
          /\ attemptOf[c] * Longest(limit) + 0 = attemptOf[c] * Longest(limit)
      <4>1. /\ attemptOf[c] * Shortest(limit) \in Nat /\ attemptOf[c] * Longest(limit) \in Nat
        BY <1>3, AttemptProducts
      <4> QED
        BY <4>1
    <3>3. /\ ticks'[c] >= (attemptOf'[c] - 1) * Shortest(limit) + age'[c]
          /\ ticks'[c] <= (attemptOf'[c] - 1) * Longest(limit) + age'[c]
      BY <1>1, <1>4, <2>5, <3>1, <3>2
    <3> QED
      BY <1>1, <1>4, <2>5, <3>1, <3>3 DEF Counted
  <2>7. ASSUME NEW d \in RefCcds \ {c}
        PROVE  Counted(d)'
    <3>1. attemptOf'[d] = attemptOf[d] /\ age'[d] = age[d] /\ state'[d] = state[d]
          /\ ticks'[d] = ticks[d]
      BY <1>1, <1>2, <2>1 DEF DownloadsTypeOK
    <3> QED
      BY <1>6, <3>1, CountedStays
  <2> QED
    BY <1>1, <1>2, <1>5, <2>3, <2>4, <2>6, <2>7 DEF DownloadsIInv
<1> QED
  BY <1>7, <1>8

LEMMA TickStep ==
    ASSUME DownloadsIInv, Tick
    PROVE  DownloadsIInv'
<1>1. /\ state' = state /\ attemptOf' = attemptOf /\ durations' = durations /\ limit' = limit
      /\ age' = [c \in RefCcds |-> IF state[c] = "running" THEN age[c] + 1 ELSE age[c]]
      /\ ticks' = [c \in RefCcds |-> IF state[c] = "running" THEN ticks[c] + 1 ELSE ticks[c]]
      /\ \A c \in RefCcds : state[c] = "running" => age[c] < ActiveTimeout
  BY DEF Tick, CcdsIn
<1>2. /\ DownloadsTypeOK /\ LimitFitsSample /\ limit <= 2 * Bootstrap
      /\ limit = NoLimit => \A i \in 1..Len(durations) : durations[i] <= Bootstrap
      /\ \A d \in RefCcds : Counted(d)
      /\ IsFiniteSet(CcdsIn("running")) /\ Cardinality(CcdsIn("running")) <= Downloaders
  BY DEF DownloadsIInv, DownloadsTypeOK
<1>3. /\ Shortest(limit) \in Nat /\ Longest(limit) \in Nat /\ Bootstrap \in Nat
      /\ ActiveTimeout \in Nat /\ ActiveTimeout <= Longest(limit)
      /\ Longest(limit) <= 2 * Bootstrap
      /\ \A c \in RefCcds : /\ age[c] \in Nat /\ age[c] <= 2 * Bootstrap /\ ticks[c] \in Nat
                            /\ attemptOf[c] \in Nat /\ attemptOf[c] <= Attempts
      /\ Attempts \in Nat
  BY DownloadFacts
<1>4. ASSUME NEW c \in RefCcds, state[c] = "running"
      PROVE  /\ age'[c] = age[c] + 1 /\ ticks'[c] = ticks[c] + 1
             /\ age'[c] <= Longest(limit)
             /\ ticks'[c] >= (attemptOf[c] - 1) * Shortest(limit) + age'[c]
             /\ ticks'[c] <= (attemptOf[c] - 1) * Longest(limit) + age'[c]
             /\ ticks'[c] <= Attempts * Longest(limit)
             /\ attemptOf[c] >= 1
  <2>1. age'[c] = age[c] + 1 /\ ticks'[c] = ticks[c] + 1 /\ age[c] + 1 <= Longest(limit)
    BY <1>1, <1>3, <1>4
  <2>2. /\ attemptOf[c] >= 1
        /\ ticks[c] >= (attemptOf[c] - 1) * Shortest(limit) + age[c]
        /\ ticks[c] <= (attemptOf[c] - 1) * Longest(limit) + age[c]
    BY <1>2, <1>4 DEF Counted
  <2> DEFINE a == (attemptOf[c] - 1) * Shortest(limit)  b == (attemptOf[c] - 1) * Longest(limit)
             e == attemptOf[c] * Longest(limit)  f == Attempts * Longest(limit)
  <2>3. a \in Nat /\ b \in Nat /\ e \in Nat /\ f \in Nat /\ b + Longest(limit) = e /\ e <= f
    <3>1. attemptOf[c] - 1 \in Nat /\ attemptOf[c] \in Int /\ Longest(limit) \in Int
      BY <1>3, <2>2
    <3> QED
      BY <1>3, <3>1, AttemptProducts
  <2>4. ticks[c] >= a + age[c] /\ ticks[c] <= b + age[c]
    BY <2>2
  <2> HIDE DEF a, b, e, f
  <2>5. /\ ticks[c] + 1 >= a + (age[c] + 1) /\ ticks[c] + 1 <= b + (age[c] + 1)
        /\ ticks[c] + 1 <= f
    BY <1>3, <2>1, <2>3, <2>4
  <2> QED
    BY <2>1, <2>2, <2>5 DEF a, b, f
<1>5. DownloadsTypeOK'
  <2>1. \A c \in RefCcds : age'[c] \in 0..(2 * Bootstrap) /\ ticks'[c] \in Nat
    <3> TAKE c \in RefCcds
    <3>1. CASE state[c] = "running"
      BY <1>3, <1>4, <3>1
    <3>2. CASE state[c] # "running"
      BY <1>1, <1>3, <3>2
    <3> QED
      BY <3>1, <3>2
  <2>2. age' \in [RefCcds -> 0..(2 * Bootstrap)] /\ ticks' \in [RefCcds -> Nat]
    BY <1>1, <2>1
  <2>3. CcdsIn("running")' = CcdsIn("running")
    BY <1>1 DEF CcdsIn
  <2> QED
    BY <1>1, <1>2, <2>2, <2>3 DEF DownloadsTypeOK
<1>6. LimitFitsSample' /\ IsFiniteSet(CcdsIn("running")')
  BY <1>1, <1>2 DEF LimitFitsSample, CcdsIn
<1>7. ASSUME NEW c \in RefCcds
      PROVE  Counted(c)'
  <2>1. CASE state[c] = "running"
    BY <1>1, <1>4, <2>1 DEF Counted
  <2>2. CASE state[c] # "running"
    <3>1. age'[c] = age[c] /\ ticks'[c] = ticks[c] /\ state'[c] = state[c]
          /\ attemptOf'[c] = attemptOf[c] /\ limit' = limit
      BY <1>1, <2>2
    <3>2. Counted(c)
      BY <1>2
    <3> QED
      BY <3>1, <3>2 DEF Counted
  <2> QED
    BY <2>1, <2>2
<1> QED
  BY <1>1, <1>2, <1>5, <1>6, <1>7 DEF DownloadsIInv

\* The timeouts keep what the module promises, for any CCDs, threads, slots, attempts and
\* timeout before the limit.
THEOREM TimeoutsAreFair == DownloadsSpec => []DownloadsInv
<1>1. DownloadsInit => DownloadsIInv
  BY DownloadsInitIInv
<1>2. DownloadsIInv /\ [DownloadsNext]_downloadsVars => DownloadsIInv'
  <2> SUFFICES ASSUME DownloadsIInv, [DownloadsNext]_downloadsVars
               PROVE  DownloadsIInv'
    OBVIOUS
  <2>1. CASE UNCHANGED downloadsVars
    BY <2>1 DEF downloadsVars, DownloadsIInv, DownloadsTypeOK, LimitFitsSample, Counted, CcdsIn
  <2> QED
    BY <2>1, TickStep, StartStep, EndStep, TimeOutStep DEF DownloadsNext
<1>3. DownloadsIInv => DownloadsInv
  BY DEF DownloadsIInv, DownloadsInv, TwoWholeAttempts, Counted
<1> QED
  BY <1>1, <1>2, <1>3, PTL DEF DownloadsSpec
=============================================================================
