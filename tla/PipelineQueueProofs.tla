------------------------ MODULE PipelineQueueProofs ------------------------
(***************************************************************************)
(* Proofs about PipelineQueue for every number of stages, tasks and        *)
(* visits, every capacity and every choice of the stages that are bounded, *)
(* prioritised and checked.                                                *)
(***************************************************************************)
EXTENDS PipelineQueue, SequenceTheorems, FiniteSetTheorems, WellFoundedInduction, TLAPS

-----------------------------------------------------------------------------
(* Sequences and numbers. *)

\* What the removal of a place leaves of a sequence.
LEMMA RemoveAtProperties ==
    ASSUME NEW S, NEW q \in Seq(S), NEW i \in 1..Len(q)
    PROVE  /\ RemoveAt(q, i) \in Seq(S)
           /\ Len(RemoveAt(q, i)) = Len(q) - 1
           /\ \A j \in 1..(Len(q) - 1) :
                 RemoveAt(q, i)[j] = IF j < i THEN q[j] ELSE q[j + 1]
<1> DEFINE a == SubSeq(q, 1, i - 1)  b == SubSeq(q, i + 1, Len(q))
<1>1. Len(q) \in Nat /\ \A j \in 1..Len(q) : q[j] \in S
  BY LenProperties, ElementOfSeq
<1>2. /\ a \in Seq(S) /\ Len(a) = i - 1
      /\ \A j \in 1..(i - 1) : a[j] = q[j]
  <2>1. \A j \in 1..(i - 1) : q[j] \in S
    BY <1>1
  <2>2. /\ a \in Seq(S)
        /\ Len(a) = IF 1 <= i - 1 THEN i - 1 - 1 + 1 ELSE 0
        /\ \A j \in 1..(i - 1 - 1 + 1) : a[j] = q[1 + j - 1]
    BY <2>1, <1>1, SubSeqProperties, 1 \in Int, i - 1 \in Int
  <2> HIDE DEF a
  <2> QED
    BY <2>2, <1>1
<1>3. /\ b \in Seq(S) /\ Len(b) = Len(q) - i
      /\ \A j \in 1..(Len(q) - i) : b[j] = q[i + j]
  <2>1. \A j \in (i + 1)..Len(q) : q[j] \in S
    BY <1>1
  <2>2. /\ b \in Seq(S)
        /\ Len(b) = IF i + 1 <= Len(q) THEN Len(q) - (i + 1) + 1 ELSE 0
        /\ \A j \in 1..(Len(q) - (i + 1) + 1) : b[j] = q[i + 1 + j - 1]
    BY <2>1, <1>1, SubSeqProperties, i + 1 \in Int, Len(q) \in Int
  <2> HIDE DEF b
  <2> QED
    BY <2>2, <1>1
<1>4. /\ a \o b \in Seq(S)
      /\ Len(a \o b) = Len(a) + Len(b)
      /\ \A j \in 1..(Len(a) + Len(b)) :
            (a \o b)[j] = IF j <= Len(a) THEN a[j] ELSE b[j - Len(a)]
  BY <1>2, <1>3, ConcatProperties
<1>5. RemoveAt(q, i) = a \o b
  BY DEF RemoveAt
<1> HIDE DEF a, b
<1>6. Len(a) + Len(b) = Len(q) - 1
  BY <1>1, <1>2, <1>3
<1>7. ASSUME NEW j \in 1..(Len(q) - 1)
      PROVE  (a \o b)[j] = IF j < i THEN q[j] ELSE q[j + 1]
  <2>1. CASE j < i
    BY <2>1, <1>1, <1>2, <1>4, <1>6
  <2>2. CASE ~(j < i)
    <3>1. j - (i - 1) \in 1..(Len(q) - i) /\ i + (j - (i - 1)) = j + 1
      BY <2>2, <1>1
    <3>2. b[j - (i - 1)] = q[j + 1]
      BY <3>1, <1>3
    <3> QED
      BY <2>2, <3>2, <1>1, <1>2, <1>4, <1>6
  <2> QED
    BY <2>1, <2>2
<1> QED
  BY <1>4, <1>5, <1>6, <1>7

\* A set of natural numbers that is not empty has a least one.
LEMMA LeastElement ==
    ASSUME NEW T, T \subseteq Nat, T # {}
    PROVE  \E x \in T : \A y \in T : x <= y
<1> DEFINE R == {ss \in Nat \X Nat : ss[1] < ss[2]}
<1>1. IsWellFoundedOn(R, Nat)
  BY NatLessThanWellFounded, Zenon DEF OpToRel
<1> HIDE DEF R
<1>2. PICK x \in T : \A y \in T : <<y, x>> \notin R
  BY <1>1, WFMin
<1>3. \A y \in T : ~(y < x)
  BY <1>2 DEF R
<1> QED
  BY <1>3

-----------------------------------------------------------------------------
(* The inductive invariant. *)

\* The jobs in the buffers f, and that none is in them twice.
QueuedIn(f) == {v \in Visits : \E s \in Stages : \E i \in 1..Len(f[s]) : f[s][i] = v}
ApartIn(f) ==
    \A s, r \in Stages : \A i \in 1..Len(f[s]), j \in 1..Len(f[r]) :
        f[s][i] = f[r][j] => s = r /\ i = j

\* A job that is queued or held is in the dictionary, has not raised, and is
\* nowhere else.
Places ==
    /\ ApartIn(items)
    /\ QueuedIn(items) \subseteq jobs \ failed
    /\ \A t \in Tasks : held[t] # NoVisit => held[t] \in (jobs \ failed) \ QueuedIn(items)
    /\ \A t, u \in Tasks : held[t] # NoVisit /\ held[t] = held[u] => t = u

\* And every job of the dictionary that has not raised is somewhere.
InPlace == \A v \in jobs \ failed : v \in QueuedIn(items) \/ \E t \in Tasks : held[t] = v

\* What makes the choice of a prioritised buffer possible.
UsersBounded == \A v \in Visits : users[v] <= 1 + events

\* Only the tasks of the stages before the last hand a job on.
Pushing == \A t \in Tasks : pc[t] \in {"push", "blocked"} => StageOf(t) < NumStages

IInv == QueueInv /\ Places /\ InPlace /\ UsersBounded /\ Pushing

LEMMA TaskStages == \A t \in Tasks : StageOf(t) \in Stages
BY DEF Tasks, StageOf

LEMMA StageBounds ==
    /\ Stages \subseteq Nat /\ 1 \in Stages
    /\ \A s \in Stages : s < NumStages => s + 1 \in Stages
    /\ \A s \in Bounded : s \in Stages /\ s # 1
BY StagesAssumption DEF Stages

\* A prioritised buffer that is not empty has a job that none precedes.
LEMMA PickedInDomain ==
    ASSUME TypeOK, UsersBounded, NEW s \in Stages, items[s] # <<>>
    PROVE  Picked(s) \in 1..Len(items[s])
<1> DEFINE q == items[s]
<1>1. /\ q \in Seq(Visits) /\ Len(q) \in Nat /\ Len(q) # 0 /\ DOMAIN q = 1..Len(q)
      /\ \A j \in 1..Len(q) : q[j] \in Visits
  <2>1. q \in Seq(Visits) /\ q # <<>>
    BY DEF TypeOK
  <2> HIDE DEF q
  <2> QED
    BY <2>1, EmptySeq, LenProperties, ElementOfSeq
<1>2. CASE s \notin Prioritised
  BY <1>1, <1>2 DEF Picked
<1>3. CASE s \in Prioritised
  <2> DEFINE lack(j) == (1 + events) - users[q[j]]
             Lacks == {lack(j) : j \in 1..Len(q)}
  <2>1. \A j \in 1..Len(q) : lack(j) \in Nat /\ seq[q[j]] \in Nat /\ users[q[j]] \in Nat
    BY <1>1, StagesAssumption DEF TypeOK, UsersBounded
  <2>2. PICK i \in 1..Len(q) : \A j \in 1..Len(q) : lack(i) <= lack(j)
    <3>1. Lacks \subseteq Nat
      BY <2>1
    <3>2. lack(1) \in Lacks
      BY <1>1
    <3>3. PICK x \in Lacks : \A y \in Lacks : x <= y
      <4> HIDE DEF Lacks
      <4> QED
        BY <3>1, <3>2, LeastElement
    <3> QED
      BY <3>3
  <2> DEFINE Best == {j \in 1..Len(q) : lack(j) = lack(i)}
             Ages == {seq[q[j]] : j \in Best}
  <2>3. PICK k \in Best : \A j \in Best : seq[q[k]] <= seq[q[j]]
    <3>1. Ages \subseteq Nat
      BY <2>1
    <3>2. seq[q[i]] \in Ages
      OBVIOUS
    <3>3. PICK x \in Ages : \A y \in Ages : x <= y
      <4> HIDE DEF Ages
      <4> QED
        BY <3>1, <3>2, LeastElement
    <3> QED
      BY <3>3
  <2>4. ASSUME NEW j \in 1..Len(q)
        PROVE  ~Precedes(q[j], q[k])
    <3>1. /\ users[q[j]] \in Nat /\ users[q[k]] \in Nat
          /\ seq[q[j]] \in Nat /\ seq[q[k]] \in Nat /\ events \in Nat
      <4>1. k \in 1..Len(q) /\ events \in Nat
        BY <2>3, StagesAssumption DEF TypeOK
      <4> QED
        BY <2>1, <4>1
    <3>2. users[q[j]] <= users[q[k]]
      <4>1. lack(k) = lack(i) /\ lack(i) <= lack(j)
        BY <2>2, <2>3
      <4> QED
        BY <3>1, <4>1
    <3>3. users[q[j]] = users[q[k]] => seq[q[k]] <= seq[q[j]]
      <4>1. users[q[j]] = users[q[k]] => j \in Best
        BY <2>3
      <4> QED
        BY <2>3, <4>1
    <3> HIDE DEF q
    <3> QED
      BY <3>1, <3>2, <3>3 DEF Precedes
  <2>5. \E n \in DOMAIN q : \A j \in DOMAIN q : ~Precedes(q[j], q[n])
    BY <1>1, <2>4
  <2>6. Picked(s) = CHOOSE n \in DOMAIN q : \A j \in DOMAIN q : ~Precedes(q[j], q[n])
    BY <1>3 DEF Picked
  <2>7. Picked(s) \in DOMAIN q
    <3> HIDE DEF q
    <3> QED
      BY <2>5, <2>6
  <2> QED
    BY <1>1, <2>7
<1> QED
  BY <1>2, <1>3

-----------------------------------------------------------------------------
(* What an item that comes or goes does to the buffers. *)

Buffers == [Stages -> Seq(Visits)]

LEMMA BufferType ==
    ASSUME NEW f \in Buffers, NEW s \in Stages
    PROVE  /\ f[s] \in Seq(Visits) /\ Len(f[s]) \in Nat
           /\ \A i \in 1..Len(f[s]) : f[s][i] \in Visits
<1>1. f[s] \in Seq(Visits)
  BY DEF Buffers
<1> QED
  BY <1>1, LenProperties, ElementOfSeq

LEMMA AppendToBuffer ==
    ASSUME NEW f \in Buffers, ApartIn(f), NEW s \in Stages,
           NEW v \in Visits \ QueuedIn(f)
    PROVE  LET g == [f EXCEPT ![s] = Append(f[s], v)] IN
           /\ g \in Buffers /\ ApartIn(g)
           /\ QueuedIn(g) = QueuedIn(f) \union {v}
           /\ Len(g[s]) = Len(f[s]) + 1
           /\ \A r \in Stages \ {s} : g[r] = f[r]
<1> DEFINE q == Append(f[s], v)
           g == [f EXCEPT ![s] = Append(f[s], v)]
<1>1. /\ q \in Seq(Visits) /\ Len(q) = Len(f[s]) + 1 /\ Len(f[s]) \in Nat
      /\ \A i \in 1..Len(f[s]) : q[i] = f[s][i]
      /\ q[Len(f[s]) + 1] = v
  BY BufferType, AppendProperties
<1> HIDE DEF q
<1>2. g = [f EXCEPT ![s] = q]
  BY DEF q
<1> HIDE DEF g
<1>3. g \in Buffers /\ g[s] = q /\ \A r \in Stages \ {s} : g[r] = f[r]
  BY <1>1, <1>2 DEF Buffers
<1>4. ASSUME NEW r \in Stages, NEW i \in 1..Len(g[r])
      PROVE  \/ i \in 1..Len(f[r]) /\ g[r][i] = f[r][i]
             \/ r = s /\ i = Len(f[s]) + 1 /\ g[r][i] = v
  BY <1>1, <1>3
<1>5. \A r \in Stages : \A i \in 1..Len(f[r]) : f[r][i] # v
  BY DEF QueuedIn
<1>6. ApartIn(g)
  BY <1>4, <1>5 DEF ApartIn
<1>7. ASSUME NEW r \in Stages, NEW i \in 1..Len(f[r])
      PROVE  i \in 1..Len(g[r]) /\ g[r][i] = f[r][i]
  BY <1>1, <1>3
<1>8. Len(f[s]) + 1 \in 1..Len(g[s]) /\ g[s][Len(f[s]) + 1] = v
  BY <1>1, <1>3
<1>9. QueuedIn(g) = QueuedIn(f) \union {v}
  BY <1>4, <1>7, <1>8 DEF QueuedIn
<1> QED
  BY <1>1, <1>3, <1>6, <1>9 DEF g

LEMMA RemoveFromBuffer ==
    ASSUME NEW f \in Buffers, ApartIn(f), NEW s \in Stages,
           NEW k \in 1..Len(f[s])
    PROVE  LET g == [f EXCEPT ![s] = RemoveAt(f[s], k)] IN
           /\ g \in Buffers /\ ApartIn(g)
           /\ f[s][k] \in QueuedIn(f)
           /\ \A v : v \in QueuedIn(g) <=> v \in QueuedIn(f) \ {f[s][k]}
           /\ Len(g[s]) = Len(f[s]) - 1
           /\ \A r \in Stages \ {s} : g[r] = f[r]
<1> DEFINE q == RemoveAt(f[s], k)
           g == [f EXCEPT ![s] = RemoveAt(f[s], k)]
           old(r, i) == IF r = s /\ i >= k THEN i + 1 ELSE i
<1>1. /\ q \in Seq(Visits) /\ Len(q) = Len(f[s]) - 1 /\ Len(f[s]) \in Nat
      /\ \A j \in 1..(Len(f[s]) - 1) :
            q[j] = IF j < k THEN f[s][j] ELSE f[s][j + 1]
  BY BufferType, RemoveAtProperties
<1> HIDE DEF q
<1>2. g = [f EXCEPT ![s] = q]
  BY DEF q
<1> HIDE DEF g
<1>3. g \in Buffers /\ g[s] = q /\ \A r \in Stages \ {s} : g[r] = f[r]
  BY <1>1, <1>2 DEF Buffers
<1>4. ASSUME NEW r \in Stages, NEW i \in 1..Len(g[r])
      PROVE  /\ old(r, i) \in 1..Len(f[r])
             /\ g[r][i] = f[r][old(r, i)]
             /\ r = s => old(r, i) # k
  <2>1. CASE r = s
    BY <1>1, <1>3, <2>1
  <2>2. CASE r # s
    BY <1>3, <2>2
  <2> QED
    BY <2>1, <2>2
<1>5. ApartIn(g)
  <2>1. SUFFICES ASSUME NEW r \in Stages, NEW u \in Stages,
                        NEW i \in 1..Len(g[r]), NEW j \in 1..Len(g[u]),
                        g[r][i] = g[u][j]
                 PROVE  r = u /\ i = j
    BY DEF ApartIn
  <2>2. /\ g[r][i] = f[r][old(r, i)] /\ old(r, i) \in 1..Len(f[r])
        /\ g[u][j] = f[u][old(u, j)] /\ old(u, j) \in 1..Len(f[u])
    BY <1>4
  <2>3. r = u /\ old(r, i) = old(u, j)
    <3>1. f[r][old(r, i)] = f[u][old(u, j)]
      BY <2>1, <2>2
    <3> HIDE DEF old
    <3> QED
      BY <2>2, <3>1 DEF ApartIn
  <2>4. i \in Int /\ j \in Int /\ k \in Int
    BY BufferType, <1>3
  <2> QED
    BY <2>3, <2>4
<1>6. f[s][k] \in QueuedIn(f)
  BY BufferType DEF QueuedIn
<1>7. QueuedIn(g) \subseteq QueuedIn(f) \ {f[s][k]}
  <2>1. ASSUME NEW v \in Visits, NEW r \in Stages, NEW i \in 1..Len(g[r]), g[r][i] = v
        PROVE  v \in QueuedIn(f) /\ v # f[s][k]
    <3>1. f[r][old(r, i)] = v /\ old(r, i) \in 1..Len(f[r]) /\ (r = s => old(r, i) # k)
      BY <1>4, <2>1
    <3>2. v \in QueuedIn(f)
      BY <3>1 DEF QueuedIn
    <3>3. ASSUME v = f[s][k]
          PROVE  FALSE
      <4> HIDE DEF old
      <4>1. r = s /\ old(r, i) = k
        BY <3>1, <3>3 DEF ApartIn
      <4> QED
        BY <3>1, <4>1
    <3> QED
      BY <3>2, <3>3
  <2> QED
    BY <2>1 DEF QueuedIn
<1>8. ASSUME NEW v \in QueuedIn(f), v # f[s][k]
      PROVE  v \in QueuedIn(g)
  <2>1. PICK r \in Stages : \E i \in 1..Len(f[r]) : f[r][i] = v
    BY DEF QueuedIn
  <2>2. PICK i \in 1..Len(f[r]) : f[r][i] = v
    BY <2>1
  <2>3. v \in Visits
    BY DEF QueuedIn
  <2> DEFINE new == IF r = s /\ i > k THEN i - 1 ELSE i
  <2>4. new \in 1..Len(g[r]) /\ g[r][new] = v
    <3>1. CASE r # s
      BY <1>3, <2>2, <3>1
    <3>2. CASE r = s
      <4>1. i # k /\ g[r] = q /\ i \in 1..Len(f[s]) /\ f[s][i] = v
        BY <1>3, <1>8, <2>2, <3>2
      <4>2. CASE i < k
        <5>1. new = i /\ i \in 1..(Len(f[s]) - 1)
          BY <1>1, <4>1, <4>2
        <5> QED
          BY <1>1, <4>1, <4>2, <5>1
      <4>3. CASE i > k
        <5>1. new = i - 1 /\ i - 1 \in 1..(Len(f[s]) - 1) /\ ~(i - 1 < k)
          BY <1>1, <3>2, <4>1, <4>3
        <5>2. q[i - 1] = f[s][(i - 1) + 1] /\ (i - 1) + 1 = i
          BY <1>1, <5>1
        <5> QED
          BY <1>1, <4>1, <5>1, <5>2
      <4> QED
        BY <4>1, <4>2, <4>3
    <3> QED
      BY <3>1, <3>2
  <2> HIDE DEF new
  <2> QED
    BY <2>3, <2>4 DEF QueuedIn
<1>9. \A v : v \in QueuedIn(g) <=> v \in QueuedIn(f) \ {f[s][k]}
  BY <1>7, <1>8
<1> QED
  BY <1>1, <1>3, <1>5, <1>6, <1>9 DEF g

-----------------------------------------------------------------------------
(* The two halves of a buffer's contract. *)

\* push(): the buffer keeps its bound and its event stays the truth about it.
LEMMA PutFacts ==
    ASSUME TypeOK, BufferBounded, NobodyWaitsInVain, ApartIn(items),
           NEW s \in Stages, ~Full(s),
           NEW v \in Visits \ QueuedIn(items), Put(s, v)
    PROVE  /\ items' \in [Stages -> Seq(Visits)]
           /\ ev' \in [Stages -> BOOLEAN] /\ notFull' \in [Stages -> BOOLEAN]
           /\ ApartIn(items') /\ QueuedIn(items') = QueuedIn(items) \union {v}
           /\ BufferBounded'
           /\ \A r \in Stages : Full(r)' <=> ~notFull'[r]
           /\ \A r \in Stages \ {s} : items'[r] = items[r]
<1> DEFINE q == Append(items[s], v)
<1>1. items \in Buffers /\ items' = [items EXCEPT ![s] = q]
  BY DEF TypeOK, Buffers, Put
<1>2. /\ items' \in Buffers /\ ApartIn(items')
      /\ QueuedIn(items') = QueuedIn(items) \union {v}
      /\ Len(items'[s]) = Len(items[s]) + 1
      /\ \A r \in Stages \ {s} : items'[r] = items[r]
  <2>1. /\ items' \in Buffers /\ ApartIn(items')
        /\ Len(items'[s]) = Len(items[s]) + 1
    BY <1>1, AppendToBuffer
  <2>2. QueuedIn(items') = QueuedIn(items) \union {v}
    BY <1>1, AppendToBuffer, Zenon
  <2>3. \A r \in Stages \ {s} : items'[r] = items[r]
    BY <1>1 DEF Buffers
  <2> QED
    BY <2>1, <2>2, <2>3
<1>3. Len(items[s]) \in Nat
  BY <1>1, BufferType
<1>4. items'[s] = q
  BY <1>1 DEF Buffers
<1>5. /\ ev' = [ev EXCEPT ![s] = TRUE]
      /\ notFull' = [notFull EXCEPT ![s] = @ /\ ~FullWith(s, q)]
  BY DEF Put
<1> HIDE DEF q
<1>6. ev' \in [Stages -> BOOLEAN] /\ notFull' \in [Stages -> BOOLEAN]
  BY <1>5 DEF TypeOK, FullWith
<1>7. BufferBounded'
  <2>1. ASSUME NEW r \in Bounded
        PROVE  Len(items'[r]) <= Capacity
    <3>1. r \in Stages /\ Capacity \in Nat
      BY StagesAssumption
    <3>2. CASE r = s
      BY <1>2, <1>3, <3>1, <3>2 DEF Full, FullWith
    <3>3. CASE r # s
      BY <1>2, <3>1, <3>3 DEF BufferBounded
    <3> QED
      BY <3>2, <3>3
  <2> QED
    BY <2>1 DEF BufferBounded
<1>8. ASSUME NEW r \in Stages
      PROVE  Full(r)' <=> ~notFull'[r]
  <2>1. Full(r)' <=> FullWith(r, items'[r])
    BY DEF Full, FullWith
  <2>2. CASE r = s
    <3>1. notFull[s] = TRUE
      BY DEF NobodyWaitsInVain, TypeOK
    <3>2. notFull'[s] = ~FullWith(s, q)
      BY <1>5, <3>1 DEF TypeOK
    <3> QED
      BY <1>4, <2>1, <2>2, <3>2
  <2>3. CASE r # s
    <3>1. items'[r] = items[r] /\ notFull'[r] = notFull[r]
      BY <1>2, <1>5, <2>3 DEF TypeOK
    <3> QED
      BY <2>1, <3>1 DEF NobodyWaitsInVain, Full
  <2> QED
    BY <2>2, <2>3
<1> QED
  BY <1>2, <1>6, <1>7, <1>8 DEF Buffers

\* get(): a job leaves the buffer, and nobody who waited for room is forgotten.
LEMMA TakeFacts ==
    ASSUME IInv, NEW t \in Tasks, pc[t] = "get", items[StageOf(t)] # <<>>,
           Take(StageOf(t), t)
    PROVE  LET s == StageOf(t)
               v == items[s][Picked(s)]
               wanted == s \in Checked => users[v] > 0
           IN
           /\ s \in Stages /\ v \in QueuedIn(items)
           /\ items' \in [Stages -> Seq(Visits)]
           /\ ev' \in [Stages -> BOOLEAN] /\ notFull' \in [Stages -> BOOLEAN]
           /\ ApartIn(items') /\ QueuedIn(items') = QueuedIn(items) \ {v}
           /\ pc' \in [Tasks -> {"get", "idle", "work", "push", "blocked"}]
           /\ pc'[t] = IF wanted THEN "work" ELSE "get"
           /\ \A x \in Tasks \ {t} : \/ pc'[x] = pc[x]
                                     \/ pc[x] = "blocked" /\ pc'[x] = "push"
           /\ BufferBounded' /\ NobodyWaitsInVain'
<1> DEFINE s == StageOf(t)
           v == items[s][Picked(s)]
           q == RemoveAt(items[s], Picked(s))
           wanted == s \in Checked => users[v] > 0
           roomNow == Full(s) /\ ~FullWith(s, q)
<1>1. s \in Stages /\ TypeOK /\ BufferBounded /\ NobodyWaitsInVain /\ ApartIn(items)
  BY TaskStages DEF IInv, QueueInv, Places
<1>2. Picked(s) \in 1..Len(items[s])
  BY <1>1, PickedInDomain DEF IInv
<1>3. /\ items' = [items EXCEPT ![s] = q]
      /\ ev' = [ev EXCEPT ![s] = @ /\ q # <<>>]
      /\ notFull' = [notFull EXCEPT ![s] = @ \/ roomNow]
      /\ pc' = [x \in Tasks |->
                   IF x = t THEN IF wanted THEN "work" ELSE "get"
                   ELSE IF roomNow /\ x \in Blocked(s) THEN "push" ELSE pc[x]]
  BY DEF Take
<1>4. items \in Buffers
  BY <1>1 DEF TypeOK, Buffers
<1>5. /\ items' \in Buffers /\ ApartIn(items')
      /\ v \in QueuedIn(items)
      /\ QueuedIn(items') = QueuedIn(items) \ {v}
      /\ Len(items'[s]) = Len(items[s]) - 1
      /\ \A r \in Stages \ {s} : items'[r] = items[r]
  <2> DEFINE k == Picked(s)
  <2>1. k \in 1..Len(items[s]) /\ items' = [items EXCEPT ![s] = RemoveAt(items[s], k)]
    BY <1>2, <1>3
  <2> HIDE DEF k, s
  <2>2. items' \in Buffers
    BY <1>1, <1>4, <2>1, RemoveFromBuffer
  <2>3. ApartIn(items')
    BY <1>1, <1>4, <2>1, RemoveFromBuffer
  <2>4. items[s][k] \in QueuedIn(items) /\ Len(items'[s]) = Len(items[s]) - 1
    BY <1>1, <1>4, <2>1, RemoveFromBuffer
  <2>5. QueuedIn(items') = QueuedIn(items) \ {items[s][k]}
    BY <1>1, <1>4, <2>1, RemoveFromBuffer
  <2>6. \A r \in Stages \ {s} : items'[r] = items[r]
    BY <1>4, <2>1 DEF Buffers
  <2> QED
    BY <2>2, <2>3, <2>4, <2>5, <2>6 DEF k
<1>6. items'[s] = q /\ Len(items[s]) \in Nat
  BY <1>1, <1>3, <1>4, BufferType DEF Buffers
<1> HIDE DEF s, v, q
<1>7. ev' \in [Stages -> BOOLEAN] /\ notFull' \in [Stages -> BOOLEAN]
  BY <1>1, <1>3 DEF TypeOK, Full, FullWith
<1>8. /\ pc' \in [Tasks -> {"get", "idle", "work", "push", "blocked"}]
      /\ pc'[t] = IF wanted THEN "work" ELSE "get"
      /\ \A x \in Tasks \ {t} : \/ pc'[x] = pc[x]
                                \/ pc[x] = "blocked" /\ pc'[x] = "push"
  <2> HIDE DEF wanted, roomNow
  <2>1. pc \in [Tasks -> {"get", "idle", "work", "push", "blocked"}]
    BY <1>1 DEF TypeOK
  <2>2. \A x \in Blocked(s) : pc[x] = "blocked"
    BY DEF Blocked
  <2> QED
    BY <1>3, <2>1, <2>2
<1>9. BufferBounded'
  <2>1. ASSUME NEW r \in Bounded
        PROVE  Len(items'[r]) <= Capacity
    <3>1. r \in Stages /\ Capacity \in Nat /\ Len(items[r]) <= Capacity
      BY <1>1, StagesAssumption DEF BufferBounded
    <3>2. CASE r = s
      BY <1>5, <1>6, <3>1, <3>2
    <3>3. CASE r # s
      BY <1>5, <3>1, <3>3
    <3> QED
      BY <3>2, <3>3
  <2> QED
    BY <2>1 DEF BufferBounded
<1>10. \A r \in Stages : Full(r)' <=> FullWith(r, items'[r])
  BY DEF Full, FullWith
<1>11. FullWith(s, q) => Full(s)
  BY <1>5, <1>6, StagesAssumption DEF Full, FullWith
<1>12. ASSUME NEW r \in Stages
       PROVE  Full(r)' <=> ~notFull'[r]
  <2>1. CASE r = s
    <3>1. notFull'[s] = (notFull[s] \/ roomNow)
      BY <1>1, <1>3 DEF TypeOK
    <3>2. Full(s) <=> ~notFull[s]
      BY <1>1 DEF NobodyWaitsInVain
    <3> QED
      BY <1>6, <1>10, <1>11, <2>1, <3>1, <3>2
  <2>2. CASE r # s
    <3>1. items'[r] = items[r] /\ notFull'[r] = notFull[r]
      BY <1>1, <1>3, <1>5, <2>2 DEF TypeOK
    <3> QED
      BY <1>1, <1>10, <3>1 DEF NobodyWaitsInVain, Full
  <2> QED
    BY <2>1, <2>2
<1>13. ASSUME NEW x \in Tasks, pc'[x] = "idle"
       PROVE  items'[StageOf(x)] = <<>>
  <2>1. x # t /\ pc[x] = "idle"
    BY <1>8, <1>13
  <2>2. items[StageOf(x)] = <<>>
    BY <1>1, <2>1 DEF NobodyWaitsInVain
  <2>3. StageOf(x) \in Stages /\ StageOf(x) # s
    BY <2>2, TaskStages DEF s
  <2> QED
    BY <1>5, <2>2, <2>3
<1>14. ASSUME NEW x \in Tasks, pc'[x] = "blocked"
       PROVE  Full(StageOf(x) + 1)'
  <2>1. x # t /\ pc[x] = "blocked" /\ ~(roomNow /\ x \in Blocked(s))
    BY <1>3, <1>8, <1>14
  <2>2. Full(StageOf(x) + 1)
    BY <1>1, <2>1 DEF NobodyWaitsInVain
  <2>3. StageOf(x) + 1 \in Stages
    BY <2>2, StagesAssumption DEF Full, FullWith
  <2>4. CASE StageOf(x) + 1 = s
    <3>1. x \in Blocked(s)
      BY <2>1, <2>4 DEF Blocked
    <3> QED
      BY <1>1, <1>6, <1>10, <2>1, <2>2, <2>4, <3>1
  <2>5. CASE StageOf(x) + 1 # s
    BY <1>5, <1>10, <2>2, <2>3, <2>5 DEF Full
  <2> QED
    BY <2>4, <2>5
<1>15. NobodyWaitsInVain'
  BY <1>12, <1>13, <1>14 DEF NobodyWaitsInVain
<1> QED
  BY <1>1, <1>5, <1>7, <1>8, <1>9, <1>15 DEF Buffers, s, v

\* A step that touches no buffer and lets nobody wait disturbs neither.
LEMMA BuffersUntouched ==
    ASSUME BufferBounded, NobodyWaitsInVain, UNCHANGED <<items, notFull>>,
           \A t \in Tasks : pc'[t] \in {"idle", "blocked"} => pc'[t] = pc[t]
    PROVE  BufferBounded' /\ NobodyWaitsInVain'
<1>1. \A s : Full(s)' <=> Full(s)
  BY DEF Full, FullWith
<1>2. \A s \in Bounded : Len(items'[s]) <= Capacity
  BY DEF BufferBounded
<1>3. \A t \in Tasks : pc'[t] = "idle" => items'[StageOf(t)] = <<>>
  BY DEF NobodyWaitsInVain
<1>4. \A t \in Tasks : pc'[t] = "blocked" => Full(StageOf(t) + 1)'
  BY <1>1 DEF NobodyWaitsInVain
<1>5. \A s \in Stages : Full(s)' <=> ~notFull'[s]
  BY <1>1 DEF NobodyWaitsInVain
<1> QED
  BY <1>2, <1>3, <1>4, <1>5 DEF BufferBounded, NobodyWaitsInVain

-----------------------------------------------------------------------------
(* The steps. *)

LEMMA InitIInv == Init => IInv
<1> SUFFICES ASSUME Init PROVE IInv
  OBVIOUS
<1> USE DEF Init
<1>1. \A s \in Stages : items[s] = <<>> /\ Len(items[s]) = 0
  BY EmptySeq
<1>2. items \in [Stages -> Seq(Visits)]
  BY EmptySeq
<1>3. TypeOK
  BY <1>2, StagesAssumption DEF TypeOK
<1>4. BufferBounded
  BY <1>1, StagesAssumption DEF BufferBounded
<1>5. NobodyWaitsInVain
  BY <1>1, StagesAssumption DEF NobodyWaitsInVain, Full, FullWith
<1>6. Places /\ InPlace
  BY <1>1 DEF Places, InPlace, ApartIn, QueuedIn
<1>7. UsersBounded /\ Pushing
  BY DEF UsersBounded, Pushing
<1> QED
  BY <1>3, <1>4, <1>5, <1>6, <1>7 DEF IInv, QueueInv

LEMMA GetNothingStep ==
    ASSUME IInv, NEW t \in Tasks, GetNothing(t)
    PROVE  IInv'
<1> USE DEF IInv, QueueInv, GetNothing, jobVars
<1>1. StageOf(t) \in Stages
  BY TaskStages
<1>2. TypeOK'
  BY <1>1 DEF TypeOK
<1>3. \A s : Full(s)' <=> Full(s)
  BY DEF Full, FullWith
<1>4. BufferBounded'
  BY DEF BufferBounded
<1>5. NobodyWaitsInVain'
  <2>1. ASSUME NEW x \in Tasks
        PROVE  /\ pc'[x] = "idle" => items'[StageOf(x)] = <<>>
               /\ pc'[x] = "blocked" => Full(StageOf(x) + 1)'
    BY <1>3 DEF TypeOK, NobodyWaitsInVain
  <2>2. \A s \in Stages : Full(s)' <=> ~notFull'[s]
    BY <1>3 DEF NobodyWaitsInVain
  <2> QED
    BY <2>1, <2>2 DEF NobodyWaitsInVain
<1>6. Places' /\ InPlace'
  BY DEF Places, InPlace
<1>7. UsersBounded' /\ Pushing'
  BY DEF UsersBounded, Pushing, TypeOK
<1> QED
  BY <1>2, <1>4, <1>5, <1>6, <1>7

\* In a job that leaves a buffer.
LEMMA GetStep ==
    ASSUME IInv, NEW t \in Tasks, Get(t)
    PROVE  IInv'
<1> DEFINE s == StageOf(t)
           v == items[s][Picked(s)]
           wanted == s \in Checked => users[v] > 0
<1>1. /\ pc[t] = "get" /\ items[s] # <<>> /\ Take(s, t) /\ wanted
      /\ held' = [held EXCEPT ![t] = v]
      /\ UNCHANGED <<jobs, users, seq, created, failed, ready, events>>
  BY DEF Get, jobVars
<1>2. /\ s \in Stages /\ v \in QueuedIn(items)
      /\ items' \in [Stages -> Seq(Visits)]
      /\ ev' \in [Stages -> BOOLEAN] /\ notFull' \in [Stages -> BOOLEAN]
      /\ ApartIn(items') /\ QueuedIn(items') = QueuedIn(items) \ {v}
      /\ pc' \in [Tasks -> {"get", "idle", "work", "push", "blocked"}]
      /\ pc'[t] = IF wanted THEN "work" ELSE "get"
      /\ \A x \in Tasks \ {t} : \/ pc'[x] = pc[x]
                                \/ pc[x] = "blocked" /\ pc'[x] = "push"
      /\ BufferBounded' /\ NobodyWaitsInVain'
  BY <1>1, TakeFacts
<1> HIDE DEF s, v, wanted
<1>3. v \in Visits /\ v # NoVisit /\ v \in jobs \ failed
  BY <1>2, StagesAssumption DEF QueuedIn, IInv, Places
<1>4. TypeOK /\ Places /\ Pushing /\ held[t] = NoVisit
  BY <1>1 DEF IInv, QueueInv, TypeOK
<1>5. \A x \in Tasks : held'[x] = IF x = t THEN v ELSE held[x]
  BY <1>1, <1>4 DEF TypeOK
<1>6. TypeOK'
  <2>1. held' \in [Tasks -> Visits \union {NoVisit}]
    BY <1>1, <1>3, <1>4 DEF TypeOK
  <2>2. \A x \in Tasks : (held'[x] = NoVisit) <=> (pc'[x] \in {"get", "idle"})
    <3>1. \A x \in Tasks \ {t} : (pc'[x] \in {"get", "idle"}) <=> (pc[x] \in {"get", "idle"})
      BY <1>2
    <3>2. pc'[t] = "work"
      BY <1>1, <1>2
    <3> QED
      BY <1>3, <1>4, <1>5, <3>1, <3>2 DEF TypeOK
  <2> QED
    BY <1>1, <1>2, <1>4, <2>1, <2>2 DEF TypeOK
<1>7. Places'
  <2>1. QueuedIn(items') \subseteq jobs' \ failed'
    BY <1>1, <1>2, <1>4 DEF Places
  <2>2. \A x \in Tasks : held'[x] # NoVisit => held'[x] \in (jobs' \ failed') \ QueuedIn(items')
    BY <1>1, <1>2, <1>3, <1>4, <1>5 DEF Places
  <2>3. \A x, y \in Tasks : held'[x] # NoVisit /\ held'[x] = held'[y] => x = y
    <3>1. \A x \in Tasks : held[x] # v
      BY <1>2, <1>3, <1>4 DEF Places
    <3> QED
      BY <1>4, <1>5, <3>1 DEF Places
  <2> QED
    BY <1>2, <2>1, <2>2, <2>3 DEF Places
<1>8. InPlace'
  <2>1. ASSUME NEW w \in jobs \ failed
        PROVE  w \in QueuedIn(items') \/ \E x \in Tasks : held'[x] = w
    <3>1. CASE w = v
      BY <1>5, <3>1
    <3>2. CASE w # v /\ w \in QueuedIn(items)
      BY <1>2, <3>2
    <3>3. CASE \E x \in Tasks : held[x] = w
      <4>1. PICK x \in Tasks : held[x] = w
        BY <3>3
      <4>2. x # t
        BY <1>4, <4>1, StagesAssumption DEF TypeOK
      <4> QED
        BY <1>5, <4>1, <4>2
    <3> QED
      BY <3>1, <3>2, <3>3 DEF IInv, InPlace
  <2> QED
    BY <1>1, <2>1 DEF InPlace
<1>9. UsersBounded' /\ Pushing'
  BY <1>1, <1>2, <1>4 DEF IInv, UsersBounded, Pushing
<1> QED
  BY <1>2, <1>6, <1>7, <1>8, <1>9 DEF IInv, QueueInv

\* A job that nobody wants any more leaves the pipeline.
LEMMA GetUnwantedStep ==
    ASSUME IInv, NEW t \in Tasks, GetUnwanted(t)
    PROVE  IInv'
<1> DEFINE s == StageOf(t)
           v == items[s][Picked(s)]
           wanted == s \in Checked => users[v] > 0
<1>1. /\ pc[t] = "get" /\ items[s] # <<>> /\ Take(s, t)
      /\ s \in Checked /\ users[v] <= 0
      /\ failed' = failed \union {v}
      /\ UNCHANGED <<held, jobs, users, seq, created, ready, events>>
  BY DEF GetUnwanted
<1>2. /\ s \in Stages /\ v \in QueuedIn(items)
      /\ items' \in [Stages -> Seq(Visits)]
      /\ ev' \in [Stages -> BOOLEAN] /\ notFull' \in [Stages -> BOOLEAN]
      /\ ApartIn(items') /\ QueuedIn(items') = QueuedIn(items) \ {v}
      /\ pc' \in [Tasks -> {"get", "idle", "work", "push", "blocked"}]
      /\ pc'[t] = IF wanted THEN "work" ELSE "get"
      /\ \A x \in Tasks \ {t} : \/ pc'[x] = pc[x]
                                \/ pc[x] = "blocked" /\ pc'[x] = "push"
      /\ BufferBounded' /\ NobodyWaitsInVain'
  BY <1>1, TakeFacts
<1> HIDE DEF s, v
<1>3. v \in Visits /\ v \in jobs \ failed
  BY <1>2 DEF QueuedIn, IInv, Places
<1>4. TypeOK /\ Places /\ Pushing /\ users[v] \in Nat
  BY <1>3 DEF IInv, QueueInv, TypeOK
<1>5. pc'[t] = "get"
  BY <1>1, <1>2, <1>4
<1> HIDE DEF wanted
<1>6. TypeOK'
  <2>1. \A x \in Tasks : (held'[x] = NoVisit) <=> (pc'[x] \in {"get", "idle"})
    BY <1>1, <1>2, <1>4, <1>5 DEF TypeOK
  <2> QED
    BY <1>1, <1>2, <1>3, <1>4, <2>1 DEF TypeOK
<1>7. Places'
  <2>1. QueuedIn(items') \subseteq jobs' \ failed'
    BY <1>1, <1>2, <1>4 DEF Places
  <2>2. \A x \in Tasks : held'[x] # NoVisit => held'[x] \in (jobs' \ failed') \ QueuedIn(items')
    BY <1>1, <1>2, <1>4 DEF Places
  <2> QED
    BY <1>1, <1>2, <1>4, <2>1, <2>2 DEF Places
<1>8. InPlace'
  BY <1>1, <1>2 DEF IInv, InPlace
<1>9. UsersBounded' /\ Pushing'
  BY <1>1, <1>2, <1>4, <1>5 DEF IInv, UsersBounded, Pushing
<1> QED
  BY <1>2, <1>6, <1>7, <1>8, <1>9 DEF IInv, QueueInv

LEMMA WorkEndsStep ==
    ASSUME IInv, NEW t \in Tasks, WorkEnds(t)
    PROVE  IInv'
<1>1. /\ pc[t] = "work" /\ StageOf(t) < NumStages
      /\ pc' = [pc EXCEPT ![t] = "push"]
      /\ UNCHANGED <<items, ev, notFull, held, jobs, users, seq, created, failed, ready, events>>
  BY DEF WorkEnds, jobVars
<1>2. TypeOK /\ Places /\ Pushing /\ UsersBounded /\ BufferBounded /\ NobodyWaitsInVain
  BY DEF IInv, QueueInv
<1>3. \A x \in Tasks : pc'[x] = IF x = t THEN "push" ELSE pc[x]
  BY <1>1, <1>2 DEF TypeOK
<1>4. BufferBounded' /\ NobodyWaitsInVain'
  BY <1>1, <1>2, <1>3, BuffersUntouched
<1>5. TypeOK'
  BY <1>1, <1>2, <1>3 DEF TypeOK
<1>6. Places' /\ InPlace' /\ UsersBounded'
  BY <1>1, <1>2 DEF IInv, Places, InPlace, UsersBounded
<1>7. Pushing'
  BY <1>1, <1>2, <1>3 DEF Pushing
<1> QED
  BY <1>4, <1>5, <1>6, <1>7 DEF IInv, QueueInv

\* A job that leaves its task leaves the places of all others alone.
LEMMA Released ==
    ASSUME TypeOK, Places, InPlace, NEW t \in Tasks, held[t] # NoVisit,
           held' = [held EXCEPT ![t] = NoVisit], UNCHANGED items,
           jobs' \ failed' = (jobs \ failed) \ {held[t]}
    PROVE  Places' /\ InPlace'
<1>1. \A x \in Tasks : held'[x] = IF x = t THEN NoVisit ELSE held[x]
  BY DEF TypeOK
<1>2. held[t] \notin QueuedIn(items)
  BY DEF Places
<1>3. QueuedIn(items') \subseteq jobs' \ failed'
  BY <1>2 DEF Places
<1>4. \A x \in Tasks : held'[x] # NoVisit => held'[x] \in (jobs' \ failed') \ QueuedIn(items')
  BY <1>1 DEF Places
<1>5. \A x, y \in Tasks : held'[x] # NoVisit /\ held'[x] = held'[y] => x = y
  BY <1>1 DEF Places
<1>6. InPlace'
  <2>1. ASSUME NEW w \in (jobs \ failed) \ {held[t]}
        PROVE  w \in QueuedIn(items') \/ \E x \in Tasks : held'[x] = w
    BY <1>1 DEF InPlace
  <2> QED
    BY <2>1 DEF InPlace
<1> QED
  BY <1>3, <1>4, <1>5, <1>6 DEF Places

LEMMA JobEndsStep ==
    ASSUME IInv, NEW t \in Tasks, JobEnds(t)
    PROVE  IInv'
<1> DEFINE v == held[t]
<1>1. /\ pc[t] = "work"
      /\ jobs' = jobs \ {v} /\ ready' = ready \union {v}
      /\ pc' = [pc EXCEPT ![t] = "get"] /\ held' = [held EXCEPT ![t] = NoVisit]
      /\ UNCHANGED <<items, ev, notFull, users, seq, created, failed, events>>
  BY DEF JobEnds
<1>2. TypeOK /\ Places /\ Pushing /\ UsersBounded /\ BufferBounded /\ NobodyWaitsInVain
  BY DEF IInv, QueueInv
<1>3. v # NoVisit /\ v \in jobs \ failed /\ v \in Visits
  BY <1>1, <1>2 DEF TypeOK, Places
<1>4. \A x \in Tasks : pc'[x] = IF x = t THEN "get" ELSE pc[x]
  BY <1>1, <1>2 DEF TypeOK
<1>5. BufferBounded' /\ NobodyWaitsInVain'
  BY <1>1, <1>2, <1>4, BuffersUntouched
<1>6. TypeOK'
  BY <1>1, <1>2, <1>3, <1>4 DEF TypeOK
<1>7. Places' /\ InPlace'
  BY <1>1, <1>2, <1>3, Released DEF IInv
<1>8. UsersBounded' /\ Pushing'
  BY <1>1, <1>2, <1>4 DEF UsersBounded, Pushing
<1> QED
  BY <1>5, <1>6, <1>7, <1>8 DEF IInv, QueueInv

LEMMA WorkFailsStep ==
    ASSUME IInv, NEW t \in Tasks, WorkFails(t)
    PROVE  IInv'
<1>1. /\ pc[t] = "work" /\ events < MaxEvents
      /\ failed' = failed \union {held[t]} /\ events' = events + 1
      /\ pc' = [pc EXCEPT ![t] = "get"] /\ held' = [held EXCEPT ![t] = NoVisit]
      /\ UNCHANGED <<items, ev, notFull, jobs, users, seq, created, ready>>
  BY DEF WorkFails
<1>2. TypeOK /\ Places /\ Pushing /\ UsersBounded /\ BufferBounded /\ NobodyWaitsInVain
  BY DEF IInv, QueueInv
<1>3. held[t] # NoVisit /\ held[t] \in jobs \ failed /\ held[t] \in Visits
  BY <1>1, <1>2 DEF TypeOK, Places
<1>4. \A x \in Tasks : pc'[x] = IF x = t THEN "get" ELSE pc[x]
  BY <1>1, <1>2 DEF TypeOK
<1>5. BufferBounded' /\ NobodyWaitsInVain'
  BY <1>1, <1>2, <1>4, BuffersUntouched
<1>6. events' \in 0 .. MaxEvents
  BY <1>1, <1>2, StagesAssumption DEF TypeOK
<1>7. TypeOK'
  BY <1>1, <1>2, <1>3, <1>4, <1>6 DEF TypeOK
<1>8. Places' /\ InPlace'
  BY <1>1, <1>2, <1>3, Released DEF IInv
<1>9. UsersBounded'
  BY <1>1, <1>2, StagesAssumption DEF UsersBounded, TypeOK
<1>10. Pushing'
  BY <1>1, <1>2, <1>4 DEF Pushing
<1> QED
  BY <1>5, <1>7, <1>8, <1>9, <1>10 DEF IInv, QueueInv

\* A task that waited for nothing in buffer s runs again when something is put there.
LEMMA Woken ==
    ASSUME TypeOK, NobodyWaitsInVain, NEW s \in Stages, ~Full(s),
           \A r \in Stages : Full(r)' <=> ~notFull'[r],
           \A r \in Stages \ {s} : items'[r] = items[r],
           \A x \in Tasks : pc'[x] = "idle" => pc[x] = "idle" /\ x \notin Idle(s),
           \A x \in Tasks : pc'[x] = "blocked" => pc[x] = "blocked"
    PROVE  NobodyWaitsInVain'
<1>1. ASSUME NEW x \in Tasks, pc'[x] = "idle"
      PROVE  items'[StageOf(x)] = <<>>
  <2>1. StageOf(x) \in Stages \ {s}
    BY <1>1, TaskStages DEF Idle
  <2> QED
    BY <1>1, <2>1 DEF NobodyWaitsInVain
<1>2. ASSUME NEW x \in Tasks, pc'[x] = "blocked"
      PROVE  Full(StageOf(x) + 1)'
  <2>1. Full(StageOf(x) + 1)
    BY <1>2 DEF NobodyWaitsInVain
  <2>2. StageOf(x) + 1 \in Stages \ {s}
    BY <2>1, StagesAssumption DEF Full, FullWith
  <2>3. items'[StageOf(x) + 1] = items[StageOf(x) + 1]
    BY <2>2
  <2> QED
    BY <2>1, <2>3 DEF Full, FullWith
<1> QED
  BY <1>1, <1>2 DEF NobodyWaitsInVain

LEMMA PushStep ==
    ASSUME IInv, NEW t \in Tasks, Push(t)
    PROVE  IInv'
<1> DEFINE s == StageOf(t) + 1
           v == held[t]
<1>1. /\ pc[t] = "push" /\ ~Full(s) /\ Put(s, v)
      /\ pc' = [x \in Tasks |-> IF x = t THEN "get" ELSE Wake(s, x)]
      /\ held' = [held EXCEPT ![t] = NoVisit]
      /\ UNCHANGED <<jobs, users, seq, created, failed, ready, events>>
  BY DEF Push, jobVars
<1>2. TypeOK /\ Places /\ Pushing /\ UsersBounded /\ BufferBounded /\ NobodyWaitsInVain
  BY DEF IInv, QueueInv
<1>3. s \in Stages
  BY <1>1, <1>2, TaskStages, StageBounds DEF Pushing
<1>4. v # NoVisit /\ v \in Visits \ QueuedIn(items) /\ v \in jobs \ failed
  BY <1>1, <1>2 DEF TypeOK, Places
<1> HIDE DEF s, v
<1>5. /\ items' \in [Stages -> Seq(Visits)]
      /\ ev' \in [Stages -> BOOLEAN] /\ notFull' \in [Stages -> BOOLEAN]
      /\ ApartIn(items') /\ QueuedIn(items') = QueuedIn(items) \union {v}
      /\ BufferBounded'
      /\ \A r \in Stages : Full(r)' <=> ~notFull'[r]
      /\ \A r \in Stages \ {s} : items'[r] = items[r]
  BY <1>1, <1>2, <1>3, <1>4, PutFacts DEF Places
<1>6. /\ pc' \in [Tasks -> {"get", "idle", "work", "push", "blocked"}]
      /\ pc'[t] = "get"
      /\ \A x \in Tasks \ {t} : pc'[x] = Wake(s, x)
  BY <1>1, <1>2 DEF TypeOK, Wake
<1>7. \A x \in Tasks \ {t} : IF x \in Idle(s) THEN pc'[x] = "get" /\ pc[x] = "idle"
                                              ELSE pc'[x] = pc[x]
  BY <1>6 DEF Wake, Idle
<1>8. NobodyWaitsInVain'
  <2>1. \A x \in Tasks : pc'[x] = "idle" => pc[x] = "idle" /\ x \notin Idle(s)
    BY <1>6, <1>7
  <2>2. \A x \in Tasks : pc'[x] = "blocked" => pc[x] = "blocked"
    BY <1>6, <1>7
  <2> QED
    BY <1>1, <1>2, <1>3, <1>5, <2>1, <2>2, Woken
<1>9. \A x \in Tasks : held'[x] = IF x = t THEN NoVisit ELSE held[x]
  BY <1>1, <1>2 DEF TypeOK
<1>10. TypeOK'
  <2>1. held' \in [Tasks -> Visits \union {NoVisit}]
    BY <1>1, <1>2 DEF TypeOK
  <2>2. \A x \in Tasks : (held'[x] = NoVisit) <=> (pc'[x] \in {"get", "idle"})
    BY <1>2, <1>6, <1>7, <1>9 DEF TypeOK
  <2> QED
    BY <1>1, <1>2, <1>5, <1>6, <2>1, <2>2 DEF TypeOK
<1>11. Places'
  <2>1. QueuedIn(items') \subseteq jobs' \ failed'
    BY <1>1, <1>2, <1>4, <1>5 DEF Places
  <2>2. \A x \in Tasks \ {t} : held[x] # NoVisit => held[x] # v
    BY <1>2, <1>4 DEF Places, v
  <2>3. \A x \in Tasks : held'[x] # NoVisit => held'[x] \in (jobs' \ failed') \ QueuedIn(items')
    BY <1>1, <1>2, <1>5, <1>9, <2>2 DEF Places
  <2>4. \A x, y \in Tasks : held'[x] # NoVisit /\ held'[x] = held'[y] => x = y
    BY <1>2, <1>9 DEF Places
  <2> QED
    BY <1>5, <2>1, <2>3, <2>4 DEF Places
<1>12. InPlace'
  <2>1. ASSUME NEW w \in jobs \ failed
        PROVE  w \in QueuedIn(items') \/ \E x \in Tasks : held'[x] = w
    <3>1. CASE w = v
      BY <1>5, <3>1
    <3>2. CASE w # v
      BY <1>5, <1>9, <3>2 DEF IInv, InPlace, v
    <3> QED
      BY <3>1, <3>2
  <2> QED
    BY <1>1, <2>1 DEF InPlace
<1>13. UsersBounded' /\ Pushing'
  BY <1>1, <1>2, <1>6, <1>7 DEF UsersBounded, Pushing
<1> QED
  BY <1>5, <1>8, <1>10, <1>11, <1>12, <1>13 DEF IInv, QueueInv

LEMMA PushWaitsStep ==
    ASSUME IInv, NEW t \in Tasks, PushWaits(t)
    PROVE  IInv'
<1>1. /\ pc[t] = "push" /\ Full(StageOf(t) + 1)
      /\ pc' = [pc EXCEPT ![t] = "blocked"]
      /\ UNCHANGED <<items, ev, notFull, held, jobs, users, seq, created, failed, ready, events>>
  BY DEF PushWaits, jobVars
<1>2. TypeOK /\ Places /\ Pushing /\ UsersBounded /\ BufferBounded /\ NobodyWaitsInVain
  BY DEF IInv, QueueInv
<1>3. \A x \in Tasks : pc'[x] = IF x = t THEN "blocked" ELSE pc[x]
  BY <1>1, <1>2 DEF TypeOK
<1>4. BufferBounded'
  BY <1>1, <1>2 DEF BufferBounded
<1>5. NobodyWaitsInVain'
  <2>1. \A s : Full(s)' <=> Full(s)
    BY <1>1 DEF Full, FullWith
  <2>2. \A x \in Tasks : pc'[x] = "idle" => items'[StageOf(x)] = <<>>
    BY <1>1, <1>2, <1>3 DEF NobodyWaitsInVain
  <2>3. \A x \in Tasks : pc'[x] = "blocked" => Full(StageOf(x) + 1)'
    BY <1>1, <1>2, <1>3, <2>1 DEF NobodyWaitsInVain
  <2>4. \A s \in Stages : Full(s)' <=> ~notFull'[s]
    BY <1>1, <1>2, <2>1 DEF NobodyWaitsInVain
  <2> QED
    BY <2>2, <2>3, <2>4 DEF NobodyWaitsInVain
<1>6. TypeOK'
  BY <1>1, <1>2, <1>3 DEF TypeOK
<1>7. Places' /\ InPlace' /\ UsersBounded'
  BY <1>1, <1>2 DEF IInv, Places, InPlace, UsersBounded
<1>8. Pushing'
  BY <1>1, <1>2, <1>3 DEF Pushing
<1> QED
  BY <1>4, <1>5, <1>6, <1>7, <1>8 DEF IInv, QueueInv

LEMMA CreateStep ==
    ASSUME IInv, NEW v \in Visits, Create(v)
    PROVE  IInv'
<1>1. /\ v \notin jobs \union ready
      /\ jobs' = jobs \union {v}
      /\ users' = [users EXCEPT ![v] = 1]
      /\ created' = created + 1 /\ seq' = [seq EXCEPT ![v] = created]
      /\ Put(1, v) /\ pc' = [x \in Tasks |-> Wake(1, x)]
      /\ UNCHANGED <<held, failed, ready, events>>
  BY DEF Create
<1>2. TypeOK /\ Places /\ InPlace /\ Pushing /\ UsersBounded
      /\ BufferBounded /\ NobodyWaitsInVain
  BY DEF IInv, QueueInv
<1>3. 1 \in Stages /\ ~Full(1)
  BY StageBounds DEF Full, FullWith
<1>4. v \in Visits \ QueuedIn(items) /\ \A x \in Tasks : held[x] # v
  BY <1>1, <1>2, StagesAssumption DEF Places
<1>5. /\ items' \in [Stages -> Seq(Visits)]
      /\ ev' \in [Stages -> BOOLEAN] /\ notFull' \in [Stages -> BOOLEAN]
      /\ ApartIn(items') /\ QueuedIn(items') = QueuedIn(items) \union {v}
      /\ BufferBounded'
      /\ \A r \in Stages : Full(r)' <=> ~notFull'[r]
      /\ \A r \in Stages \ {1} : items'[r] = items[r]
  BY <1>1, <1>2, <1>3, <1>4, PutFacts DEF Places
<1>6. /\ pc' \in [Tasks -> {"get", "idle", "work", "push", "blocked"}]
      /\ \A x \in Tasks : IF x \in Idle(1) THEN pc'[x] = "get" /\ pc[x] = "idle"
                                           ELSE pc'[x] = pc[x]
  BY <1>1, <1>2 DEF TypeOK, Wake, Idle
<1>7. NobodyWaitsInVain'
  <2>1. \A x \in Tasks : pc'[x] = "idle" => pc[x] = "idle" /\ x \notin Idle(1)
    BY <1>6
  <2>2. \A x \in Tasks : pc'[x] = "blocked" => pc[x] = "blocked"
    BY <1>6
  <2> QED
    BY <1>2, <1>3, <1>5, <2>1, <2>2, Woken
<1>8. TypeOK'
  <2>1. \A x \in Tasks : (held'[x] = NoVisit) <=> (pc'[x] \in {"get", "idle"})
    BY <1>1, <1>2, <1>6 DEF TypeOK
  <2>2. users' \in [Visits -> Nat] /\ seq' \in [Visits -> Nat] /\ created' \in Nat
    BY <1>1, <1>2 DEF TypeOK
  <2> QED
    BY <1>1, <1>2, <1>5, <1>6, <2>1, <2>2 DEF TypeOK
<1>9. Places'
  <2>1. v \notin failed
    BY <1>1, <1>2 DEF TypeOK
  <2>2. QueuedIn(items') \subseteq jobs' \ failed'
    BY <1>1, <1>2, <1>5, <2>1 DEF Places
  <2>3. \A x \in Tasks : held'[x] # NoVisit => held'[x] \in (jobs' \ failed') \ QueuedIn(items')
    BY <1>1, <1>2, <1>4, <1>5 DEF Places
  <2> QED
    BY <1>1, <1>2, <1>5, <2>2, <2>3 DEF Places
<1>10. InPlace'
  BY <1>1, <1>2, <1>5 DEF InPlace
<1>11. UsersBounded'
  BY <1>1, <1>2, StagesAssumption DEF UsersBounded, TypeOK
<1>12. Pushing'
  BY <1>2, <1>6 DEF Pushing
<1> QED
  BY <1>5, <1>7, <1>8, <1>9, <1>10, <1>11, <1>12 DEF IInv, QueueInv

LEMMA VoteStep ==
    ASSUME IInv, NEW v \in Visits, Vote(v)
    PROVE  IInv'
<1>1. /\ events < MaxEvents /\ events' = events + 1
      /\ \/ users' = [users EXCEPT ![v] = @ + 1]
         \/ users[v] > 0 /\ users' = [users EXCEPT ![v] = @ - 1]
      /\ UNCHANGED <<items, ev, notFull, pc, held, jobs, seq, created, failed, ready>>
  BY DEF Vote, bufferVars
<1>2. TypeOK /\ Places /\ InPlace /\ Pushing /\ UsersBounded
      /\ BufferBounded /\ NobodyWaitsInVain
  BY DEF IInv, QueueInv
<1>3. BufferBounded' /\ NobodyWaitsInVain'
  BY <1>1, <1>2, BuffersUntouched
<1>4. events' \in 0 .. MaxEvents /\ users' \in [Visits -> Nat]
  BY <1>1, <1>2, StagesAssumption DEF TypeOK
<1>5. TypeOK'
  BY <1>1, <1>2, <1>4 DEF TypeOK
<1>6. Places' /\ InPlace' /\ Pushing'
  BY <1>1, <1>2 DEF Places, InPlace, Pushing
<1>7. UsersBounded'
  <2>1. ASSUME NEW w \in Visits
        PROVE  users'[w] <= users[w] + 1 /\ users[w] \in Nat /\ users'[w] \in Nat
    <3>1. users[w] \in Nat /\ users'[w] \in Nat
      BY <1>2, <1>4 DEF TypeOK
    <3>2. users'[w] \in {users[w], users[w] + 1, users[w] - 1}
      BY <1>1, <1>2 DEF TypeOK
    <3> QED
      BY <3>1, <3>2
  <2>2. events \in Nat
    BY <1>2, StagesAssumption DEF TypeOK
  <2> QED
    BY <1>1, <1>2, <2>1, <2>2 DEF UsersBounded
<1> QED
  BY <1>3, <1>5, <1>6, <1>7 DEF IInv, QueueInv

LEMMA ForgetStep ==
    ASSUME IInv, NEW v \in Visits, Forget(v)
    PROVE  IInv'
<1>1. /\ jobs' = jobs \ {v} /\ failed' = failed \ {v} /\ v \in failed
      /\ UNCHANGED <<items, ev, notFull, pc, held, users, seq, created, ready, events>>
  BY DEF Forget, bufferVars
<1>2. TypeOK /\ Places /\ InPlace /\ Pushing /\ UsersBounded
      /\ BufferBounded /\ NobodyWaitsInVain
  BY DEF IInv, QueueInv
<1>3. BufferBounded' /\ NobodyWaitsInVain'
  BY <1>1, <1>2, BuffersUntouched
<1>4. TypeOK'
  BY <1>1, <1>2 DEF TypeOK
<1>5. jobs' \ failed' = jobs \ failed
  BY <1>1
<1>6. Places' /\ InPlace' /\ Pushing' /\ UsersBounded'
  BY <1>1, <1>2, <1>5 DEF Places, InPlace, Pushing, UsersBounded
<1> QED
  BY <1>3, <1>4, <1>6 DEF IInv, QueueInv

LEMMA StepIInv == IInv /\ [Next]_vars => IInv'
<1> SUFFICES ASSUME IInv, [Next]_vars PROVE IInv'
  OBVIOUS
<1>1. ASSUME NEW t \in Tasks, TaskStep(t)
      PROVE  IInv'
  BY <1>1, GetNothingStep, GetStep, GetUnwantedStep, WorkEndsStep, JobEndsStep,
     WorkFailsStep, PushStep, PushWaitsStep DEF TaskStep
<1>2. ASSUME NEW v \in Visits, Create(v) \/ Vote(v) \/ Forget(v)
      PROVE  IInv'
  BY <1>2, CreateStep, VoteStep, ForgetStep
<1>3. CASE UNCHANGED vars
  <2>1. UNCHANGED <<items, ev, notFull, pc, held, jobs, users, seq, created, failed,
                    ready, events>>
    BY <1>3 DEF vars, bufferVars, jobVars
  <2>2. TypeOK /\ Places /\ InPlace /\ Pushing /\ UsersBounded
        /\ BufferBounded /\ NobodyWaitsInVain
    BY DEF IInv, QueueInv
  <2>3. BufferBounded' /\ NobodyWaitsInVain'
    BY <2>1, <2>2, BuffersUntouched
  <2>4. TypeOK'
    BY <2>1, <2>2 DEF TypeOK
  <2>5. Places' /\ InPlace' /\ Pushing' /\ UsersBounded'
    BY <2>1, <2>2 DEF Places, InPlace, Pushing, UsersBounded
  <2> QED
    BY <2>3, <2>4, <2>5 DEF IInv, QueueInv
<1> QED
  BY <1>1, <1>2, <1>3 DEF Next

-----------------------------------------------------------------------------
(* The theorems. *)

\* The invariant is inductive, so it holds of every behaviour.
THEOREM InductiveInvariant == Spec => []IInv
<1>1. Init => IInv
  BY InitIInv
<1>2. IInv /\ [Next]_vars => IInv'
  BY StepIInv
<1> QED
  BY <1>1, <1>2, PTL DEF Spec

\* However many tasks a stage has and however many of them wake up for the same
\* free place, no buffer holds more than its capacity; and no task sleeps while
\* there is something for it to get, or room for what it hands on
\* (utils/pipeline, _Buf).
THEOREM QueueInvariant == Spec => []QueueInv
<1>1. IInv => QueueInv
  BY DEF IInv
<1> QED
  BY <1>1, InductiveInvariant, PTL

LEMMA OnePlace == IInv => JobIsInOnePlace
<1> SUFFICES ASSUME IInv, NEW v \in Visits
             PROVE  Occurrences(v) = IF v \in jobs \ failed THEN 1 ELSE 0
  BY DEF JobIsInOnePlace
<1>1. TypeOK /\ Places /\ InPlace /\ v # NoVisit
  BY StagesAssumption DEF IInv, QueueInv
<1>2. \A p : p \in Queuings(v) <=> /\ p = <<p[1], p[2]>> /\ p[1] \in Stages
                                   /\ p[2] \in 1..Len(items[p[1]])
                                   /\ items[p[1]][p[2]] = v
  <2>1. \A s \in Stages : DOMAIN items[s] = 1..Len(items[s])
    BY <1>1, LenProperties DEF TypeOK
  <2> QED
    BY <2>1 DEF Queuings
<1>3. v \in QueuedIn(items) <=> Queuings(v) # {}
  <2>1. ASSUME NEW s \in Stages, NEW i \in 1..Len(items[s]), items[s][i] = v
        PROVE  <<s, i>> \in Queuings(v)
    BY <1>2, <2>1
  <2>2. v \in QueuedIn(items) => Queuings(v) # {}
    BY <2>1 DEF QueuedIn
  <2>3. ASSUME NEW p \in Queuings(v)
        PROVE  v \in QueuedIn(items)
    BY <1>2 DEF QueuedIn
  <2> QED
    BY <2>2, <2>3
<1>4. \A p, q \in Queuings(v) : p = q
  BY <1>1, <1>2 DEF Places, ApartIn
<1>5. \A t, u \in Holders(v) : t = u
  BY <1>1 DEF Places, Holders
<1>6. Holders(v) # {} => v \in (jobs \ failed) \ QueuedIn(items)
  BY <1>1 DEF Places, Holders
<1>7. v \in QueuedIn(items) => v \in jobs \ failed
  BY <1>1 DEF Places
<1>8. ASSUME NEW S, \A x, y \in S : x = y
      PROVE  Cardinality(S) = IF S = {} THEN 0 ELSE 1
  <2>1. CASE S = {}
    BY <2>1, FS_EmptySet
  <2>2. CASE S # {}
    <3>1. PICK x \in S : S = {x}
      BY <1>8, <2>2
    <3> QED
      BY <2>2, <3>1, FS_Singleton
  <2> QED
    BY <2>1, <2>2
<1>9. /\ Cardinality(Holders(v)) = IF Holders(v) = {} THEN 0 ELSE 1
      /\ Cardinality(Queuings(v)) = IF Queuings(v) = {} THEN 0 ELSE 1
  BY <1>4, <1>5, <1>8
<1>10. CASE v \in jobs \ failed
  <2>1. Holders(v) # {} <=> Queuings(v) = {}
    BY <1>1, <1>3, <1>6, <1>10 DEF InPlace, Holders
  <2> QED
    BY <1>9, <1>10, <2>1 DEF Occurrences
<1>11. CASE v \notin jobs \ failed
  BY <1>3, <1>6, <1>7, <1>9, <1>11 DEF Occurrences
<1> QED
  BY <1>10, <1>11

\* Whatever raises, is withdrawn or waits: a job is in one place of the pipeline
\* as long as its viewers are told that it goes on, and in none afterwards.
THEOREM JobInOnePlace == Spec => []JobIsInOnePlace
<1>1. IInv => JobIsInOnePlace
  BY OnePlace
<1> QED
  BY <1>1, InductiveInvariant, PTL
=============================================================================
