------------------------- MODULE StatusRelayProofs -------------------------
(***************************************************************************)
(* Proofs about what a frontend serves to the viewers, in two parts.       *)
(*                                                                         *)
(* StatusRelay: what the frontend knows of a visit, and what a viewer is   *)
(* shown, for any length of the viewers' queues, any number of jobs of the *)
(* visit, of faults and of messages under way, and a relay of any speed.   *)
(*                                                                         *)
(* VisitQueries: the lists of visits, for any collections, scopes, days    *)
(* and texts, any length of a page and any exposures that arrive.          *)
(***************************************************************************)
EXTENDS StatusRelay, VisitQueries, SequenceTheorems, FiniteSetTheorems, FunctionTheorems,
        WellFoundedInduction, TLAPS

-----------------------------------------------------------------------------
(* The jobs and the last message.                                          *)

Active == {"queued", "generate", "shared", "merge"}

\* What the websocket carries.
Pickles == {l \in JobLists : ~l.json} \union [type : {"large"}, job : Job]

\* A message that waits is about a job of this coordinator.
Alive(m) == m.type = "list" /\ m.job # NoJob => stage[m.job] \in Stages

MessagesAlive ==
    /\ last # NoValue => Alive(last)
    /\ \A i \in 1..Len(upstream) : Alive(upstream[i])
    /\ \A i \in 1..Len(queue) : Alive(queue[i])

\* The dictionary holds the job that is under way, or the one that failed.
EntryInv ==
    /\ \A j \in Job : stage[j] \in Active => entry = j
    /\ entry # NoJob => stage[entry] \in Active \union {"error"}
    /\ removal => stage[entry] = "error"

JobsInv == wire \in Seq(Pickles) /\ MessagesAlive /\ EntryInv

\* A list says of the job what the coordinator knows.
Agrees(l) ==
    /\ Lists(l) => entry # NoJob /\ l.stage = StageOf(entry)
    /\ entry # NoJob /\ ~Lists(l) => stage[entry] = "queued"

\* The last message is the newest, and the newest is the last on its way: in the
\* Broadcast, in the subscription, in the websocket, and then in the frontend's list.
CurrentInv ==
    /\ last # NoValue /\ last.type = "list" =>
         \/ last.job = entry
         \/ last.job = NoJob /\ entry # NoJob /\ stage[entry] = "queued"
    /\ upstream # <<>> => last # NoValue /\ upstream[Len(upstream)] = last
    /\ connected /\ upstream = <<>> /\ last # NoValue =>
         /\ queue # <<>> => queue[Len(queue)] = last
         /\ queue = <<>> /\ wire # <<>> =>
              /\ wire[Len(wire)].type = last.type
              /\ last.type = "list" => Agrees(wire[Len(wire)])
         /\ queue = <<>> /\ wire = <<>> /\ last.type = "list" /\ poll # <<"put">> =>
              list # NoValue /\ Agrees(list)

-----------------------------------------------------------------------------
(* What is on its way, as the frontend will receive it.                    *)

Total == Len(wire) + Len(queue) + Len(upstream)

\* A list is advanced if it lists the visit in a stage that needs the metadata.
Kinds == {"large", "absent", "plain", "advanced"}
Kind(l) ==
    IF l = NoValue THEN "absent"
    ELSE IF l.type = "large" THEN "large"
    ELSE IF l.stage = "absent" THEN "absent"
    ELSE IF l.stage \in {"merge", "ready"} THEN "advanced"
    ELSE "plain"

\* What a message that is not sent yet will be.
KindOf(m) ==
    IF m.type = "large" THEN "large"
    ELSE IF m.job = NoJob THEN "absent"
    ELSE IF stage[m.job] \in {"merge", "ready", "stored"} THEN "advanced"
    ELSE "plain"

Path == [i \in 1..Total |->
    IF i <= Len(wire) THEN Kind(wire[i])
    ELSE IF i <= Len(wire) + Len(queue) THEN KindOf(queue[i - Len(wire)])
    ELSE KindOf(upstream[i - Len(wire) - Len(queue)])]
Listing(k) == k \in {"plain", "advanced"}

\* When f[i] is received, the frontend has the metadata.
HasBefore(f, has, i) ==
    \/ has /\ \A m \in 1..(i - 1) : f[m] # "absent"
    \/ \E k \in 1..(i - 1) :
          f[k] = "large" /\ \A m \in 1..(i - 1) : m > k => f[m] # "absent"

\* The frontend has a list of kind l, has the metadata or not, and will receive f, of
\* length n.  An advanced list has them, or they come later: a list that waits says
\* what its job is when it is sent.  They come behind a list with the visit, or they
\* would not be kept.
MetadataComes(f, n, l, has, shared, generates) ==
    /\ l = "advanced" => has \/ \E k \in 1..n : f[k] = "large"
    /\ \A i \in 1..n : f[i] = "advanced" =>
         HasBefore(f, has, i) \/ \E k \in 1..n : k > i /\ f[k] = "large"
    /\ shared => HasBefore(f, has, n + 1)
    /\ generates => IF n = 0 THEN Listing(l) ELSE Listing(f[n])
    /\ \A i \in 1..n : f[i] = "large" => IF i = 1 THEN Listing(l) ELSE Listing(f[i - 1])

Shared == \E j \in Job : stage[j] \in {"shared", "merge"}
Generates == \E j \in Job : stage[j] = "generate"

MetadataInv ==
    faults = 0 =>
        /\ connected
        /\ poll = <<"none">>
        /\ list # NoValue => ~list.json
        /\ MetadataComes(Path, Total, Kind(list), large, Shared, Generates)

-----------------------------------------------------------------------------
(* The viewer.                                                             *)

\* The newest list is the last on its way to the viewer.
ViewerInv ==
    /\ lists # <<>> => list # NoValue /\ lists[Len(lists)] = list
    /\ viewer = "watching" /\ lists = <<>> =>
         /\ items # <<>> => list # NoValue /\ items[Len(items)] = list
         /\ items = <<>> /\ Lists(list) => shown = View(list.stage)
    /\ viewer = "watching" => shown \in {"none", View(seen)}
    /\ viewer \in {"away", "looked"} => shown = "none"

IInv == TypeOK /\ JobsInv /\ CurrentInv /\ MetadataInv /\ ViewerInv

-----------------------------------------------------------------------------
(* Sequences.                                                              *)

\* An item behind a sequence.
LEMMA AppendFacts ==
    ASSUME NEW S, NEW s \in Seq(S), NEW x \in S
    PROVE  /\ Append(s, x) \in Seq(S) /\ Append(s, x) # <<>>
           /\ Len(s) \in Nat /\ Len(Append(s, x)) = Len(s) + 1
           /\ \A i \in 1..Len(s) : Append(s, x)[i] = s[i] /\ s[i] \in S
           /\ Append(s, x)[Len(s) + 1] = x
BY AppendProperties, LenProperties, ElementOfSeq

\* What is behind the head of a sequence.
LEMMA TailFacts ==
    ASSUME NEW S, NEW s \in Seq(S), s # <<>>
    PROVE  /\ Head(s) = s[1] /\ s[1] \in S /\ Tail(s) \in Seq(S)
           /\ Len(s) \in Nat /\ Len(s) >= 1 /\ Len(Tail(s)) = Len(s) - 1
           /\ \A i \in 1..(Len(s) - 1) : Tail(s)[i] = s[i + 1]
           /\ Tail(s) = <<>> <=> Len(s) = 1
           /\ Tail(s) # <<>> => Tail(s)[Len(Tail(s))] = s[Len(s)]
<1>1. /\ Head(s) = s[1] /\ s[1] \in S /\ Tail(s) \in Seq(S)
      /\ Len(s) \in Nat /\ Len(s) >= 1 /\ Len(Tail(s)) = Len(s) - 1
      /\ \A i \in 1..(Len(s) - 1) : Tail(s)[i] = s[i + 1]
  BY HeadTailProperties, LenProperties, EmptySeq
<1>2. Tail(s) = <<>> <=> Len(s) = 1
  BY <1>1, EmptySeq
<1>3. Tail(s) # <<>> => Tail(s)[Len(Tail(s))] = s[Len(s)]
  BY <1>1, <1>2
<1> QED
  BY <1>1, <1>2, <1>3

\* Only the empty sequence has no items.
LEMMA EmptyFacts ==
    ASSUME NEW S, NEW s \in Seq(S)
    PROVE  Len(s) \in Nat /\ (s = <<>> <=> Len(s) = 0)
BY LenProperties, EmptySeq

\* Put appends what it is given, and the last of it is the Broadcast's last value.
LEMMA PutFacts ==
    ASSUME upstream \in Seq(Messages), NEW msgs \in Seq(Messages), Len(msgs) >= 1, Put(msgs)
    PROVE  /\ upstream' \in Seq(Messages) /\ upstream' # <<>>
           /\ Len(upstream) \in Nat /\ Len(msgs) \in Nat
           /\ Len(upstream') = Len(upstream) + Len(msgs)
           /\ \A i \in 1..Len(upstream) : upstream'[i] = upstream[i]
           /\ \A i \in 1..Len(msgs) : upstream'[Len(upstream) + i] = msgs[i]
           /\ last' = msgs[Len(msgs)] /\ last' \in Messages
           /\ upstream'[Len(upstream')] = last'
<1>1. upstream' = upstream \o msgs /\ last' = msgs[Len(msgs)]
  BY DEF Put, Last
<1>2. Len(upstream) \in Nat /\ Len(msgs) \in Nat
  BY LenProperties
<1>3. /\ upstream' \in Seq(Messages) /\ Len(upstream') = Len(upstream) + Len(msgs)
      /\ \A i \in 1..Len(upstream') :
            upstream'[i] = IF i <= Len(upstream) THEN upstream[i] ELSE msgs[i - Len(upstream)]
  BY <1>1, ConcatProperties
<1>4. \A i \in 1..Len(upstream) : upstream'[i] = upstream[i]
  BY <1>2, <1>3
<1>5. \A i \in 1..Len(msgs) : upstream'[Len(upstream) + i] = msgs[i]
  BY <1>2, <1>3
<1>6. upstream' # <<>> /\ msgs[Len(msgs)] \in Messages
  BY <1>2, <1>3, EmptySeq, ElementOfSeq
<1>7. upstream'[Len(upstream')] = last'
  BY <1>1, <1>2, <1>3, <1>5
<1> QED
  BY <1>1, <1>2, <1>3, <1>4, <1>5, <1>6, <1>7

-----------------------------------------------------------------------------
(* What is on its way, whatever it is.                                     *)

\* A list that waits says something else when its job has changed: it becomes plain,
\* or it becomes advanced when the metadata are on their way before it or behind it.
LEMMA ChangedPath ==
    ASSUME NEW n \in Nat, NEW f \in [1..n -> Kinds], NEW g \in [1..n -> Kinds],
           NEW l \in Kinds, NEW has \in BOOLEAN, NEW shared \in BOOLEAN,
           NEW generates \in BOOLEAN,
           MetadataComes(f, n, l, has, shared, generates),
           \A i \in 1..n :
              \/ g[i] = f[i]
              \/ Listing(f[i]) /\ g[i] = "plain"
              \/ f[i] = "plain" /\ g[i] = "advanced" /\ shared
    PROVE  MetadataComes(g, n, l, has, shared, generates)
<1> USE DEF Kinds, Listing
<1>1. \A i \in 1..n : /\ f[i] = "large" <=> g[i] = "large"
                      /\ f[i] = "absent" <=> g[i] = "absent"
  OBVIOUS
<1>2. \A i \in 1..(n + 1) : HasBefore(f, has, i) <=> HasBefore(g, has, i)
  BY <1>1 DEF HasBefore
<1>3. l = "advanced" => has \/ \E k \in 1..n : g[k] = "large"
  BY <1>1 DEF MetadataComes
<1>4. ASSUME NEW i \in 1..n, g[i] = "advanced"
      PROVE  HasBefore(g, has, i) \/ \E k \in 1..n : k > i /\ g[k] = "large"
  <2>1. CASE f[i] = "advanced"
    BY <1>1, <1>2, <2>1 DEF MetadataComes
  <2>2. CASE f[i] = "plain" /\ shared
    <3>1. HasBefore(f, has, n + 1)
      BY <2>2 DEF MetadataComes
    <3>2. CASE has /\ \A m \in 1..n : f[m] # "absent"
      BY <1>1, <3>2 DEF HasBefore
    <3>3. CASE \E k \in 1..n : f[k] = "large" /\ \A m \in 1..n : m > k => f[m] # "absent"
      <4>1. PICK k \in 1..n : f[k] = "large" /\ \A m \in 1..n : m > k => f[m] # "absent"
        BY <3>3
      <4>2. k < i \/ k > i
        BY <2>2, <4>1
      <4>3. CASE k < i
        <5>1. k \in 1..(i - 1) /\ g[k] = "large"
          BY <1>1, <4>1, <4>3
        <5>2. \A m \in 1..(i - 1) : m > k => g[m] # "absent"
          BY <1>1, <4>1
        <5> QED
          BY <5>1, <5>2 DEF HasBefore
      <4> QED
        BY <1>1, <4>1, <4>2, <4>3
    <3> QED
      BY <3>1, <3>2, <3>3 DEF HasBefore
  <2> QED
    BY <1>4, <2>1, <2>2
<1>5. shared => HasBefore(g, has, n + 1)
  BY <1>2 DEF MetadataComes
<1>6. generates => IF n = 0 THEN Listing(l) ELSE Listing(g[n])
  BY DEF MetadataComes
<1>7. \A i \in 1..n : g[i] = "large" => IF i = 1 THEN Listing(l) ELSE Listing(g[i - 1])
  <2>1. SUFFICES ASSUME NEW i \in 1..n, g[i] = "large", i # 1
                 PROVE  Listing(g[i - 1])
    BY <1>1 DEF MetadataComes
  <2>2. i - 1 \in 1..n /\ Listing(f[i - 1])
    BY <1>1, <2>1 DEF MetadataComes
  <2> QED
    BY <2>2
<1> QED
  BY <1>3, <1>4, <1>5, <1>6, <1>7 DEF MetadataComes

\* A message of kind k may come behind the others.
MayCome(k, shared, generates, shared2, generates2) ==
    /\ k = "large" => generates
    /\ k = "advanced" => shared
    /\ shared2 => (shared /\ k # "absent") \/ k = "large"
    /\ generates2 => Listing(k)

\* The first n are those of f.
Extends(g, f, n) == \A i \in 1..n : g[i] = f[i]

\* One more message.
LEMMA AppendedPath ==
    ASSUME NEW n \in Nat, NEW f \in [1..n -> Kinds], NEW g \in [1..(n + 1) -> Kinds],
           NEW l \in Kinds, NEW has \in BOOLEAN, NEW shared \in BOOLEAN,
           NEW generates \in BOOLEAN, NEW shared2 \in BOOLEAN, NEW generates2 \in BOOLEAN,
           MetadataComes(f, n, l, has, shared, generates), Extends(g, f, n),
           MayCome(g[n + 1], shared, generates, shared2, generates2)
    PROVE  MetadataComes(g, n + 1, l, has, shared2, generates2)
<1> USE DEF Extends, MayCome
<1>1. \A i \in 1..(n + 1) : HasBefore(f, has, i) <=> HasBefore(g, has, i)
  BY DEF HasBefore
<1>2. l = "advanced" => has \/ \E k \in 1..(n + 1) : g[k] = "large"
  BY DEF MetadataComes
<1>3. ASSUME NEW i \in 1..(n + 1), g[i] = "advanced"
      PROVE  HasBefore(g, has, i) \/ \E k \in 1..(n + 1) : k > i /\ g[k] = "large"
  <2>1. CASE i \in 1..n
    BY <1>1, <1>3, <2>1 DEF MetadataComes
  <2>2. CASE i = n + 1
    BY <1>1, <1>3, <2>2 DEF MetadataComes
  <2> QED
    BY <2>1, <2>2
<1>4. ASSUME shared2
      PROVE  HasBefore(g, has, n + 2)
  <2>1. CASE g[n + 1] = "large"
    <3>1. n + 1 \in 1..(n + 1) /\ \A m \in 1..(n + 1) : ~(m > n + 1)
      OBVIOUS
    <3>2. (n + 2) - 1 = n + 1
      OBVIOUS
    <3> QED
      BY <2>1, <3>1, <3>2 DEF HasBefore
  <2>2. CASE shared /\ g[n + 1] # "absent"
    <3>1. HasBefore(g, has, n + 1)
      BY <1>1, <2>2 DEF MetadataComes
    <3>2. \A m \in 1..(n + 1) : m \in 1..n \/ m = n + 1
      OBVIOUS
    <3>3. (n + 1) - 1 = n /\ (n + 2) - 1 = n + 1
      OBVIOUS
    <3>4. CASE has /\ \A m \in 1..n : g[m] # "absent"
      BY <2>2, <3>2, <3>3, <3>4 DEF HasBefore
    <3>5. CASE \E k \in 1..n : g[k] = "large" /\ \A m \in 1..n : m > k => g[m] # "absent"
      <4>1. PICK k \in 1..n : g[k] = "large" /\ \A m \in 1..n : m > k => g[m] # "absent"
        BY <3>5
      <4>2. k \in 1..(n + 1) /\ \A m \in 1..(n + 1) : m > k => g[m] # "absent"
        BY <2>2, <3>2, <4>1
      <4> QED
        BY <3>3, <4>1, <4>2 DEF HasBefore
    <3> QED
      BY <3>1, <3>3, <3>4, <3>5 DEF HasBefore
  <2> QED
    BY <1>4, <2>1, <2>2
<1>5. \A i \in 1..(n + 1) :
         g[i] = "large" => IF i = 1 THEN Listing(l) ELSE Listing(g[i - 1])
  <2>1. SUFFICES ASSUME NEW i \in 1..(n + 1), g[i] = "large"
                 PROVE  IF i = 1 THEN Listing(l) ELSE Listing(g[i - 1])
    OBVIOUS
  <2>2. CASE i \in 1..n
    BY <2>1, <2>2 DEF MetadataComes
  <2>3. CASE i = n + 1
    BY <2>1, <2>3 DEF MetadataComes
  <2> QED
    BY <2>2, <2>3
<1>6. (n + 1) + 1 = n + 2 /\ n + 1 # 0
  OBVIOUS
<1> QED
  BY <1>2, <1>3, <1>4, <1>5, <1>6 DEF MetadataComes

\* f without its first.
Follows(g, f, n) == \A i \in 1..n : g[i] = f[i + 1]

\* What the frontend has when it has received a message of kind k.
Received(k, l, has, l2, has2) ==
    IF k = "large" THEN l2 = l /\ (Listing(l) => has2)
                   ELSE l2 = k /\ has2 = (has /\ k # "absent")

\* The frontend receives the first: the metadata, which it keeps as it lists the visit,
\* or a list, and forgets the metadata if the visit is not in it.
LEMMA ReceivedPath ==
    ASSUME NEW n \in Nat, NEW f \in [1..(n + 1) -> Kinds], NEW g \in [1..n -> Kinds],
           NEW l \in Kinds, NEW has \in BOOLEAN, NEW shared \in BOOLEAN,
           NEW generates \in BOOLEAN, NEW l2 \in Kinds, NEW has2 \in BOOLEAN,
           MetadataComes(f, n + 1, l, has, shared, generates),
           Follows(g, f, n), Received(f[1], l, has, l2, has2)
    PROVE  MetadataComes(g, n, l2, has2, shared, generates)
<1> USE DEF Follows, Received
<1>1. f[1] = "large" => has2
  BY DEF MetadataComes
<1>2. ASSUME NEW i \in 1..(n + 1), HasBefore(f, has, i + 1)
      PROVE  HasBefore(g, has2, i)
  <2>1. \A m \in 1..(i - 1) : m \in 1..n /\ m + 1 \in 1..i /\ g[m] = f[m + 1]
    OBVIOUS
  <2>2. (i + 1) - 1 = i /\ 1 \in 1..i
    OBVIOUS
  <2>3. CASE has /\ \A m \in 1..i : f[m] # "absent"
    <3>1. f[1] # "absent" /\ has2
      BY <1>1, <2>2, <2>3
    <3> QED
      BY <2>1, <2>3, <3>1 DEF HasBefore
  <2>4. CASE \E k \in 1..i : f[k] = "large" /\ \A m \in 1..i : m > k => f[m] # "absent"
    <3>1. PICK k \in 1..i : f[k] = "large" /\ \A m \in 1..i : m > k => f[m] # "absent"
      BY <2>4
    <3>2. CASE k = 1
      <4>1. \A m \in 1..(i - 1) : m + 1 > 1
        OBVIOUS
      <4>2. \A m \in 1..(i - 1) : g[m] # "absent"
        BY <2>1, <3>1, <3>2, <4>1
      <4> QED
        BY <1>1, <3>1, <3>2, <4>2 DEF HasBefore
    <3>3. CASE k # 1
      <4>1. k - 1 \in 1..(i - 1) /\ g[k - 1] = f[k]
        BY <2>1, <3>3
      <4>2. \A m \in 1..(i - 1) : m > k - 1 => g[m] # "absent"
        BY <2>1, <3>1
      <4> QED
        BY <3>1, <4>1, <4>2 DEF HasBefore
    <3> QED
      BY <3>2, <3>3
  <2> QED
    BY <1>2, <2>2, <2>3, <2>4 DEF HasBefore
<1>3. ASSUME NEW i \in 1..(n + 1), \E k \in 1..(n + 1) : k > i /\ f[k] = "large"
      PROVE  \E k \in 1..n : k > i - 1 /\ g[k] = "large"
  <2>1. PICK k \in 1..(n + 1) : k > i /\ f[k] = "large"
    BY <1>3
  <2>2. k - 1 \in 1..n /\ k - 1 > i - 1 /\ g[k - 1] = f[k]
    BY <2>1
  <2> QED
    BY <2>1, <2>2
<1>4. l2 = "advanced" => has2 \/ \E k \in 1..n : g[k] = "large"
  <2>1. SUFFICES ASSUME l2 = "advanced", f[1] # "large"
                 PROVE  has2 \/ \E k \in 1..n : g[k] = "large"
    BY <1>1
  <2>2. 1 \in 1..(n + 1) /\ f[1] = "advanced" /\ 1 - 1 = 0
    BY <2>1
  <2>3. HasBefore(f, has, 1) \/ \E k \in 1..(n + 1) : k > 1 /\ f[k] = "large"
    BY <2>2 DEF MetadataComes
  <2>4. ASSUME HasBefore(f, has, 1)
        PROVE  has2
    <3>1. \A m : m \notin 1..(1 - 1)
      OBVIOUS
    <3>2. has
      BY <2>4, <3>1 DEF HasBefore
    <3> QED
      BY <2>1, <2>2, <3>2
  <2> QED
    BY <1>3, <2>2, <2>3, <2>4
<1>5. ASSUME NEW i \in 1..n, g[i] = "advanced"
      PROVE  HasBefore(g, has2, i) \/ \E k \in 1..n : k > i /\ g[k] = "large"
  <2>1. i + 1 \in 1..(n + 1) /\ i \in 1..(n + 1) /\ f[i + 1] = "advanced" /\ (i + 1) - 1 = i
    BY <1>5
  <2>2. HasBefore(f, has, i + 1) \/ \E k \in 1..(n + 1) : k > i + 1 /\ f[k] = "large"
    BY <2>1 DEF MetadataComes
  <2> QED
    BY <1>2, <1>3, <2>1, <2>2
<1>6. shared => HasBefore(g, has2, n + 1)
  BY <1>2 DEF MetadataComes
<1>7. generates => IF n = 0 THEN Listing(l2) ELSE Listing(g[n])
  <2>1. generates => Listing(f[n + 1])
    BY DEF MetadataComes
  <2>2. n # 0 => g[n] = f[n + 1]
    OBVIOUS
  <2>3. n = 0 /\ generates => l2 = f[1]
    BY <2>1 DEF Listing
  <2> QED
    BY <2>1, <2>2, <2>3
<1>8. \A i \in 1..n : g[i] = "large" => IF i = 1 THEN Listing(l2) ELSE Listing(g[i - 1])
  <2>1. SUFFICES ASSUME NEW i \in 1..n, g[i] = "large"
                 PROVE  IF i = 1 THEN Listing(l2) ELSE Listing(g[i - 1])
    OBVIOUS
  <2>2. i + 1 \in 1..(n + 1) /\ f[i + 1] = "large" /\ i + 1 # 1 /\ (i + 1) - 1 = i
    BY <2>1
  <2>3. Listing(f[i])
    BY <2>2 DEF MetadataComes
  <2>4. CASE i = 1
    <3>1. f[1] # "large"
      BY <2>3, <2>4 DEF Listing
    <3> QED
      BY <2>3, <2>4, <3>1
  <2>5. CASE i # 1
    <3>1. i - 1 \in 1..n /\ g[i - 1] = f[i]
      BY <2>5
    <3> QED
      BY <2>3, <2>5, <3>1
  <2> QED
    BY <2>4, <2>5
<1> QED
  BY <1>4, <1>5, <1>6, <1>7, <1>8 DEF MetadataComes

-----------------------------------------------------------------------------
(* The types, the dictionary, and the messages that wait.                  *)

\* What is on the wire is a list or a large status.
LEMMA WireType == ASSUME NEW s \in Seq(Pickles) PROVE s \in Seq(JobLists \union Messages)
<1>1. Pickles \subseteq JobLists \union Messages
  BY DEF Pickles, Messages
<1> QED
  BY <1>1

\* A message that is sent says what it will say.
LEMMA PickledFacts ==
    ASSUME stage \in [Job -> Stages \union {"unborn", "dead"}],
           NEW m \in Messages, Alive(m)
    PROVE  /\ Pickled(m) \in Pickles /\ Pickled(m).type = m.type
           /\ Kind(Pickled(m)) = KindOf(m)
           /\ m.type = "list" =>
                Pickled(m).stage = IF m.job = NoJob THEN "absent" ELSE StageOf(m.job)
<1>1. NoValue \notin Pickles
  <2>1. Pickles \subseteq Messages \union JobLists
    BY DEF Pickles, Messages
  <2> QED
    BY <2>1, NoValueAssumption
<1>2. CASE m.type = "large"
  <2>1. Pickled(m) = m /\ m \in [type : {"large"}, job : Job]
    BY <1>2 DEF Pickled, Messages
  <2> QED
    BY <1>1, <1>2, <2>1 DEF Pickles, Kind, KindOf
<1>3. CASE m.type # "large"
  <2>1. m \in [type : {"list"}, job : Job \union {NoJob}, others : BOOLEAN]
    BY <1>3 DEF Messages
  <2>2. Pickled(m) = [type |-> "list", json |-> FALSE, others |-> m.others,
                      stage |-> IF m.job = NoJob THEN "absent" ELSE StageOf(m.job)]
    BY <1>3 DEF Pickled
  <2>3. CASE m.job = NoJob
    <3>1. Pickled(m) \in Pickles
      BY <2>1, <2>2, <2>3 DEF Pickles, JobLists
    <3> QED
      BY <1>1, <1>3, <2>1, <2>2, <2>3, <3>1 DEF Kind, KindOf
  <2>4. CASE m.job # NoJob
    <3>1. m.job \in Job /\ stage[m.job] \in Stages
      BY <2>1, <2>4 DEF Alive
    <3>2. /\ StageOf(m.job) \in JobStage
          /\ StageOf(m.job) \in {"merge", "ready"}
               <=> stage[m.job] \in {"merge", "ready", "stored"}
      BY <3>1 DEF StageOf, Stages, JobStage
    <3>3. Pickled(m) \in Pickles
      BY <2>1, <2>2, <2>4, <3>2 DEF Pickles, JobLists
    <3> DEFINE p == Pickled(m)
    <3>4. p # NoValue /\ p.type = "list" /\ p.stage = StageOf(m.job) /\ p.stage # "absent"
      <4>1. p = [type |-> "list", json |-> FALSE, others |-> m.others, stage |-> StageOf(m.job)]
        BY <2>2, <2>4
      <4>2. p.type = "list" /\ p.stage = StageOf(m.job)
        BY <4>1
      <4>3. StageOf(m.job) # "absent"
        BY <3>2 DEF JobStage
      <4> QED
        BY <1>1, <3>3, <4>2, <4>3
    <3> HIDE DEF p
    <3>5. Kind(p) = KindOf(m)
      BY <1>3, <2>4, <3>2, <3>4 DEF Kind, KindOf
    <3> QED
      BY <2>1, <2>4, <3>3, <3>4, <3>5 DEF p
  <2> QED
    BY <2>3, <2>4
<1> QED
  BY <1>2, <1>3

\* Messages stay about jobs of this coordinator while there is one.
StagesKept == \A k \in Job : stage[k] \in Stages => stage'[k] \in Stages

\* It stays so.
LEMMA StillAlive == ASSUME StagesKept, NEW m \in Messages, Alive(m) PROVE Alive(m)'
<1>1. m.type = "list" /\ m.job # NoJob => m.job \in Job
  BY DEF Messages
<1> QED
  BY <1>1 DEF Alive, StagesKept

\* What is put is about the entry.
LEMMA PutAlive ==
    ASSUME TypeOK, MessagesAlive, StagesKept, UNCHANGED queue,
           NEW msgs \in Seq(Messages), Len(msgs) >= 1, Put(msgs),
           \A i \in 1..Len(msgs) : Alive(msgs[i])'
    PROVE  MessagesAlive' /\ upstream' \in Seq(Messages) /\ last' \in Messages
<1>1. upstream \in Seq(Messages) /\ queue \in Seq(Messages)
  BY DEF TypeOK
<1> DEFINE n == Len(upstream)
<1>2. /\ upstream' \in Seq(Messages) /\ last' \in Messages
      /\ n \in Nat /\ Len(msgs) \in Nat /\ Len(upstream') = n + Len(msgs)
      /\ \A i \in 1..n : upstream'[i] = upstream[i]
      /\ \A i \in 1..Len(msgs) : upstream'[n + i] = msgs[i]
      /\ last' = msgs[Len(msgs)]
  BY <1>1, PutFacts
<1>3. Alive(last)'
  BY <1>2
<1>4. \A i \in 1..Len(upstream)' : Alive(upstream[i])'
  <2>1. TAKE i \in 1..Len(upstream)'
  <2>2. CASE i \in 1..n
    <3>1. Alive(upstream[i]) /\ upstream[i] \in Messages
      BY <1>1, <2>2, ElementOfSeq DEF MessagesAlive
    <3> QED
      BY <1>2, <2>2, <3>1, StillAlive DEF Alive
  <2>3. CASE i \notin 1..n
    <3>1. i - n \in 1..Len(msgs) /\ upstream'[i] = msgs[i - n]
      BY <1>2, <2>1, <2>3
    <3> QED
      BY <3>1 DEF Alive
  <2> QED
    BY <2>2, <2>3
<1>5. \A i \in 1..Len(queue)' : Alive(queue[i])'
  <2>1. TAKE i \in 1..Len(queue)'
  <2>2. i \in 1..Len(queue) /\ Alive(queue[i]) /\ queue[i] \in Messages
    BY <1>1, <2>1, ElementOfSeq DEF MessagesAlive
  <2> QED
    BY <2>2, StillAlive DEF Alive
<1> QED
  BY <1>2, <1>3, <1>4, <1>5 DEF MessagesAlive

\* What nothing is put into keeps its messages.
LEMMA QuietAlive ==
    ASSUME TypeOK, MessagesAlive, StagesKept, UNCHANGED <<last, upstream, queue>>
    PROVE  MessagesAlive'
<1>1. /\ upstream \in Seq(Messages) /\ queue \in Seq(Messages)
      /\ last # NoValue => last \in Messages
  BY DEF TypeOK
<1>2. last # NoValue => Alive(last)'
  BY <1>1, StillAlive DEF MessagesAlive
<1>3. \A i \in 1..Len(upstream) : Alive(upstream[i])'
  <2>1. TAKE i \in 1..Len(upstream)
  <2>2. upstream[i] \in Messages /\ Alive(upstream[i])
    BY <1>1, ElementOfSeq DEF MessagesAlive
  <2> QED
    BY <2>2, StillAlive DEF Alive
<1>4. \A i \in 1..Len(queue) : Alive(queue[i])'
  <2>1. TAKE i \in 1..Len(queue)
  <2>2. queue[i] \in Messages /\ Alive(queue[i])
    BY <1>1, ElementOfSeq DEF MessagesAlive
  <2> QED
    BY <2>2, StillAlive DEF Alive
<1> QED
  BY <1>2, <1>3, <1>4 DEF MessagesAlive, Alive

Kept == JobsInv /\ TypeOK

\* The lists that are put are messages.
LEMMA ListFacts ==
    ASSUME NEW j \in Job \union {NoJob}, NEW o \in BOOLEAN
    PROVE  /\ JobList(j, o) \in Messages /\ JobList(j, o).type = "list"
           /\ JobList(j, o).job = j /\ JobList(j, o).others = o
           /\ <<JobList(j, o)>> \in Seq(Messages)
BY DEF JobList, Messages

\* The large statuses too.
LEMMA LargeFacts ==
    ASSUME NEW j \in Job
    PROVE  /\ Large(j) \in Messages /\ Large(j).type = "large" /\ Large(j).job = j
           /\ <<Large(j)>> \in Seq(Messages)
BY DEF Large, Messages

\* No job is numbered 0.
LEMMA JobFacts == NoJob \notin Job /\ Job \subseteq Nat
BY BoundsAssumption DEF NoJob, Job

\* One message is put.
LEMMA PutOneAlive ==
    ASSUME TypeOK, MessagesAlive, StagesKept, UNCHANGED queue,
           NEW m \in Messages, Put(<<m>>), Alive(m)'
    PROVE  MessagesAlive' /\ upstream' \in Seq(Messages) /\ last' \in Messages
<1>1. PICK msgs : msgs = <<m>>
  OBVIOUS
<1>2. msgs \in Seq(Messages) /\ Len(msgs) = 1 /\ Len(msgs) >= 1 /\ msgs[1] = m
  BY <1>1
<1>3. \A i \in 1..Len(msgs) : Alive(msgs[i])'
  BY <1>2 DEF Alive
<1>4. Put(msgs)
  BY <1>1
<1> QED
  BY <1>2, <1>3, <1>4, PutAlive

\* The list of the entry, as it will be.
LEMMA NotifyAlive ==
    ASSUME TypeOK, MessagesAlive, StagesKept, UNCHANGED queue, NotifyProgress,
           entry' \in Job \union {NoJob}, others' \in BOOLEAN,
           entry' # NoJob => stage'[entry'] \in Stages
    PROVE  MessagesAlive' /\ upstream' \in Seq(Messages) /\ last' \in Messages
<1>1. PICK m : m = JobList(entry', others')
  OBVIOUS
<1>2. m \in Messages /\ m.job = entry'
  BY <1>1, ListFacts
<1>3. Alive(m)' /\ Put(<<m>>)
  BY <1>1, <1>2 DEF Alive, NotifyProgress
<1> QED
  BY <1>2, <1>3, PutOneAlive

\* A new job is the entry, as there was none.
LEMMA PushJobs == ASSUME Kept, NEW j \in Job, Push(j) PROVE Kept'
<1> USE DEF Kept, JobsInv
<1>1. StagesKept
  BY DEF Push, StagesKept, TypeOK, Stages
<1>2. MessagesAlive'
  BY <1>1, QuietAlive DEF Push, coordinatorVars, connection
<1>3. EntryInv'
  BY JobFacts DEF EntryInv, TypeOK, Push, Active
<1>4. TypeOK' /\ UNCHANGED wire
  BY DEF TypeOK, Push, Stages, connection, frontendVars, viewerVars, counters
<1> QED
  BY <1>2, <1>3, <1>4

\* The entry begins to generate, and its list is put.
LEMMA GenerateJobs == ASSUME Kept, NEW j \in Job, Generate(j) PROVE Kept'
<1> USE DEF Kept, JobsInv
<1>1. StagesKept
  BY DEF Generate, Enter, StagesKept, TypeOK, Stages
<1>2. entry = j
  BY DEF Generate, Enter, EntryInv, Active
<1>3. EntryInv'
  BY <1>2, JobFacts DEF EntryInv, TypeOK, Generate, Enter, Active
<1>4. /\ entry' \in Job \union {NoJob} /\ others' \in BOOLEAN
      /\ entry' # NoJob => stage'[entry'] \in Stages
  BY <1>2 DEF TypeOK, Generate, Enter, Stages
<1>5. MessagesAlive' /\ upstream' \in Seq(Messages) /\ last' \in Messages
  BY <1>1, <1>4, NotifyAlive DEF Generate, NotifyProgress, connection
<1>6. TypeOK' /\ UNCHANGED wire
  BY <1>5 DEF TypeOK, Generate, Enter, Stages, connection, frontendVars, viewerVars, counters
<1> QED
  BY <1>3, <1>5, <1>6

\* A list of the entry is put, whatever the other visits do.
LEMMA TrafficJobs == ASSUME Kept, Traffic PROVE Kept'
<1> USE DEF Kept, JobsInv
<1>1. StagesKept
  BY DEF Traffic, StagesKept
<1>2. /\ entry' \in Job \union {NoJob} /\ others' \in BOOLEAN
      /\ entry' # NoJob => stage'[entry'] \in Stages
  BY DEF TypeOK, EntryInv, Traffic, Stages, Active
<1>3. MessagesAlive' /\ upstream' \in Seq(Messages) /\ last' \in Messages
  BY <1>1, <1>2, NotifyAlive DEF Traffic, NotifyProgress, connection
<1>4. TypeOK' /\ UNCHANGED wire
  BY <1>3, BoundsAssumption DEF TypeOK, Traffic, connection, frontendVars, viewerVars
<1>5. EntryInv'
  BY DEF EntryInv, Traffic
<1> QED
  BY <1>3, <1>4, <1>5

\* The metadata of the entry are put.
LEMMA ShareJobs == ASSUME Kept, NEW j \in Job, Share(j) PROVE Kept'
<1> USE DEF Kept, JobsInv
<1>1. StagesKept
  BY DEF Share, Enter, StagesKept, TypeOK, Stages
<1>2. entry = j
  BY DEF Share, Enter, EntryInv, Active
<1>3. EntryInv'
  BY <1>2, JobFacts DEF EntryInv, TypeOK, Share, Enter, Active
<1>4. Alive(Large(j))'
  BY LargeFacts DEF Alive
<1>5. MessagesAlive' /\ upstream' \in Seq(Messages) /\ last' \in Messages
  BY <1>1, <1>4, LargeFacts, PutOneAlive DEF Share, connection
<1>6. TypeOK' /\ UNCHANGED wire
  BY <1>5 DEF TypeOK, Share, Enter, Stages, connection, frontendVars, viewerVars, counters
<1> QED
  BY <1>3, <1>5, <1>6

\* The entry begins to merge, and its list is put.
LEMMA MergeJobs == ASSUME Kept, NEW j \in Job, Merge(j) PROVE Kept'
<1> USE DEF Kept, JobsInv
<1>1. StagesKept
  BY DEF Merge, Enter, StagesKept, TypeOK, Stages
<1>2. entry = j
  BY DEF Merge, Enter, EntryInv, Active
<1>3. EntryInv'
  BY <1>2, JobFacts DEF EntryInv, TypeOK, Merge, Enter, Active
<1>4. /\ entry' \in Job \union {NoJob} /\ others' \in BOOLEAN
      /\ entry' # NoJob => stage'[entry'] \in Stages
  BY <1>2 DEF TypeOK, Merge, Enter, Stages
<1>5. MessagesAlive' /\ upstream' \in Seq(Messages) /\ last' \in Messages
  BY <1>1, <1>4, NotifyAlive DEF Merge, NotifyProgress, connection
<1>6. TypeOK' /\ UNCHANGED wire
  BY <1>5 DEF TypeOK, Merge, Enter, Stages, connection, frontendVars, viewerVars, counters
<1> QED
  BY <1>3, <1>5, <1>6

\* The entry is ready: the list that says so and the one without it are both alive.
LEMMA ReadyJobs == ASSUME Kept, NEW j \in Job, Ready(j) PROVE Kept'
<1> USE DEF Kept, JobsInv
<1>1. StagesKept
  BY DEF Ready, Enter, StagesKept, TypeOK, Stages
<1>2. entry = j /\ ~removal
  BY DEF Ready, Enter, EntryInv, Active, TypeOK
<1>3. EntryInv'
  BY <1>2, JobFacts DEF EntryInv, TypeOK, Ready, Enter, Active
<1> DEFINE msgs == <<JobList(j, others), JobList(NoJob, others)>>
<1>4. msgs \in Seq(Messages) /\ Len(msgs) = 2
  <2>1. JobList(j, others) \in Messages /\ JobList(NoJob, others) \in Messages
    BY ListFacts, JobFacts DEF TypeOK
  <2> QED
    BY <2>1
<1>5. Alive(JobList(j, others))' /\ Alive(JobList(NoJob, others))'
  BY JobFacts, ListFacts DEF Alive, TypeOK, Ready, Enter, Stages, JobList
<1>6. \A i \in 1..Len(msgs) : Alive(msgs[i])'
  BY <1>4, <1>5 DEF Alive
<1>7. MessagesAlive' /\ upstream' \in Seq(Messages) /\ last' \in Messages
  <2>1. PICK ms : ms = msgs
    OBVIOUS
  <2>2. /\ Put(ms) /\ UNCHANGED queue
        /\ ms \in Seq(Messages) /\ Len(ms) = 2 /\ \A i \in 1..Len(ms) : Alive(ms[i])'
    BY <1>4, <1>6, <2>1 DEF Ready, connection
  <2> HIDE DEF msgs
  <2>3. Len(ms) >= 1
    BY <2>2
  <2> QED
    BY <1>1, <2>2, <2>3, PutAlive
<1>8. TypeOK' /\ UNCHANGED wire
  BY <1>2, <1>7 DEF TypeOK, Ready, Enter, Stages, connection, frontendVars, viewerVars, counters
<1> QED
  BY <1>3, <1>7, <1>8

\* A job that is ready is the entry no more.
LEMMA StoreJobs == ASSUME Kept, NEW j \in Job, Store(j) PROVE Kept'
<1> USE DEF Kept, JobsInv
<1>1. StagesKept
  BY DEF Store, Enter, StagesKept, TypeOK, Stages
<1>2. MessagesAlive'
  BY <1>1, QuietAlive DEF Store, connection
<1>3. EntryInv'
  BY JobFacts DEF EntryInv, TypeOK, Store, Enter, Active
<1>4. TypeOK' /\ UNCHANGED wire
  BY DEF TypeOK, Store, Enter, Stages, connection, frontendVars, viewerVars, counters
<1> QED
  BY <1>2, <1>3, <1>4

\* The job that failed stays the entry until it is removed.
LEMMA FailJobs == ASSUME Kept, NEW j \in Job, Fail(j) PROVE Kept'
<1> USE DEF Kept, JobsInv
<1>1. StagesKept
  BY DEF Fail, StagesKept, TypeOK, Stages
<1>2. entry = j
  BY DEF Fail, EntryInv, Active
<1>3. EntryInv'
  BY <1>2, JobFacts DEF EntryInv, TypeOK, Fail, Active
<1>4. /\ entry' \in Job \union {NoJob} /\ others' \in BOOLEAN
      /\ entry' # NoJob => stage'[entry'] \in Stages
  BY <1>2 DEF TypeOK, Fail, Stages
<1>5. MessagesAlive' /\ upstream' \in Seq(Messages) /\ last' \in Messages
  BY <1>1, <1>4, NotifyAlive DEF Fail, NotifyProgress, connection
<1>6. TypeOK' /\ UNCHANGED wire
  BY <1>2, <1>5, JobFacts
  DEF TypeOK, Fail, Stages, connection, frontendVars, viewerVars, counters
<1> QED
  BY <1>3, <1>5, <1>6

\* The failed entry is removed, and the list without it is put.
LEMMA RemoveFailedJobs == ASSUME Kept, RemoveFailed PROVE Kept'
<1> USE DEF Kept, JobsInv
<1>1. StagesKept
  BY DEF RemoveFailed, StagesKept
<1>2. EntryInv'
  BY JobFacts DEF EntryInv, TypeOK, RemoveFailed, Active
<1>3. entry' = NoJob /\ others' \in BOOLEAN
  BY DEF TypeOK, RemoveFailed
<1>4. MessagesAlive' /\ upstream' \in Seq(Messages) /\ last' \in Messages
  BY <1>1, <1>3, NotifyAlive DEF RemoveFailed, NotifyProgress, connection
<1>5. /\ entry' = NoJob /\ removal' \in BOOLEAN /\ ~removal'
      /\ UNCHANGED <<stage, others, row, connection, frontendVars, viewerVars, counters>>
  BY DEF RemoveFailed
<1>6. TypeOK' /\ UNCHANGED wire
  BY <1>4, <1>5 DEF TypeOK, connection, frontendVars, viewerVars, counters
<1> QED
  BY <1>2, <1>4, <1>6

\* A message that is handed out is alive where it comes.
LEMMA DistributeJobs == ASSUME Kept, Distribute PROVE Kept'
<1> USE DEF Kept, JobsInv
<1> DEFINE n == Len(upstream)
<1>1. upstream \in Seq(Messages) /\ queue \in Seq(Messages) /\ upstream # <<>>
  BY DEF TypeOK, Distribute
<1>2. /\ upstream' = Tail(upstream) /\ upstream' \in Seq(Messages)
      /\ n \in Nat /\ n >= 1 /\ Len(upstream') = n - 1 /\ Head(upstream) = upstream[1]
      /\ \A i \in 1..(n - 1) : upstream'[i] = upstream[i + 1]
      /\ upstream[1] \in Messages
  BY <1>1, TailFacts DEF Distribute
<1>3. UNCHANGED stage /\ \A i \in 1..n : Alive(upstream[i])
  BY DEF MessagesAlive, Distribute
<1>4. \A i \in 1..Len(queue) : Alive(queue[i])
  BY DEF MessagesAlive
<1>5. queue' \in Seq(Messages) /\ \A i \in 1..Len(queue)' : Alive(queue[i])'
  <2>1. CASE ~connected
    BY <1>1, <1>3, <1>4, <2>1 DEF Distribute, Alive
  <2>2. CASE connected
    <3>1. queue' = Append(queue, upstream[1])
      BY <1>2, <2>2 DEF Distribute
    <3>2. /\ queue' \in Seq(Messages) /\ Len(queue) \in Nat /\ Len(queue') = Len(queue) + 1
          /\ \A i \in 1..Len(queue) : queue'[i] = queue[i]
          /\ queue'[Len(queue) + 1] = upstream[1]
      BY <1>1, <1>2, <3>1, AppendFacts
    <3>3. Alive(upstream[1])
      BY <1>2, <1>3
    <3>4. ASSUME NEW i \in 1..Len(queue)'
          PROVE  Alive(queue[i])'
      <4>1. CASE i \in 1..Len(queue)
        BY <1>3, <1>4, <3>2, <4>1 DEF Alive
      <4>2. CASE i = Len(queue) + 1
        BY <1>3, <3>2, <3>3, <4>2 DEF Alive
      <4> QED
        BY <3>2, <3>4, <4>1, <4>2
    <3> QED
      BY <3>2, <3>4
  <2> QED
    BY <2>1, <2>2
<1>6. MessagesAlive'
  <2>1. \A i \in 1..Len(upstream)' : Alive(upstream[i])'
    BY <1>2, <1>3 DEF Alive
  <2>2. (last # NoValue)' => Alive(last)'
    BY DEF MessagesAlive, Alive, Distribute
  <2> QED
    BY <1>5, <2>1, <2>2 DEF MessagesAlive
<1>7. TypeOK' /\ EntryInv' /\ UNCHANGED wire
  BY <1>2, <1>5 DEF TypeOK, EntryInv, Distribute, frontendVars, viewerVars, counters
<1> QED
  BY <1>6, <1>7

\* Nothing is under way.
LEMMA NoMessages ==
    /\ <<>> \in Seq(Messages) /\ <<>> \in Seq(JobLists) /\ <<>> \in Seq(Pickles)
    /\ <<>> \in Seq(JobLists \union Messages) /\ Len(<<>>) = 0 /\ 1..0 = {}
OBVIOUS

\* A coordinator that crashed has no entry and no message.
LEMMA CrashJobs == ASSUME Kept, Crash PROVE Kept'
<1> USE DEF Kept, JobsInv
<1>1. MessagesAlive' /\ wire' \in Seq(Pickles)
  BY NoMessages DEF MessagesAlive, Crash
<1>2. EntryInv'
  BY DEF EntryInv, Crash, Active
<1>3. /\ entry' = NoJob /\ removal' \in BOOLEAN /\ ~removal' /\ others' \in BOOLEAN
      /\ connected' \in BOOLEAN
  BY DEF Crash
<1>4. stage' \in [Job -> Stages \union {"unborn", "dead"}]
  BY DEF TypeOK, Crash
<1>5. traffic' \in 0..MaxTraffic /\ faults' \in 0..MaxFaults
  BY BoundsAssumption DEF TypeOK, Crash, Fault
<1>6. TypeOK'
  BY <1>3, <1>4, <1>5, NoMessages DEF TypeOK, Crash, frontendVars, viewerVars
<1> QED
  BY <1>1, <1>2, <1>6

\* A new subscriber gets the last value, which is alive.
LEMMA ConnectJobs == ASSUME Kept, Connect PROVE Kept'
<1> USE DEF Kept, JobsInv
<1>1. queue' \in Seq(Messages) /\ \A i \in 1..Len(queue') : queue'[i] = last /\ last # NoValue
  BY NoMessages DEF TypeOK, Connect
<1>2. MessagesAlive'
  BY <1>1 DEF MessagesAlive, Alive, Connect, coordinatorVars
<1>3. TypeOK' /\ EntryInv' /\ UNCHANGED wire
  BY <1>1 DEF TypeOK, EntryInv, Connect, coordinatorVars, frontendVars, viewerVars, counters
<1> QED
  BY <1>2, <1>3

\* What is sent is pickled.
LEMMA SendJobs == ASSUME Kept, Send PROVE Kept'
<1> USE DEF Kept, JobsInv
<1>1. queue \in Seq(Messages) /\ queue # <<>> /\ wire \in Seq(Pickles)
  BY DEF TypeOK, Send
<1>2. /\ queue' = Tail(queue) /\ queue' \in Seq(Messages) /\ Len(queue) \in Nat
      /\ Len(queue) >= 1 /\ Len(queue') = Len(queue) - 1
      /\ Head(queue) = queue[1] /\ queue[1] \in Messages
      /\ \A i \in 1..(Len(queue) - 1) : queue'[i] = queue[i + 1]
  BY <1>1, TailFacts DEF Send
<1>3. Pickled(queue[1]) \in Pickles
  BY <1>2, PickledFacts DEF MessagesAlive, TypeOK
<1>4. wire' \in Seq(Pickles)
  BY <1>1, <1>2, <1>3, AppendFacts DEF Send
<1>5. \A i \in 1..Len(queue)' : Alive(queue[i])'
  BY <1>2 DEF MessagesAlive, Alive, Send, coordinatorVars
<1>6. MessagesAlive'
  BY <1>5 DEF MessagesAlive, Alive, Send, coordinatorVars
<1>7. wire' \in Seq(JobLists \union Messages)
  BY <1>4, WireType
<1>8. TypeOK' /\ EntryInv'
  BY <1>2, <1>7
  DEF TypeOK, EntryInv, Send, coordinatorVars, frontendVars, viewerVars, counters
<1> QED
  BY <1>4, <1>6, <1>8

\* A connection that ends takes everything with it that is under way.
LEMMA DisconnectJobs ==
    ASSUME Kept, Disconnect, UNCHANGED coordinatorVars
    PROVE  /\ JobsInv' /\ queue' \in Seq(Messages) /\ connected' \in BOOLEAN
           /\ wire' \in Seq(JobLists \union Messages)
<1> USE DEF Kept, JobsInv
<1>1. MessagesAlive' /\ EntryInv'
  BY NoMessages DEF MessagesAlive, Alive, EntryInv, Disconnect, coordinatorVars
<1> QED
  BY <1>1, NoMessages DEF Disconnect

\* A connection that was lost has nothing under way.
LEMMA DropJobs == ASSUME Kept, Drop PROVE Kept'
<1>1. /\ JobsInv' /\ queue' \in Seq(Messages) /\ connected' \in BOOLEAN
      /\ wire' \in Seq(JobLists \union Messages)
  BY DisconnectJobs DEF Drop
<1>2. traffic' \in 0..MaxTraffic /\ faults' \in 0..MaxFaults
  BY BoundsAssumption DEF Kept, TypeOK, Drop, Fault
<1>3. TypeOK'
  BY <1>1, <1>2 DEF Kept, TypeOK, Drop, coordinatorVars, frontendVars, viewerVars
<1> QED
  BY <1>1, <1>3 DEF Kept

\* Only the frontend's variables change.
LEMMA CoordinatorKept ==
    ASSUME Kept, UNCHANGED <<coordinatorVars, queue>>, wire' \in Seq(Pickles)
    PROVE  JobsInv'
BY DEF Kept, JobsInv, MessagesAlive, Alive, EntryInv, coordinatorVars

\* What is received leaves the websocket.
LEMMA ReceiveJobs == ASSUME Kept, Receive PROVE Kept'
<1> USE DEF Kept
<1>1. wire \in Seq(Pickles) /\ wire # <<>>
  BY DEF JobsInv, Receive
<1>2. /\ Head(wire) \in Pickles /\ Tail(wire) \in Seq(Pickles)
      /\ wire' \in Seq(Pickles)
  BY <1>1, TailFacts DEF Receive
<1>3. JobsInv'
  BY <1>2, CoordinatorKept DEF Receive
<1>4. wire' \in Seq(JobLists \union Messages)
  BY <1>2, WireType
<1>5. /\ list' \in JobLists \union {NoValue} /\ lists' \in Seq(JobLists)
      /\ large' \in BOOLEAN /\ recent' \in BOOLEAN
      /\ poll' \in {<<"none">>, poll}
  <2>1. CASE Head(wire).type = "large"
    BY <2>1 DEF TypeOK, Receive, ReceiveLarge
  <2>2. CASE Head(wire).type # "large"
    <3>1. Head(wire) \in JobLists
      BY <1>2, <2>2 DEF Pickles
    <3>2. ReceiveList(Head(wire))
      BY <2>2 DEF Receive
    <3> QED
      BY <3>1, <3>2, AppendFacts DEF TypeOK, ReceiveList, PutList
  <2> QED
    BY <2>1, <2>2
<1>6. TypeOK'
  BY <1>4, <1>5 DEF TypeOK, Receive, coordinatorVars, viewerVars, counters
<1> QED
  BY <1>3, <1>6

\* The exception ends the connection.
LEMMA ReceiveFailsJobs == ASSUME Kept, ReceiveFails PROVE Kept'
<1>1. /\ JobsInv' /\ queue' \in Seq(Messages) /\ connected' \in BOOLEAN
      /\ wire' \in Seq(JobLists \union Messages)
  BY DisconnectJobs DEF ReceiveFails
<1>2. large' \in BOOLEAN
  BY DEF Kept, TypeOK, ReceiveFails
<1>3. TypeOK'
  BY <1>1, <1>2 DEF Kept, TypeOK, ReceiveFails, coordinatorVars, viewerVars, counters
<1> QED
  BY <1>1, <1>3 DEF Kept

\* The time that the metadata are remembered says nothing of jobs.
LEMMA ExpireJobs == ASSUME Kept, Expire PROVE Kept'
<1>1. JobsInv'
  BY CoordinatorKept DEF Expire, connection, Kept, JobsInv
<1>2. recent' \in BOOLEAN
  BY DEF Expire
<1> QED
  BY <1>1, <1>2 DEF Kept, TypeOK, Expire, coordinatorVars, connection, viewerVars, counters

\* The answer to the HTTP request is a list of the entry.
LEMMA PollJobs == ASSUME Kept, Poll PROVE Kept'
<1>1. JobsInv'
  BY CoordinatorKept DEF Poll, connection, Kept, JobsInv
<1>2. poll' \in {"asked"} \X JobLists
  <2>1. PICK m : m = JobList(entry, others)
    OBVIOUS
  <2>2. m \in Messages /\ m.type = "list" /\ Alive(m)
    BY <2>1, ListFacts, ZenonT(40) DEF Kept, TypeOK, JobsInv, EntryInv, Alive, Active, Stages
  <2>3. Pickled(m) \in Pickles /\ Pickled(m).type = "list"
    BY <2>2, PickledFacts DEF Kept, TypeOK
  <2>4. Pickled(m) \in JobLists
    BY <2>3 DEF Pickles
  <2>5. [Pickled(m) EXCEPT !.json = TRUE] \in JobLists
    BY <2>4 DEF JobLists
  <2> QED
    BY <2>1, <2>5 DEF Poll
<1>3. traffic' \in 0..MaxTraffic /\ faults' \in 0..MaxFaults
  BY BoundsAssumption DEF Kept, TypeOK, Poll, Fault
<1> QED
  BY <1>1, <1>2, <1>3 DEF Kept, TypeOK, Poll, coordinatorVars, connection, viewerVars

\* The answer is a list.
LEMMA PollAnsweredJobs == ASSUME Kept, PollAnswered PROVE Kept'
<1>1. JobsInv'
  BY CoordinatorKept DEF PollAnswered, connection, Kept, JobsInv
<1>2. poll[2] \in JobLists
  BY DEF Kept, TypeOK, PollAnswered
<1>3. list' \in JobLists /\ lists' \in Seq(JobLists)
  BY <1>2, AppendFacts DEF Kept, TypeOK, PollAnswered, PutList
<1> QED
  BY <1>1, <1>3
  DEF Kept, TypeOK, PollAnswered, coordinatorVars, connection, viewerVars, counters

\* What is dropped from a full queue makes room for one.
LEMMA EnqueueFacts ==
    ASSUME NEW q \in Seq(JobLists), Len(q) <= MaxQueueSize, NEW l \in JobLists
    PROVE  /\ Enqueue(q, l) \in Seq(JobLists) /\ Len(Enqueue(q, l)) <= MaxQueueSize
           /\ Enqueue(q, l) # <<>> /\ Enqueue(q, l)[Len(Enqueue(q, l))] = l
<1>1. CASE Len(q) < MaxQueueSize
  BY <1>1, AppendFacts, QueueAssumption DEF Enqueue
<1>2. CASE ~(Len(q) < MaxQueueSize)
  <2>1. q # <<>> /\ Len(q) = MaxQueueSize
    BY <1>2, QueueAssumption, EmptyFacts
  <2>2. Tail(q) \in Seq(JobLists) /\ Len(Tail(q)) = Len(q) - 1 /\ Len(q) \in Nat
    BY <2>1, TailFacts
  <2>3. Enqueue(q, l) = Append(Tail(q), l)
    BY <1>2 DEF Enqueue
  <2> QED
    BY <2>1, <2>2, <2>3, AppendFacts
<1> QED
  BY <1>1, <1>2

\* A list that is handed out is a list in the queue of the viewer, which has room.
LEMMA DistributeListJobs == ASSUME Kept, DistributeList PROVE Kept'
<1>1. JobsInv'
  BY CoordinatorKept DEF DistributeList, connection, Kept, JobsInv
<1>2. Head(lists) \in JobLists /\ lists' \in Seq(JobLists)
  BY TailFacts DEF Kept, TypeOK, DistributeList
<1>3. items' \in Seq(JobLists) /\ Len(items') <= MaxQueueSize
  BY <1>2, EnqueueFacts DEF Kept, TypeOK, DistributeList
<1> QED
  BY <1>1, <1>2, <1>3
  DEF Kept, TypeOK, DistributeList, coordinatorVars, connection, counters

\* A new frontend knows nothing.
LEMMA RestartFrontendJobs == ASSUME Kept, RestartFrontend PROVE Kept'
<1>1. /\ JobsInv' /\ queue' \in Seq(Messages) /\ connected' \in BOOLEAN
      /\ wire' \in Seq(JobLists \union Messages)
  BY DisconnectJobs DEF RestartFrontend
<1>2. traffic' \in 0..MaxTraffic /\ faults' \in 0..MaxFaults
  BY BoundsAssumption DEF Kept, TypeOK, RestartFrontend, Fault
<1>3. large' \in BOOLEAN /\ recent' \in BOOLEAN /\ items' = <<>>
  BY DEF RestartFrontend
<1>4. TypeOK'
  BY <1>1, <1>2, <1>3, NoMessages, QueueAssumption
  DEF Kept, TypeOK, RestartFrontend, coordinatorVars
<1> QED
  BY <1>1, <1>4 DEF Kept

\* The viewer looks into the DB.
LEMMA LookJobs == ASSUME Kept, Look PROVE Kept'
<1>1. JobsInv'
  BY CoordinatorKept DEF Look, connection, Kept, JobsInv
<1>2. viewer' \in {"looked", "answered"} /\ shown' \in QuicklookMetadata \union {"none"}
  BY DEF Kept, TypeOK, Look, QuicklookMetadata
<1> QED
  BY <1>1, <1>2
  DEF Kept, TypeOK, Look, coordinatorVars, connection, frontendVars, counters

\* The viewer gets the last list, if there is one.
LEMMA SubscribeJobs == ASSUME Kept, Subscribe PROVE Kept'
<1>1. JobsInv'
  BY CoordinatorKept DEF Subscribe, connection, Kept, JobsInv
<1>2. items' \in Seq(JobLists) /\ Len(items') <= MaxQueueSize
  BY NoMessages, QueueAssumption DEF Kept, TypeOK, Subscribe
<1> QED
  BY <1>1, <1>2
  DEF Kept, TypeOK, Subscribe, coordinatorVars, connection, frontendVars, counters

\* What is seen and shown has its type.
LEMMA SeenFacts ==
    ASSUME TypeOK, NEW l \in JobLists
    PROVE  /\ Seen(l) \in JobStage \union {"none"} /\ View(Seen(l)) \in QuicklookMetadata
           /\ Lists(l) => Seen(l) = l.stage
<1>1. l # NoValue
  BY NoValueAssumption
<1>2. Seen(l) \in JobStage \union {"none"}
  BY <1>1 DEF Seen, Lists, JobLists, TypeOK
<1> QED
  BY <1>2 DEF View, JobStage, QuicklookMetadata, Seen

\* What the viewer is shown is a stage.
LEMMA TakeJobs == ASSUME Kept, Take PROVE Kept'
<1>1. JobsInv'
  BY CoordinatorKept DEF Take, connection, Kept, JobsInv
<1>2. /\ Head(items) \in JobLists /\ Tail(items) \in Seq(JobLists)
      /\ Len(Tail(items)) <= MaxQueueSize
  BY TailFacts, QueueAssumption DEF Kept, TypeOK, Take
<1>3. /\ items' \in {<<>>, Tail(items)} /\ viewer' \in {viewer, "away"}
      /\ seen' \in {"none", Seen(Head(items))} /\ shown' \in {"none", View(Seen(Head(items)))}
  BY DEF Take
<1>4. /\ items' \in Seq(JobLists) /\ Len(items') <= MaxQueueSize
      /\ seen' \in JobStage \union {"none"} /\ shown' \in QuicklookMetadata \union {"none"}
  <2>1. /\ Seen(Head(items)) \in JobStage \union {"none"}
        /\ View(Seen(Head(items))) \in QuicklookMetadata
    BY <1>2, SeenFacts DEF Kept
  <2>2. items' \in Seq(JobLists) /\ Len(items') <= MaxQueueSize
    <3>1. CASE items' = <<>>
      BY <3>1, NoMessages, QueueAssumption
    <3>2. CASE items' = Tail(items)
      BY <1>2, <3>2
    <3> QED
      BY <1>3, <3>1, <3>2
  <2> QED
    BY <1>3, <2>1, <2>2
<1> QED
  BY <1>1, <1>3, <1>4
  DEF Kept, TypeOK, Take, coordinatorVars, connection, frontendVars, counters

\* The viewer forgets everything.
LEMMA LeaveJobs == ASSUME Kept, Leave PROVE Kept'
<1>1. JobsInv'
  BY CoordinatorKept DEF Leave, connection, Kept, JobsInv
<1>2. items' \in Seq(JobLists) /\ Len(items') <= MaxQueueSize
  BY NoMessages, QueueAssumption DEF Leave
<1> QED
  BY <1>1, <1>2
  DEF Kept, TypeOK, Leave, coordinatorVars, connection, frontendVars, counters

\* The types and the dictionary are right at the start and stay so.
LEMMA InitJobs == Init => Kept
<1> SUFFICES ASSUME Init PROVE Kept
  OBVIOUS
<1>1. TypeOK
  <2>1. /\ removal \in BOOLEAN /\ ~removal /\ others \in BOOLEAN /\ connected \in BOOLEAN
        /\ large \in BOOLEAN /\ recent \in BOOLEAN
    BY DEF Init
  <2>2. Len(items) <= MaxQueueSize /\ traffic \in 0..MaxTraffic /\ faults \in 0..MaxFaults
    BY BoundsAssumption, QueueAssumption DEF Init
  <2>3. stage \in [Job -> Stages \union {"unborn", "dead"}]
    BY DEF Init
  <2> QED
    BY <2>1, <2>2, <2>3, NoMessages DEF Init, TypeOK
<1>2. JobsInv
  BY NoMessages DEF Init, JobsInv, MessagesAlive, EntryInv, Active
<1> QED
  BY <1>1, <1>2 DEF Kept

\* The types, the dictionary and the messages are kept by every step.
LEMMA StepJobs == ASSUME Kept, [Next]_vars PROVE Kept'
<1>1. CASE UNCHANGED vars
  BY <1>1 DEF Kept, TypeOK, JobsInv, MessagesAlive, Alive, EntryInv, vars, coordinatorVars,
     connection, frontendVars, viewerVars, counters
<1>2. CASE Next
  BY <1>2, PushJobs, GenerateJobs, TrafficJobs, ShareJobs, MergeJobs, ReadyJobs, StoreJobs,
     FailJobs, RemoveFailedJobs, DistributeJobs, CrashJobs, ConnectJobs, SendJobs, DropJobs,
     ReceiveJobs, ReceiveFailsJobs, ExpireJobs, PollJobs, PollAnsweredJobs,
     DistributeListJobs, RestartFrontendJobs, LookJobs, SubscribeJobs, TakeJobs, LeaveJobs
  DEF Next
<1> QED
  BY <1>1, <1>2

-----------------------------------------------------------------------------
(* What the frontend knows is what the coordinator said last.              *)

\* The last value is about the entry.
LastIsNewest ==
    last # NoValue /\ last.type = "list" =>
         \/ last.job = entry
         \/ last.job = NoJob /\ entry # NoJob /\ stage[entry] = "queued"

\* What was put and is not distributed yet hides everything behind it.
LEMMA PutCurrent ==
    ASSUME Kept, NEW msgs \in Seq(Messages), Len(msgs) >= 1, Put(msgs),
           msgs[Len(msgs)].type = "list" => msgs[Len(msgs)].job = entry'
    PROVE  CurrentInv'
<1>1. /\ upstream' # <<>> /\ last' \in Messages /\ upstream'[Len(upstream')] = last'
      /\ last' = msgs[Len(msgs)]
  BY PutFacts DEF Kept, TypeOK
<1>2. last' # NoValue
  BY <1>1, NoValueAssumption
<1> QED
  BY <1>1, <1>2 DEF CurrentInv

\* The list that is put is about the entry.
LEMMA NotifyCurrent ==
    ASSUME Kept, NotifyProgress, entry' \in Job \union {NoJob}, others' \in BOOLEAN
    PROVE  CurrentInv'
<1>1. PICK m : m = JobList(entry', others')
  OBVIOUS
<1>2. m \in Messages /\ m.job = entry'
  BY <1>1, ListFacts
<1>3. PICK msgs : msgs = <<m>>
  OBVIOUS
<1>4. msgs \in Seq(Messages) /\ Len(msgs) = 1 /\ msgs[1] = m
  BY <1>2, <1>3
<1>5. Put(msgs)
  BY <1>1, <1>3 DEF NotifyProgress
<1>6. Len(msgs) >= 1 /\ msgs[Len(msgs)].job = entry'
  BY <1>2, <1>4
<1> QED
  BY <1>4, <1>5, <1>6, PutCurrent

\* The metadata are put: the last message is no list.
LEMMA ShareCurrent == ASSUME Kept, NEW j \in Job, Share(j) PROVE CurrentInv'
<1>1. PICK msgs : msgs = <<Large(j)>>
  OBVIOUS
<1>2. msgs \in Seq(Messages) /\ Len(msgs) = 1 /\ msgs[1].type = "large"
  BY <1>1, LargeFacts
<1>3. Put(msgs)
  BY <1>1 DEF Share
<1> QED
  BY <1>2, <1>3, PutCurrent

\* Of the two lists that are put the last is without the visit, as the dictionary.
LEMMA ReadyCurrent == ASSUME Kept, NEW j \in Job, Ready(j) PROVE CurrentInv'
<1>1. PICK msgs : msgs = <<JobList(j, others), JobList(NoJob, others)>>
  OBVIOUS
<1>2. JobList(j, others) \in Messages /\ JobList(NoJob, others) \in Messages
  BY ListFacts DEF Kept, TypeOK
<1>3. msgs \in Seq(Messages) /\ Len(msgs) = 2 /\ msgs[2].job = NoJob
  BY <1>1, <1>2 DEF JobList
<1>4. Put(msgs) /\ entry' = NoJob
  BY <1>1 DEF Ready
<1> QED
  BY <1>3, <1>4, PutCurrent, SMTT(30)

\* The messages stay, and lists say as much of the new state as of the old one.
LEMMA QuietCurrent ==
    ASSUME Kept, CurrentInv, UNCHANGED <<last, upstream, connection, list>>, LastIsNewest',
           \A l : Agrees(l) => Agrees(l)',
           UNCHANGED poll \/ poll' = <<"put">> \/ poll # <<"put">>
    PROVE  CurrentInv'
<1>1. UNCHANGED <<last, upstream, queue, connected, wire, list>>
  BY DEF connection
<1>2. /\ (upstream # <<>> => last # NoValue /\ upstream[Len(upstream)] = last)'
  BY <1>1 DEF CurrentInv
<1>3. ASSUME connected', upstream' = <<>>, last' # NoValue
      PROVE  /\ (queue # <<>> => queue[Len(queue)] = last)'
             /\ (queue = <<>> /\ wire # <<>> =>
                   /\ wire[Len(wire)].type = last.type
                   /\ last.type = "list" => Agrees(wire[Len(wire)]))'
             /\ (queue = <<>> /\ wire = <<>> /\ last.type = "list" /\ poll # <<"put">> =>
                   list # NoValue /\ Agrees(list))'
  <2>1. (queue # <<>> => queue[Len(queue)] = last)'
    BY <1>1, <1>3 DEF CurrentInv
  <2>2. ASSUME queue' = <<>>, wire' # <<>>
        PROVE  /\ (wire[Len(wire)].type = last.type)'
               /\ (last.type = "list" => Agrees(wire[Len(wire)]))'
    <3>1. PICK l : l = wire[Len(wire)]
      OBVIOUS
    <3>2. l.type = last.type /\ (last.type = "list" => Agrees(l))
      BY <1>1, <1>3, <2>2, <3>1 DEF CurrentInv
    <3>3. l = (wire[Len(wire)])'
      BY <1>1, <3>1
    <3>4. last.type = "list" => Agrees(l)'
      BY <3>2
    <3> QED
      BY <1>1, <3>2, <3>3, <3>4 DEF Agrees
  <2>3. ASSUME queue' = <<>>, wire' = <<>>, last'.type = "list", poll' # <<"put">>
        PROVE  (list # NoValue /\ Agrees(list))'
    <3>1. PICK l : l = list
      OBVIOUS
    <3>2. poll # <<"put">>
      BY <2>3
    <3>3. l # NoValue /\ Agrees(l)
      BY <1>1, <1>3, <2>3, <3>1, <3>2 DEF CurrentInv
    <3>4. Agrees(l)'
      BY <3>3
    <3> QED
      BY <1>1, <3>1, <3>3, <3>4 DEF Agrees
  <2> QED
    BY <2>1, <2>2, <2>3
<1> QED
  BY <1>2, <1>3 DEF CurrentInv, LastIsNewest

\* The new job is not announced, which a list without it may say.
LEMMA PushCurrent == ASSUME Kept, CurrentInv, NEW j \in Job, Push(j) PROVE CurrentInv'
<1>1. stage'[j] = "queued" /\ entry = NoJob /\ entry' = j /\ j # NoJob
  BY JobFacts DEF Kept, TypeOK, Push
<1>2. LastIsNewest'
  BY <1>1 DEF LastIsNewest, CurrentInv, Push
<1>3. ASSUME NEW l, Agrees(l) PROVE Agrees(l)'
  BY <1>1, <1>3 DEF Agrees
<1> QED
  BY <1>2, <1>3, QuietCurrent DEF Push, frontendVars

\* A job that is stored is not in the dictionary.
LEMMA StoreCurrent == ASSUME Kept, CurrentInv, NEW j \in Job, Store(j) PROVE CurrentInv'
<1>1. entry' = entry /\ (entry # NoJob => entry \in Job /\ stage'[entry] = stage[entry])
  BY DEF Kept, TypeOK, JobsInv, EntryInv, Active, Store, Enter
<1>2. LastIsNewest'
  BY <1>1 DEF LastIsNewest, CurrentInv, Store
<1>3. ASSUME NEW l, Agrees(l) PROVE Agrees(l)'
  BY <1>1, <1>3 DEF Agrees, StageOf
<1> QED
  BY <1>2, <1>3, QuietCurrent DEF Store, frontendVars

\* The coordinator's jobs do not change.
LEMMA SameJobs ==
    ASSUME CurrentInv, UNCHANGED <<stage, entry, last>>
    PROVE  LastIsNewest' /\ \A l : Agrees(l) => Agrees(l)'
BY DEF CurrentInv, LastIsNewest, Agrees, StageOf

\* The last that is handed out is the last value.
LEMMA DistributeCurrent == ASSUME Kept, CurrentInv, Distribute PROVE CurrentInv'
<1>1. upstream \in Seq(Messages) /\ queue \in Seq(Messages) /\ upstream # <<>>
  BY DEF Kept, TypeOK, Distribute
<1>2. /\ upstream' = Tail(upstream) /\ Head(upstream) = upstream[1] /\ upstream[1] \in Messages
      /\ upstream' = <<>> <=> Len(upstream) = 1
      /\ upstream' # <<>> => upstream'[Len(upstream')] = upstream[Len(upstream)]
  BY <1>1, TailFacts DEF Distribute
<1>3. last # NoValue /\ upstream[Len(upstream)] = last /\ last' = last
  BY <1>1 DEF CurrentInv, Distribute
<1>4. ASSUME connected', upstream' = <<>>
      PROVE  queue' # <<>> /\ queue'[Len(queue')] = last
  <2>1. queue' = Append(queue, last)
    BY <1>2, <1>3, <1>4 DEF Distribute
  <2> QED
    BY <1>1, <1>2, <1>3, <1>4, <2>1, AppendFacts
<1>5. LastIsNewest'
  BY SameJobs DEF Distribute
<1> QED
  BY <1>2, <1>3, <1>4, <1>5 DEF CurrentInv, LastIsNewest

\* Without a connection the frontend need not know anything.
LEMMA CrashCurrent == ASSUME Crash PROVE CurrentInv'
BY DEF Crash, CurrentInv

\* The last value is all that is on its way.
LEMMA ConnectCurrent == ASSUME Kept, CurrentInv, Connect PROVE CurrentInv'
<1>1. LastIsNewest'
  BY SameJobs DEF Connect, coordinatorVars
<1>2. last # NoValue => (queue # <<>> /\ queue[Len(queue)] = last)'
  BY DEF Connect, coordinatorVars
<1>3. (upstream # <<>> => last # NoValue /\ upstream[Len(upstream)] = last)'
  BY DEF CurrentInv, Connect, coordinatorVars
<1>4. last' = last
  BY DEF Connect, coordinatorVars
<1> QED
  BY <1>1, <1>2, <1>3, <1>4 DEF CurrentInv, LastIsNewest

\* What the last message will say is true.
LEMMA LastAgrees ==
    ASSUME Kept, CurrentInv, last # NoValue, last.type = "list"
    PROVE  Agrees(Pickled(last))
<1>1. last \in Messages /\ Alive(last)
  BY DEF Kept, TypeOK, JobsInv, MessagesAlive
<1>2. PICK p : p = Pickled(last)
  OBVIOUS
<1>3. p # NoValue /\ p.stage = IF last.job = NoJob THEN "absent" ELSE StageOf(last.job)
  <2>1. Pickled(last) \in JobLists
    BY <1>1, PickledFacts DEF Pickles, Kept, TypeOK
  <2> QED
    BY <1>1, <1>2, <2>1, PickledFacts, NoValueAssumption DEF Kept, TypeOK
<1>4. entry # NoJob => StageOf(entry) # "absent"
  BY DEF Kept, JobsInv, EntryInv, Active, StageOf
<1>5. LastIsNewest
  BY DEF CurrentInv, LastIsNewest
<1>6. Agrees(p)
  BY <1>3, <1>4, <1>5 DEF Agrees, Lists, LastIsNewest
<1> QED
  BY <1>2, <1>6

\* The last that is sent says what the last value says.
LEMMA SendCurrent == ASSUME Kept, CurrentInv, Send PROVE CurrentInv'
<1> DEFINE n == Len(queue)
<1>1. queue \in Seq(Messages) /\ queue # <<>> /\ wire \in Seq(Pickles)
  BY DEF Kept, TypeOK, JobsInv, Send
<1>2. /\ queue' = Tail(queue) /\ Head(queue) = queue[1] /\ queue[1] \in Messages
      /\ queue' = <<>> <=> Len(queue) = 1 /\ n \in Nat /\ n >= 1
      /\ queue' # <<>> => queue'[Len(queue')] = queue[Len(queue)]
  BY <1>1, TailFacts DEF Send
<1>3. Alive(queue[1])
  BY <1>2 DEF Kept, JobsInv, MessagesAlive
<1>4. PICK p : p = Pickled(queue[1])
  OBVIOUS
<1>5. p \in Pickles /\ p.type = queue[1].type
  BY <1>2, <1>3, <1>4, PickledFacts DEF Kept, TypeOK
<1>6. wire' # <<>> /\ wire'[Len(wire')] = p
  BY <1>1, <1>2, <1>4, <1>5, AppendFacts DEF Send
<1>7. UNCHANGED <<stage, entry, last, upstream, connected, list, poll>>
  BY DEF Send, coordinatorVars, frontendVars
<1>8. LastIsNewest' /\ \A l : Agrees(l) => Agrees(l)'
  BY <1>7, SameJobs
<1>9. ASSUME connected, upstream = <<>>, last # NoValue
      PROVE  /\ queue[Len(queue)] = last
             /\ queue' = <<>> => p.type = last.type /\ (last.type = "list" => Agrees(p))
  <2>1. queue[Len(queue)] = last
    BY <1>1, <1>9 DEF CurrentInv
  <2>2. queue' = <<>> => queue[1] = last
    BY <1>2, <2>1
  <2> QED
    BY <1>4, <1>5, <1>9, <2>1, <2>2, LastAgrees
<1>10. (upstream # <<>> => last # NoValue /\ upstream[Len(upstream)] = last)'
  BY <1>7 DEF CurrentInv
<1>11. ASSUME connected', upstream' = <<>>, last' # NoValue
       PROVE  /\ (queue # <<>> => queue[Len(queue)] = last)'
              /\ (queue = <<>> /\ wire # <<>> =>
                    /\ wire[Len(wire)].type = last.type
                    /\ last.type = "list" => Agrees(wire[Len(wire)]))'
              /\ wire' # <<>>
  <2>1. (queue # <<>> => queue[Len(queue)] = last)'
    BY <1>2, <1>7, <1>9, <1>11
  <2>2. queue' = <<>> => p.type = last.type /\ (last.type = "list" => Agrees(p))
    BY <1>7, <1>9, <1>11
  <2>3. queue' = <<>> => p.type = last.type /\ (last.type = "list" => Agrees(p)')
    BY <1>8, <2>2
  <2>4. p = (wire[Len(wire)])'
    BY <1>6
  <2> QED
    BY <1>6, <1>7, <2>1, <2>3, <2>4 DEF Agrees
<1> QED
  BY <1>8, <1>10, <1>11 DEF CurrentInv, LastIsNewest

\* A frontend without a connection need not be current.
LEMMA DisconnectCurrent ==
    ASSUME CurrentInv, Disconnect, UNCHANGED coordinatorVars
    PROVE  CurrentInv'
<1>1. UNCHANGED <<stage, entry, last, upstream>> /\ ~connected'
  BY DEF Disconnect, coordinatorVars
<1>2. LastIsNewest'
  BY <1>1, SameJobs
<1> QED
  BY <1>1, <1>2 DEF CurrentInv, LastIsNewest

\* The last that is received becomes the list of the frontend, if it is one.
LEMMA ReceiveCurrent == ASSUME Kept, CurrentInv, Receive PROVE CurrentInv'
<1>1. wire \in Seq(Pickles) /\ wire # <<>>
  BY DEF Kept, JobsInv, Receive
<1>2. /\ wire' = Tail(wire) /\ Head(wire) = wire[1] /\ wire[1] \in Pickles
      /\ wire' = <<>> <=> Len(wire) = 1
      /\ wire' # <<>> => wire'[Len(wire')] = wire[Len(wire)]
  BY <1>1, TailFacts DEF Receive
<1>3. UNCHANGED <<stage, entry, last, upstream, connected, queue>>
  BY DEF Receive, coordinatorVars
<1>4. LastIsNewest' /\ \A l : Agrees(l) => Agrees(l)'
  BY <1>3, SameJobs
<1>5. (upstream # <<>> => last # NoValue /\ upstream[Len(upstream)] = last)'
  BY <1>3 DEF CurrentInv
<1>6. ASSUME connected', upstream' = <<>>, last' # NoValue, queue' = <<>>
      PROVE  /\ wire[Len(wire)].type = last.type
             /\ last.type = "list" => Agrees(wire[Len(wire)])
  BY <1>1, <1>3, <1>6 DEF CurrentInv
<1>7. ASSUME connected', upstream' = <<>>, last' # NoValue
      PROVE  /\ (queue # <<>> => queue[Len(queue)] = last)'
             /\ (queue = <<>> /\ wire # <<>> =>
                   /\ wire[Len(wire)].type = last.type
                   /\ last.type = "list" => Agrees(wire[Len(wire)]))'
             /\ (queue = <<>> /\ wire = <<>> /\ last.type = "list" /\ poll # <<"put">> =>
                   list # NoValue /\ Agrees(list))'
  <2>1. (queue # <<>> => queue[Len(queue)] = last)'
    BY <1>3, <1>7 DEF CurrentInv
  <2>2. ASSUME queue' = <<>>, wire' # <<>>
        PROVE  /\ (wire[Len(wire)].type = last.type)'
               /\ (last.type = "list" => Agrees(wire[Len(wire)]))'
    <3>1. PICK l : l = wire[Len(wire)]
      OBVIOUS
    <3>2. l = (wire[Len(wire)])'
      BY <1>2, <2>2, <3>1
    <3>3. l.type = last.type /\ (last.type = "list" => Agrees(l)')
      BY <1>4, <1>6, <1>7, <2>2, <3>1
    <3> QED
      BY <1>3, <3>2, <3>3 DEF Agrees
  <2>3. ASSUME queue' = <<>>, wire' = <<>>, last'.type = "list"
        PROVE  (list # NoValue /\ Agrees(list))'
    <3>1. PICK l : l = wire[1]
      OBVIOUS
    <3>2. l.type = "list" /\ Agrees(l)
      BY <1>2, <1>3, <1>6, <1>7, <2>3, <3>1
    <3>3. l \in JobLists /\ l # NoValue
      BY <1>2, <3>1, <3>2, NoValueAssumption DEF Pickles
    <3>4. list' = l
      BY <1>2, <3>1, <3>2 DEF Receive, ReceiveList, PutList
    <3>5. Agrees(l)'
      BY <1>4, <3>2
    <3> QED
      BY <3>3, <3>4, <3>5 DEF Agrees
  <2> QED
    BY <2>1, <2>2, <2>3
<1> QED
  BY <1>4, <1>5, <1>7 DEF CurrentInv, LastIsNewest

\* The viewer, the metadata and the HTTP request change nothing of this.
LEMMA ViewerCurrent ==
    ASSUME Kept, CurrentInv, UNCHANGED <<coordinatorVars, connection, list, poll>>
    PROVE  CurrentInv'
BY SameJobs, QuietCurrent DEF coordinatorVars

\* A request that is not answered yet changes no list.
LEMMA PollCurrent == ASSUME Kept, CurrentInv, Poll PROVE CurrentInv'
<1>1. poll # <<"put">>
  BY DEF Poll
<1> QED
  BY <1>1, SameJobs, QuietCurrent DEF Poll, coordinatorVars

\* The answer may be old, until the next list is received.
LEMMA PollAnsweredCurrent == ASSUME Kept, CurrentInv, PollAnswered PROVE CurrentInv'
<1>1. UNCHANGED <<stage, entry, last, upstream, connected, queue, wire>> /\ poll' = <<"put">>
  BY DEF PollAnswered, coordinatorVars, connection
<1>2. LastIsNewest' /\ \A l : Agrees(l) => Agrees(l)'
  BY <1>1, SameJobs
<1>3. \A l : Agrees(l)' <=> Agrees(l)
  BY <1>1 DEF Agrees, StageOf
<1>4. (upstream # <<>> => last # NoValue /\ upstream[Len(upstream)] = last)'
  BY <1>1 DEF CurrentInv
<1>5. ASSUME connected', upstream' = <<>>, last' # NoValue
      PROVE  /\ (queue # <<>> => queue[Len(queue)] = last)'
             /\ (queue = <<>> /\ wire # <<>> =>
                   /\ wire[Len(wire)].type = last.type
                   /\ last.type = "list" => Agrees(wire[Len(wire)]))'
  BY <1>1, <1>5 DEF CurrentInv, Agrees, StageOf
<1> QED
  BY <1>1, <1>2, <1>4, <1>5 DEF CurrentInv, LastIsNewest

\* At first nothing was said.
LEMMA InitCurrent == Init => CurrentInv
BY DEF Init, CurrentInv

\* CurrentInv is kept by every step.
LEMMA StepCurrent == ASSUME Kept, Kept', CurrentInv, [Next]_vars PROVE CurrentInv'
<1>1. CASE UNCHANGED vars
  BY <1>1, ViewerCurrent DEF vars, frontendVars
<1>2. ASSUME NEW j \in Job, Generate(j) \/ Merge(j) \/ Fail(j)
      PROVE  CurrentInv'
  BY <1>2, NotifyCurrent DEF Generate, Merge, Fail, Kept, TypeOK
<1>3. CASE Traffic \/ RemoveFailed
  BY <1>3, NotifyCurrent DEF Traffic, RemoveFailed, Kept, TypeOK
<1>4. CASE Expire \/ DistributeList \/ Look \/ Subscribe \/ Take \/ Leave
  BY <1>4, ViewerCurrent DEF Expire, DistributeList, Look, Subscribe, Take, Leave, frontendVars
<1>5. CASE Drop \/ ReceiveFails \/ RestartFrontend
  BY <1>5, DisconnectCurrent DEF Drop, ReceiveFails, RestartFrontend
<1> QED
  BY <1>1, <1>2, <1>3, <1>4, <1>5, PushCurrent, ShareCurrent, ReadyCurrent, StoreCurrent,
     DistributeCurrent, CrashCurrent, ConnectCurrent, SendCurrent, ReceiveCurrent,
     PollCurrent, PollAnsweredCurrent
  DEF Next

-----------------------------------------------------------------------------
(* The metadata come to the frontend.                                      *)

\* What comes has a kind each.
LEMMA PathType ==
    ASSUME Kept
    PROVE  /\ Len(wire) \in Nat /\ Len(queue) \in Nat /\ Len(upstream) \in Nat /\ Total \in Nat
           /\ Path \in [1..Total -> Kinds] /\ Kind(list) \in Kinds
           /\ large \in BOOLEAN /\ Shared \in BOOLEAN /\ Generates \in BOOLEAN
<1>1. Len(wire) \in Nat /\ Len(queue) \in Nat /\ Len(upstream) \in Nat
  BY LenProperties DEF Kept, TypeOK
<1>2. \A l : Kind(l) \in Kinds /\ KindOf(l) \in Kinds
  BY DEF Kind, KindOf, Kinds
<1>3. Path \in [1..Total -> Kinds]
  BY <1>2 DEF Path
<1> QED
  BY <1>1, <1>2, <1>3 DEF Total, Shared, Generates, Kept, TypeOK

\* How a message that waits may change with its job.
Changes(k, k2, shared) ==
    \/ k2 = k
    \/ Listing(k) /\ k2 = "plain"
    \/ k = "plain" /\ k2 = "advanced" /\ shared

\* The messages that are put come behind the others, which say what is true now.
LEMMA PutPath ==
    ASSUME Kept, Kept', NEW msgs \in Seq(Messages), Len(msgs) >= 1, Put(msgs),
           UNCHANGED <<queue, wire>>,
           MetadataComes(Path, Total, Kind(list), large, Shared, Generates),
           \A m \in Messages : Alive(m) => Changes(KindOf(m), KindOf(m)', Shared)
    PROVE  \E g \in [1..Total -> Kinds] :
             /\ MetadataComes(g, Total, Kind(list), large, Shared, Generates)
             /\ Total' = Total + Len(msgs)
             /\ Path' \in [1..(Total + Len(msgs)) -> Kinds]
             /\ \A i \in 1..Total : Path'[i] = g[i]
             /\ \A i \in 1..Len(msgs) : Path'[Total + i] = KindOf(msgs[i])'
<1>0. PICK w, q, u, k : w = Len(wire) /\ q = Len(queue) /\ u = Len(upstream) /\ k = Len(msgs)
  OBVIOUS
<1>1. w \in Nat /\ q \in Nat /\ u \in Nat /\ Total = w + q + u
  BY <1>0, PathType DEF Total
<1>2. /\ k \in Nat /\ Len(upstream') = u + k
      /\ \A i \in 1..u : upstream'[i] = upstream[i]
      /\ \A i \in 1..k : upstream'[u + i] = msgs[i]
  BY <1>0, PutFacts DEF Kept, TypeOK
<1>3. Total' = Total + k
  BY <1>0, <1>1, <1>2 DEF Total
<1>4. Path' \in [1..(Total + k) -> Kinds]
  <2>1. Path' \in [1..Total' -> Kinds]
    BY DEF Path, Kind, KindOf, Kinds
  <2> QED
    BY <1>3, <2>1
<1>5. \A i \in 1..(Total + k) : Path'[i] =
        IF i <= w THEN Kind(wire[i])
        ELSE IF i <= w + q THEN KindOf(queue[i - w])' ELSE KindOf(upstream[i - w - q])'
  BY <1>0, <1>3 DEF Path
<1>6. \A i \in 1..Total : Path[i] =
        IF i <= w THEN Kind(wire[i])
        ELSE IF i <= w + q THEN KindOf(queue[i - w]) ELSE KindOf(upstream[i - w - q])
  BY <1>0 DEF Path
<1>7. ASSUME NEW i \in 1..Total
      PROVE  Changes(Path[i], Path'[i], Shared)
  <2>1. i \in 1..(Total + k)
    BY <1>1, <1>2
  <2>2. CASE i <= w
    BY <1>5, <1>6, <2>1, <2>2 DEF Changes
  <2>3. CASE ~(i <= w) /\ i <= w + q
    <3>1. PICK m : m = queue[i - w]
      OBVIOUS
    <3>2. m \in Messages /\ Alive(m)
      <4>1. i - w \in 1..q
        BY <1>1, <2>3
      <4> QED
        BY <1>0, <3>1, <4>1, ElementOfSeq DEF Kept, TypeOK, JobsInv, MessagesAlive
    <3>3. Path[i] = KindOf(m) /\ Path'[i] = KindOf(m)'
      BY <1>5, <1>6, <2>1, <2>3, <3>1 DEF KindOf
    <3> QED
      BY <3>2, <3>3
  <2>4. CASE ~(i <= w) /\ ~(i <= w + q)
    <3>1. PICK m : m = upstream[i - w - q]
      OBVIOUS
    <3>2. i - w - q \in 1..u
      BY <1>1, <2>4
    <3>3. m \in Messages /\ Alive(m)
      BY <1>0, <3>1, <3>2, ElementOfSeq DEF Kept, TypeOK, JobsInv, MessagesAlive
    <3>4. Path[i] = KindOf(m) /\ Path'[i] = KindOf(m)'
      BY <1>2, <1>5, <1>6, <2>1, <2>4, <3>1, <3>2 DEF KindOf
    <3> QED
      BY <3>3, <3>4
  <2> QED
    BY <2>2, <2>3, <2>4
<1>8. PICK g : g = [i \in 1..Total |-> Path'[i]]
  OBVIOUS
<1>9. g \in [1..Total -> Kinds] /\ \A i \in 1..Total : g[i] = Path'[i]
  BY <1>1, <1>2, <1>4, <1>8
<1>10. MetadataComes(g, Total, Kind(list), large, Shared, Generates)
  <2>1. PICK f, n : f = Path /\ n = Total
    OBVIOUS
  <2>2. /\ n \in Nat /\ f \in [1..n -> Kinds] /\ g \in [1..n -> Kinds]
        /\ MetadataComes(f, n, Kind(list), large, Shared, Generates)
        /\ \A i \in 1..n : \/ g[i] = f[i]
                           \/ Listing(f[i]) /\ g[i] = "plain"
                           \/ f[i] = "plain" /\ g[i] = "advanced" /\ Shared
    BY <1>7, <1>9, <2>1, PathType DEF Changes
  <2>3. MetadataComes(g, n, Kind(list), large, Shared, Generates)
    BY <2>2, PathType, ChangedPath
  <2> QED
    BY <2>1, <2>3
<1>11. \A i \in 1..k : Path'[Total + i] = KindOf(msgs[i])'
  <2>1. TAKE i \in 1..k
  <2>2. PICK x, m : x = Total + i /\ m = msgs[i]
    OBVIOUS
  <2>3. /\ x \in 1..(Total + k) /\ ~(x <= w) /\ ~(x <= w + q) /\ x - w - q = u + i
    BY <1>1, <1>2, <2>2
  <2>4. upstream'[x - w - q] = m
    BY <1>2, <2>2, <2>3
  <2>5. Path'[x] = KindOf(upstream[x - w - q])'
    BY <1>5, <2>3
  <2>6. Path'[x] = KindOf(m)'
    BY <2>4, <2>5 DEF KindOf
  <2> QED
    BY <2>2, <2>6 DEF KindOf
<1> QED
  BY <1>0, <1>3, <1>4, <1>9, <1>10, <1>11

\* Without a fault the connection is up and the HTTP request was not needed; the
\* metadata come.
LEMMA MetadataNext ==
    ASSUME Kept, MetadataInv, faults' = 0 => faults = 0,
           faults = 0 => UNCHANGED <<connected, poll>>,
           faults = 0 => list' = list \/ ~list'.json,
           faults = 0 /\ MetadataComes(Path, Total, Kind(list), large, Shared, Generates) =>
             MetadataComes(Path, Total, Kind(list), large, Shared, Generates)'
    PROVE  MetadataInv'
BY DEF MetadataInv

Coming == MetadataComes(Path, Total, Kind(list), large, Shared, Generates)

Steady == \A x \in Messages : Alive(x) => Changes(KindOf(x), KindOf(x)', Shared)

\* One message is put.
LEMMA PutOneComing ==
    ASSUME Kept, Kept', Coming, NEW m \in Messages, Put(<<m>>), Steady,
           UNCHANGED <<queue, wire, list, large>>,
           MayCome(KindOf(m)', Shared, Generates, Shared', Generates')
    PROVE  Coming'
<1>1. PICK msgs : msgs = <<m>>
  OBVIOUS
<1>2. msgs \in Seq(Messages) /\ Len(msgs) = 1 /\ Len(msgs) >= 1 /\ msgs[1] = m /\ Put(msgs)
  BY <1>1
<1>3. PICK g \in [1..Total -> Kinds] :
         /\ MetadataComes(g, Total, Kind(list), large, Shared, Generates)
         /\ Total' = Total + Len(msgs)
         /\ Path' \in [1..(Total + Len(msgs)) -> Kinds]
         /\ \A i \in 1..Total : Path'[i] = g[i]
         /\ \A i \in 1..Len(msgs) : Path'[Total + i] = KindOf(msgs[i])'
  BY <1>2, PutPath DEF Coming, Steady
<1>4. PICK n \in Nat : n = Total
  BY PathType
<1>5. Total' = n + 1 /\ Path' \in [1..(n + 1) -> Kinds]
  BY <1>2, <1>3, <1>4
<1>6. PICK h \in [1..(n + 1) -> Kinds] : h = Path'
  BY <1>5
<1>7. PICK f \in [1..n -> Kinds] : f = g
  BY <1>4
<1>8. PICK l \in Kinds, has \in BOOLEAN, s \in BOOLEAN, t \in BOOLEAN,
           s2 \in BOOLEAN, t2 \in BOOLEAN :
         /\ l = Kind(list) /\ has = large /\ s = Shared /\ t = Generates
         /\ s2 = Shared' /\ t2 = Generates'
  BY PathType DEF Shared, Generates
<1>9. MetadataComes(f, n, l, has, s, t) /\ Extends(h, f, n)
  BY <1>3, <1>4, <1>6, <1>7, <1>8 DEF Extends
<1>10. h[n + 1] = KindOf(m)'
  BY <1>2, <1>3, <1>4, <1>6 DEF KindOf
<1>11. MayCome(h[n + 1], s, t, s2, t2)
  BY <1>8, <1>10
<1>12. MetadataComes(h, n + 1, l, has, s2, t2)
  BY <1>9, <1>11, AppendedPath, SMTT(30)
<1> QED
  BY <1>5, <1>6, <1>8, <1>12 DEF Coming

\* The list of the entry is put: it lists the visit if there is a job, and is advanced
\* only if the metadata were put.
LEMMA NotifyComing ==
    ASSUME Kept, Kept', Coming, NotifyProgress, UNCHANGED <<queue, wire, list, large>>,
           Steady,
           entry' # NoJob /\ stage'[entry'] \in {"merge", "ready", "stored"} => Shared,
           Shared' => Shared
    PROVE  Coming'
<1>1. PICK m : m = JobList(entry', others')
  OBVIOUS
<1>2. m \in Messages /\ m.type = "list" /\ m.job = entry'
  BY <1>1, ListFacts DEF Kept, TypeOK
<1>3. Put(<<m>>)
  BY <1>1 DEF NotifyProgress
<1>4. Shared' \/ Generates' => entry' # NoJob
  BY JobFacts DEF Shared, Generates, Kept, JobsInv, EntryInv, Active
<1>5. Generates' => stage'[entry'] = "generate"
  BY DEF Generates, Kept, JobsInv, EntryInv, Active
<1>6. /\ KindOf(m)' # "large" /\ (KindOf(m)' = "advanced" => Shared)
      /\ KindOf(m)' = "absent" => entry' = NoJob
      /\ KindOf(m)' \in Kinds
  BY <1>2 DEF KindOf, Kinds
<1> QED
  BY <1>2, <1>3, <1>4, <1>6, PutOneComing DEF MayCome, Listing, Kinds

\* A message that waits says the same of a job that does not change.
LEMMA StageComing ==
    ASSUME Kept, NEW j \in Job, NEW s, stage' = [stage EXCEPT ![j] = s],
           stage[j] \in Stages /\ s \in Stages,
           s \in {"merge", "ready", "stored"} =>
              Shared \/ stage[j] \in {"merge", "ready", "stored"}
    PROVE  Steady
<1> SUFFICES ASSUME NEW x \in Messages, Alive(x)
             PROVE  Changes(KindOf(x), KindOf(x)', Shared)
  BY DEF Steady
<1>3. CASE x.type = "large" \/ x.job = NoJob
  BY <1>3 DEF KindOf, Changes
<1>4. CASE x.type # "large" /\ x.job # NoJob
  <2>1. x.job \in Job
    BY <1>4 DEF Messages
  <2>2. CASE x.job = j
    BY <1>4, <2>1, <2>2 DEF KindOf, Changes, Listing, Kept, TypeOK
  <2>3. CASE x.job # j
    BY <1>4, <2>1, <2>3 DEF KindOf, Changes, Kept, TypeOK
  <2> QED
    BY <2>2, <2>3
<1> QED
  BY <1>3, <1>4

\* The visit is listed from now on, as a job that needs no metadata.
LEMMA GenerateComing == ASSUME Kept, Kept', Coming, NEW j \in Job, Generate(j) PROVE Coming'
<1>1. entry' = j /\ stage' = [stage EXCEPT ![j] = "generate"] /\ stage[j] = "queued"
  BY DEF Generate, Enter, Kept, JobsInv, EntryInv, Active
<1>2. Steady
  BY <1>1, StageComing DEF Stages
<1>3. stage'[entry'] = "generate" /\ (Shared' => Shared)
  BY <1>1 DEF Kept, TypeOK, Shared
<1> QED
  BY <1>2, <1>3, NotifyComing DEF Generate, connection, frontendVars

\* The list of a job that needs the metadata is put behind them.
LEMMA TrafficComing == ASSUME Kept, Kept', Coming, Traffic PROVE Coming'
<1>1. UNCHANGED <<stage, entry>>
  BY DEF Traffic
<1>2. Steady
  BY <1>1 DEF Steady, KindOf, Changes
<1>3. entry # NoJob /\ stage[entry] \in {"merge", "ready", "stored"} => Shared
  BY DEF Kept, TypeOK, JobsInv, EntryInv, Active, Shared
<1>4. Shared' => Shared
  BY <1>1 DEF Shared
<1> QED
  BY <1>1, <1>2, <1>3, <1>4, NotifyComing DEF Traffic, connection, frontendVars

\* The metadata are put behind a list with the visit.
LEMMA ShareComing == ASSUME Kept, Kept', Coming, NEW j \in Job, Share(j) PROVE Coming'
<1>1. entry' = j /\ stage' = [stage EXCEPT ![j] = "shared"] /\ stage[j] = "generate"
  BY DEF Share, Enter, Kept, JobsInv, EntryInv, Active
<1>2. Steady
  BY <1>1, StageComing DEF Stages
<1>3. PICK m : m = Large(j)
  OBVIOUS
<1>4. m \in Messages /\ Put(<<m>>) /\ KindOf(m)' = "large"
  BY <1>3, LargeFacts DEF KindOf, Share
<1>5. Generates /\ ~Generates'
  BY <1>1 DEF Generates, Kept, TypeOK, JobsInv, EntryInv, Active
<1> QED
  BY <1>2, <1>4, <1>5, PutOneComing DEF MayCome, Share, connection, frontendVars

\* Lists that wait for this job will need the metadata: they are on their way.
LEMMA MergeComing == ASSUME Kept, Kept', Coming, NEW j \in Job, Merge(j) PROVE Coming'
<1>1. stage' = [stage EXCEPT ![j] = "merge"] /\ stage[j] = "shared" /\ Shared
  BY DEF Merge, Enter, Shared
<1>2. Steady
  BY <1>1, StageComing DEF Stages
<1> QED
  BY <1>1, <1>2, NotifyComing DEF Merge, connection, frontendVars

\* A job that failed needs no metadata.
LEMMA FailComing == ASSUME Kept, Kept', Coming, NEW j \in Job, Fail(j) PROVE Coming'
<1>1. /\ entry' = j /\ stage' = [stage EXCEPT ![j] = "error"] /\ stage[j] \in Stages
      /\ stage'[j] = "error"
  BY DEF Fail, Kept, TypeOK, JobsInv, EntryInv, Active, Stages
<1>2. Steady
  BY <1>1, StageComing DEF Stages
<1>3. Shared' => Shared
  BY <1>1 DEF Shared, Kept, TypeOK
<1> QED
  BY <1>1, <1>2, <1>3, NotifyComing DEF Fail, connection, frontendVars

\* The list without the visit needs none.
LEMMA RemoveFailedComing == ASSUME Kept, Kept', Coming, RemoveFailed PROVE Coming'
<1>1. UNCHANGED stage /\ entry' = NoJob
  BY DEF RemoveFailed
<1>2. Steady
  BY <1>1 DEF Steady, KindOf, Changes
<1>3. Shared' => Shared
  BY <1>1 DEF Shared
<1> QED
  BY <1>1, <1>2, <1>3, NotifyComing DEF RemoveFailed, connection, frontendVars

\* Two lists are put: one that is advanced, and one without the visit.
LEMMA AppendedLists ==
    ASSUME NEW n \in Nat, NEW f \in [1..n -> Kinds], NEW h \in [1..(n + 2) -> Kinds],
           NEW l \in Kinds, NEW has \in BOOLEAN, NEW generates \in BOOLEAN,
           MetadataComes(f, n, l, has, TRUE, generates),
           Extends(h, f, n),
           h[n + 1] = "advanced" /\ h[n + 2] = "absent"
    PROVE  MetadataComes(h, n + 2, l, has, FALSE, FALSE)
<1> DEFINE e == [i \in 1..(n + 1) |-> h[i]]
<1>1. /\ e \in [1..(n + 1) -> Kinds] /\ Extends(h, e, n + 1) /\ Extends(e, f, n)
      /\ MayCome(e[n + 1], TRUE, generates, FALSE, FALSE)
      /\ MayCome(h[n + 2], FALSE, FALSE, FALSE, FALSE)
  BY DEF Extends, MayCome
<1> HIDE DEF e
<1>2. MetadataComes(e, n + 1, l, has, FALSE, FALSE)
  BY <1>1, AppendedPath
<1>3. PICK k \in Nat : k = n + 1 /\ k + 1 = n + 2
  OBVIOUS
<1>4. /\ e \in [1..k -> Kinds] /\ MetadataComes(e, k, l, has, FALSE, FALSE)
      /\ Extends(h, e, k)
      /\ h \in [1..(k + 1) -> Kinds] /\ MayCome(h[k + 1], FALSE, FALSE, FALSE, FALSE)
  BY <1>1, <1>2, <1>3
<1>5. MetadataComes(h, k + 1, l, has, FALSE, FALSE)
  BY <1>4, AppendedPath
<1> QED
  BY <1>3, <1>5

\* The list that says ready comes behind the metadata, and nothing needs them then.
LEMMA ReadyComing == ASSUME Kept, Kept', Coming, NEW j \in Job, Ready(j) PROVE Coming'
<1>1. /\ entry' = NoJob /\ stage' = [stage EXCEPT ![j] = "ready"] /\ stage[j] = "merge"
      /\ stage'[j] = "ready" /\ Shared
  BY DEF Ready, Enter, Shared, Kept, TypeOK
<1>2. Steady
  BY <1>1, StageComing DEF Stages
<1>3. PICK a, b : a = JobList(j, others) /\ b = JobList(NoJob, others)
  OBVIOUS
<1>4. PICK msgs : msgs = <<a, b>>
  OBVIOUS
<1>5. /\ a \in Messages /\ a.type = "list" /\ a.job = j
      /\ b \in Messages /\ b.type = "list" /\ b.job = NoJob
  <2>1. others \in BOOLEAN
    BY DEF Kept, TypeOK
  <2> QED
    BY <1>3, <2>1, ListFacts
<1>6. /\ msgs \in Seq(Messages) /\ Len(msgs) = 2 /\ Len(msgs) >= 1
      /\ msgs[1] = a /\ msgs[2] = b /\ Put(msgs)
  BY <1>3, <1>4, <1>5 DEF Ready
<1>7. KindOf(a)' = "advanced" /\ KindOf(b)' = "absent"
  BY <1>1, <1>5, JobFacts DEF KindOf
<1>8. PICK g \in [1..Total -> Kinds] :
         /\ MetadataComes(g, Total, Kind(list), large, Shared, Generates)
         /\ Total' = Total + Len(msgs)
         /\ Path' \in [1..(Total + Len(msgs)) -> Kinds]
         /\ \A i \in 1..Total : Path'[i] = g[i]
         /\ \A i \in 1..Len(msgs) : Path'[Total + i] = KindOf(msgs[i])'
  BY <1>2, <1>6, PutPath DEF Coming, Steady, Ready, connection
<1>9. PICK n \in Nat : n = Total
  BY PathType
<1>10. Total' = n + 2 /\ Path' \in [1..(n + 2) -> Kinds]
  BY <1>6, <1>8, <1>9
<1>11. PICK h \in [1..(n + 2) -> Kinds] : h = Path'
  BY <1>10
<1>12. /\ Extends(h, g, n)
       /\ h[n + 1] = "advanced" /\ h[n + 2] = "absent"
  BY <1>6, <1>7, <1>8, <1>9, <1>11 DEF KindOf, Extends
<1>13. PICK f \in [1..n -> Kinds] : f = g
  BY <1>9
<1>14. PICK l \in Kinds, has \in BOOLEAN, t \in BOOLEAN :
         l = Kind(list) /\ has = large /\ t = Generates
  BY PathType
<1>15. Shared = TRUE
  BY <1>1 DEF Shared
<1>16. MetadataComes(f, n, l, has, TRUE, t)
  BY <1>8, <1>9, <1>13, <1>14, <1>15
<1>17. MetadataComes(h, n + 2, l, has, FALSE, FALSE)
  BY <1>12, <1>13, <1>16, AppendedLists
<1>18. ~Shared' /\ ~Generates'
  BY <1>1, JobFacts DEF Shared, Generates, Kept, TypeOK, JobsInv, EntryInv, Active
<1>19. Shared' = FALSE /\ Generates' = FALSE
  BY <1>18 DEF Shared, Generates
<1> QED
  BY <1>10, <1>11, <1>14, <1>17, <1>19 DEF Coming, Ready, frontendVars

\* What comes is the same when a message goes from one queue to the next.
LEMMA SamePath ==
    ASSUME Kept, Coming, Total' = Total, \A i \in 1..Total : Path'[i] = Path[i],
           UNCHANGED <<list, large, stage>>
    PROVE  Coming'
<1>1. Path = [i \in 1..Total |-> Path[i]]
  BY DEF Path
<1>2. Path' = [i \in 1..Total |-> Path'[i]]
  BY DEF Path
<1>3. Path' = Path
  BY <1>1, <1>2
<1>4. Shared' = Shared /\ Generates' = Generates
  BY DEF Shared, Generates
<1> QED
  BY <1>3, <1>4 DEF Coming

\* A message goes from the Broadcast into the subscription.
LEMMA DistributeComing == ASSUME Kept, Coming, connected, Distribute PROVE Coming'
<1>1. PICK w, q, u, x : w = Len(wire) /\ q = Len(queue) /\ u = Len(upstream) /\ x = upstream[1]
  OBVIOUS
<1>2. /\ w \in Nat /\ q \in Nat /\ u \in Nat /\ u >= 1
      /\ wire' = wire /\ Len(queue') = q + 1 /\ Len(upstream') = u - 1
      /\ \A i \in 1..q : queue'[i] = queue[i]
      /\ queue'[q + 1] = x
      /\ \A i \in 1..(u - 1) : upstream'[i] = upstream[i + 1]
  <2>1. upstream \in Seq(Messages) /\ queue \in Seq(Messages) /\ upstream # <<>>
    BY DEF Kept, TypeOK, Distribute
  <2>2. queue' = Append(queue, Head(upstream)) /\ upstream' = Tail(upstream) /\ wire' = wire
    BY DEF Distribute
  <2>3. /\ Head(upstream) = x /\ x \in Messages /\ u \in Nat /\ u >= 1
        /\ Len(upstream') = u - 1 /\ \A i \in 1..(u - 1) : upstream'[i] = upstream[i + 1]
    BY <1>1, <2>1, <2>2, TailFacts
  <2>4. /\ Len(queue') = q + 1 /\ \A i \in 1..q : queue'[i] = queue[i]
        /\ queue'[q + 1] = x /\ q \in Nat
    BY <1>1, <2>1, <2>2, <2>3, AppendFacts
  <2> QED
    BY <1>1, <2>2, <2>3, <2>4, PathType
<1>3. Total = w + q + u /\ Total' = w + q + u
  BY <1>1, <1>2 DEF Total
<1>4. \A y : KindOf(y)' = KindOf(y)
  BY DEF KindOf, Distribute
<1>5. ASSUME NEW i \in 1..Total
      PROVE  Path'[i] = Path[i]
  <2>1. Path[i] = IF i <= w THEN Kind(wire[i])
                  ELSE IF i <= w + q THEN KindOf(queue[i - w]) ELSE KindOf(upstream[i - w - q])
    BY <1>1 DEF Path
  <2>2. Path'[i] = IF i <= w THEN Kind(wire[i])
                   ELSE IF i <= w + (q + 1) THEN KindOf(queue'[i - w])
                   ELSE KindOf(upstream'[i - w - (q + 1)])
    BY <1>1, <1>2, <1>3 DEF Path, KindOf, Distribute
  <2>3. CASE i <= w
    BY <1>2, <1>3, <2>1, <2>2, <2>3
  <2>4. CASE ~(i <= w) /\ i <= w + q
    <3>1. i - w \in 1..q /\ i <= w + (q + 1)
      BY <1>2, <1>3, <2>4
    <3> QED
      BY <1>2, <2>1, <2>2, <2>4, <3>1
  <2>5. CASE i = w + q + 1
    <3>1. ~(i <= w) /\ ~(i <= w + q) /\ i <= w + (q + 1) /\ i - w = q + 1 /\ i - w - q = 1
      BY <1>2, <2>5
    <3> QED
      BY <1>1, <1>2, <2>1, <2>2, <3>1
  <2>6. CASE i > w + q + 1
    <3>1. /\ ~(i <= w) /\ ~(i <= w + q) /\ ~(i <= w + (q + 1))
          /\ i - w - (q + 1) \in 1..(u - 1) /\ (i - w - (q + 1)) + 1 = i - w - q
      BY <1>2, <1>3, <2>6
    <3>2. upstream'[i - w - (q + 1)] = upstream[i - w - q]
      BY <1>2, <3>1
    <3> QED
      BY <2>1, <2>2, <3>1, <3>2
  <2> QED
    BY <1>2, <1>3, <2>3, <2>4, <2>5, <2>6
<1> QED
  BY <1>3, <1>5, SamePath DEF Distribute, frontendVars

\* A message goes from the subscription into the websocket, and is of the kind it was.
LEMMA SendComing == ASSUME Kept, Coming, Send PROVE Coming'
<1>1. PICK w, q, u, x : w = Len(wire) /\ q = Len(queue) /\ u = Len(upstream) /\ x = queue[1]
  OBVIOUS
<1>2. x \in Messages /\ Head(queue) = x /\ Alive(x)
  BY <1>1, TailFacts DEF Kept, TypeOK, JobsInv, MessagesAlive, Send
<1>3. Pickled(x) \in Pickles /\ Kind(Pickled(x)) = KindOf(x)
  BY <1>2, PickledFacts DEF Kept, TypeOK
<1>4. /\ w \in Nat /\ q \in Nat /\ u \in Nat /\ q >= 1
      /\ upstream' = upstream /\ Len(wire') = w + 1 /\ Len(queue') = q - 1
      /\ \A i \in 1..w : wire'[i] = wire[i]
      /\ wire'[w + 1] = Pickled(x)
      /\ \A i \in 1..(q - 1) : queue'[i] = queue[i + 1]
  <2>1. queue \in Seq(Messages) /\ queue # <<>> /\ wire \in Seq(Pickles)
    BY DEF Kept, TypeOK, JobsInv, Send
  <2>2. wire' = Append(wire, Pickled(x)) /\ queue' = Tail(queue) /\ upstream' = upstream
    BY <1>2 DEF Send, coordinatorVars
  <2>3. /\ q \in Nat /\ q >= 1
        /\ Len(queue') = q - 1 /\ \A i \in 1..(q - 1) : queue'[i] = queue[i + 1]
    BY <1>1, <2>1, <2>2, TailFacts
  <2>4. /\ Len(wire') = w + 1 /\ \A i \in 1..w : wire'[i] = wire[i]
        /\ wire'[w + 1] = Pickled(x) /\ w \in Nat
    BY <1>1, <1>3, <2>1, <2>2, AppendFacts
  <2> QED
    BY <1>1, <2>2, <2>3, <2>4, PathType
<1>5. Total = w + q + u /\ Total' = w + q + u
  BY <1>1, <1>4 DEF Total
<1>6. ASSUME NEW i \in 1..Total
      PROVE  Path'[i] = Path[i]
  <2>1. Path[i] = IF i <= w THEN Kind(wire[i])
                  ELSE IF i <= w + q THEN KindOf(queue[i - w]) ELSE KindOf(upstream[i - w - q])
    BY <1>1 DEF Path
  <2>2. Path'[i] = IF i <= w + 1 THEN Kind(wire'[i])
                   ELSE IF i <= w + 1 + (q - 1) THEN KindOf(queue'[i - (w + 1)])
                   ELSE KindOf(upstream[i - (w + 1) - (q - 1)])
    BY <1>1, <1>4, <1>5 DEF Path, KindOf, Send, coordinatorVars
  <2>3. CASE i <= w
    <3>1. i \in 1..w /\ i <= w + 1
      BY <1>4, <1>5, <2>3
    <3> QED
      BY <1>4, <2>1, <2>2, <2>3, <3>1
  <2>4. CASE i = w + 1
    <3>1. ~(i <= w) /\ i <= w + 1 /\ i <= w + q /\ i - w = 1
      BY <1>4, <2>4
    <3>2. Path'[i] = Kind(Pickled(x)) /\ Path[i] = KindOf(x)
      BY <1>1, <1>4, <2>1, <2>2, <2>4, <3>1
    <3> QED
      BY <1>3, <3>2
  <2>5. CASE i > w + 1 /\ i <= w + q
    <3>1. /\ ~(i <= w) /\ ~(i <= w + 1) /\ i <= w + 1 + (q - 1)
          /\ i - (w + 1) \in 1..(q - 1) /\ (i - (w + 1)) + 1 = i - w
      BY <1>4, <1>5, <2>5
    <3>2. queue'[i - (w + 1)] = queue[i - w]
      BY <1>4, <3>1
    <3> QED
      BY <2>1, <2>2, <2>5, <3>1, <3>2
  <2>6. CASE i > w + q
    <3>1. /\ ~(i <= w) /\ ~(i <= w + q) /\ ~(i <= w + 1) /\ ~(i <= w + 1 + (q - 1))
          /\ i - (w + 1) - (q - 1) = i - w - q
      BY <1>4, <1>5, <2>6
    <3> QED
      BY <2>1, <2>2, <3>1
  <2> QED
    BY <1>4, <1>5, <2>3, <2>4, <2>5, <2>6
<1> QED
  BY <1>5, <1>6, SamePath DEF Send, frontendVars, coordinatorVars

\* Without a connection that was lost, the lists that the frontend has did not come from an
\* HTTP request, and nothing raises.
LEMMA ReceiveComing ==
    ASSUME Kept, Kept', Coming, Receive
    PROVE  Coming'
<1>1. PICK w, q, u : w = Len(wire) /\ q = Len(queue) /\ u = Len(upstream)
  OBVIOUS
<1>2. /\ w \in Nat /\ q \in Nat /\ u \in Nat /\ w >= 1 /\ Head(wire) = wire[1]
      /\ wire[1] \in Pickles
      /\ upstream' = upstream /\ queue' = queue /\ Len(wire') = w - 1
      /\ \A i \in 1..(w - 1) : wire'[i] = wire[i + 1]
  BY <1>1, TailFacts, PathType DEF Kept, JobsInv, Receive, coordinatorVars
<1>3. PICK n \in Nat : n = Total' /\ n + 1 = Total
  <2>1. Total = w + q + u /\ Total' = (w - 1) + q + u
    BY <1>1, <1>2 DEF Total
  <2>2. PICK k \in Nat : k = (w - 1) + q + u
    BY <1>2
  <2>3. k = Total' /\ k + 1 = Total
    BY <1>2, <2>1, <2>2
  <2> QED
    BY <2>3
<1>4. n + 1 = w + q + u
  BY <1>1, <1>3 DEF Total
<1>5. PICK f \in [1..(n + 1) -> Kinds] : f = Path
  BY <1>3, PathType
<1>6. Path' \in [1..n -> Kinds]
  BY <1>3 DEF Path, Kind, KindOf, Kinds
<1>7. PICK g \in [1..n -> Kinds] : g = Path'
  BY <1>6
<1>8. ASSUME NEW i \in 1..n
      PROVE  g[i] = f[i + 1]
  <2>1. i + 1 \in 1..Total
    BY <1>3
  <2>2. f[i + 1] = IF i + 1 <= w THEN Kind(wire[i + 1])
                   ELSE IF i + 1 <= w + q THEN KindOf(queue[(i + 1) - w])
                   ELSE KindOf(upstream[(i + 1) - w - q])
    BY <1>1, <1>5, <2>1 DEF Path
  <2>3. g[i] = IF i <= w - 1 THEN Kind(wire'[i])
               ELSE IF i <= (w - 1) + q THEN KindOf(queue[i - (w - 1)])
               ELSE KindOf(upstream[i - (w - 1) - q])
    BY <1>1, <1>2, <1>3, <1>7 DEF Path, KindOf, Receive, coordinatorVars
  <2>4. CASE i <= w - 1
    <3>1. i + 1 <= w /\ i \in 1..(w - 1)
      BY <1>2, <2>4
    <3> QED
      BY <1>2, <2>2, <2>3, <2>4, <3>1
  <2>5. CASE ~(i <= w - 1) /\ i <= (w - 1) + q
    <3>1. ~(i + 1 <= w) /\ i + 1 <= w + q /\ (i + 1) - w = i - (w - 1)
      BY <1>2, <2>5
    <3> QED
      BY <2>2, <2>3, <2>5, <3>1
  <2>6. CASE ~(i <= w - 1) /\ ~(i <= (w - 1) + q)
    <3>1. ~(i + 1 <= w) /\ ~(i + 1 <= w + q) /\ (i + 1) - w - q = i - (w - 1) - q
      BY <1>2, <2>6
    <3> QED
      BY <2>2, <2>3, <2>6, <3>1
  <2> QED
    BY <2>4, <2>5, <2>6
<1>9. f[1] = Kind(wire[1])
  BY <1>1, <1>2, <1>3, <1>5 DEF Path
<1>10. PICK l \in Kinds, has \in BOOLEAN, s \in BOOLEAN, t \in BOOLEAN,
            l2 \in Kinds, has2 \in BOOLEAN :
         /\ l = Kind(list) /\ has = large /\ s = Shared /\ t = Generates
         /\ l2 = Kind(list') /\ has2 = large'
  <2>1. Kind(list') \in Kinds /\ large' \in BOOLEAN
    BY DEF Kind, Kinds, Kept, TypeOK
  <2> QED
    BY <2>1, PathType
<1>11. \A m : /\ Listing(Kind(m)) => Lists(m)
              /\ m # NoValue /\ m.type = "list" => (Kind(m) # "absent" <=> Lists(m))
  BY DEF Listing, Kind, Lists
<1>12. Received(f[1], l, has, l2, has2)
  <2> USE DEF Received
  <2>1. wire[1] # NoValue /\ (Kind(wire[1]) = "large" <=> wire[1].type = "large")
    BY <1>2, NoValueAssumption DEF Pickles, JobLists, Messages, Kind
  <2>2. CASE wire[1].type = "large"
    <3>1. ReceiveLarge
      BY <1>2, <2>2 DEF Receive
    <3>2. list' = list /\ (Lists(list) => large')
      BY <3>1 DEF ReceiveLarge
    <3> QED
      BY <1>9, <1>10, <1>11, <2>1, <2>2, <3>2
  <2>3. CASE wire[1].type # "large"
    <3>1. wire[1] \in JobLists
      BY <1>2, <2>3 DEF Pickles
    <3>2. list' = wire[1] /\ large' = (large /\ Lists(wire[1]))
      BY <1>2, <2>3 DEF Receive, ReceiveList, PutList
    <3>3. Kind(wire[1]) # "absent" <=> Lists(wire[1])
      BY <1>11, <2>1, <3>1 DEF JobLists
    <3> QED
      BY <1>9, <1>10, <2>1, <2>3, <3>2, <3>3 DEF Lists
  <2> QED
    BY <2>2, <2>3
<1>13. MetadataComes(f, n + 1, l, has, s, t)
  BY <1>3, <1>5, <1>10 DEF Coming
<1>14. MetadataComes(g, n, l2, has2, s, t)
  <2>1. Follows(g, f, n)
    BY <1>8 DEF Follows
  <2> QED
    BY <1>12, <1>13, <2>1, ReceivedPath
<1>15. Shared' = Shared /\ Generates' = Generates
  BY DEF Shared, Generates, Receive, coordinatorVars
<1> QED
  BY <1>3, <1>7, <1>10, <1>14, <1>15 DEF Coming

\* What the viewer does, and a subscription, say nothing of what comes.
LEMMA QuietComing ==
    ASSUME Coming, UNCHANGED <<stage, wire, queue, upstream, list, large>>
    PROVE  Coming'
<1>1. Path' = Path /\ Total' = Total
  BY DEF Path, Total, KindOf
<1> QED
  BY <1>1 DEF Coming, Shared, Generates

\* A job changes, and what waits is of the same kind.
LEMMA RestagedComing ==
    ASSUME Kept, Coming, UNCHANGED <<wire, queue, upstream, list, large>>,
           \A x \in Messages : Alive(x) => KindOf(x)' = KindOf(x),
           Shared' = Shared, Generates' = Generates
    PROVE  Coming'
<1>1. PICK w, q, u : w = Len(wire) /\ q = Len(queue) /\ u = Len(upstream)
  OBVIOUS
<1>2. w \in Nat /\ q \in Nat /\ u \in Nat /\ Total = w + q + u /\ Total' = Total
  BY <1>1, PathType DEF Total
<1>3. ASSUME NEW i \in 1..Total
      PROVE  Path'[i] = Path[i]
  <2>1. Path[i] = IF i <= w THEN Kind(wire[i])
                  ELSE IF i <= w + q THEN KindOf(queue[i - w]) ELSE KindOf(upstream[i - w - q])
    BY <1>1 DEF Path
  <2>2. Path'[i] = IF i <= w THEN Kind(wire[i])
                   ELSE IF i <= w + q THEN KindOf(queue[i - w])' ELSE KindOf(upstream[i - w - q])'
    BY <1>1, <1>2 DEF Path
  <2>3. CASE ~(i <= w) /\ i <= w + q
    <3>1. PICK m : m = queue[i - w]
      OBVIOUS
    <3>2. m \in Messages /\ Alive(m)
      <4>1. i - w \in 1..q
        BY <1>2, <2>3
      <4> QED
        BY <1>1, <3>1, <4>1, ElementOfSeq DEF Kept, TypeOK, JobsInv, MessagesAlive
    <3>3. Path'[i] = KindOf(m)'
      BY <2>2, <2>3, <3>1 DEF KindOf
    <3> QED
      BY <2>1, <2>3, <3>1, <3>2, <3>3
  <2>4. CASE ~(i <= w) /\ ~(i <= w + q)
    <3>1. PICK m : m = upstream[i - w - q]
      OBVIOUS
    <3>2. m \in Messages /\ Alive(m)
      <4>1. i - w - q \in 1..u
        BY <1>2, <2>4
      <4> QED
        BY <1>1, <3>1, <4>1, ElementOfSeq DEF Kept, TypeOK, JobsInv, MessagesAlive
    <3>3. Path'[i] = KindOf(m)'
      BY <2>2, <2>4, <3>1 DEF KindOf
    <3> QED
      BY <2>1, <2>4, <3>1, <3>2, <3>3
  <2> QED
    BY <2>1, <2>2, <2>3, <2>4
<1>4. PICK f, n : f = Path /\ n = Total
  OBVIOUS
<1>5. Path = [i \in 1..n |-> f[i]] /\ Path' = [i \in 1..Total' |-> Path'[i]]
  BY <1>4 DEF Path
<1>6. Path' = Path
  BY <1>2, <1>3, <1>4, <1>5
<1> QED
  BY <1>2, <1>6 DEF Coming

\* A job that was never announced is in no message.
LEMMA PushComing == ASSUME Kept, Coming, NEW j \in Job, Push(j) PROVE Coming'
<1>1. stage' = [stage EXCEPT ![j] = "queued"] /\ stage[j] = "unborn"
  BY DEF Push
<1>2. stage \in [Job -> Stages \union {"unborn", "dead"}]
  BY DEF Kept, TypeOK
<1>3. Shared' = Shared /\ Generates' = Generates
  <2>1. \A k \in Job : /\ stage'[k] \in {"shared", "merge"} <=> stage[k] \in {"shared", "merge"}
                       /\ stage'[k] = "generate" <=> stage[k] = "generate"
    BY <1>1, <1>2
  <2> QED
    BY <2>1 DEF Shared, Generates
<1>4. ASSUME NEW x \in Messages, Alive(x)
      PROVE  KindOf(x)' = KindOf(x)
  <2>1. CASE x.type = "large" \/ x.job = NoJob
    BY <2>1 DEF KindOf
  <2>2. CASE x.type # "large" /\ x.job # NoJob
    <3>1. x.job \in Job /\ stage[x.job] \in Stages
      BY <1>4, <2>2 DEF Messages, Alive
    <3>2. stage'[x.job] = stage[x.job]
      BY <1>1, <1>2, <3>1 DEF Stages
    <3> QED
      BY <2>2, <3>2 DEF KindOf
  <2> QED
    BY <2>1, <2>2
<1> QED
  BY <1>3, <1>4, RestagedComing DEF Push, connection, frontendVars

\* A job that is stored is as advanced as it was.
LEMMA StoreComing == ASSUME Kept, Coming, NEW j \in Job, Store(j) PROVE Coming'
<1>1. stage' = [stage EXCEPT ![j] = "stored"] /\ stage[j] = "ready"
  BY DEF Store, Enter
<1>2. stage \in [Job -> Stages \union {"unborn", "dead"}]
  BY DEF Kept, TypeOK
<1>3. Shared' = Shared /\ Generates' = Generates
  <2>1. \A k \in Job : /\ stage'[k] \in {"shared", "merge"} <=> stage[k] \in {"shared", "merge"}
                       /\ stage'[k] = "generate" <=> stage[k] = "generate"
    BY <1>1, <1>2
  <2> QED
    BY <2>1 DEF Shared, Generates
<1>4. ASSUME NEW x \in Messages, Alive(x)
      PROVE  KindOf(x)' = KindOf(x)
  <2>1. CASE x.type = "large" \/ x.job = NoJob
    BY <2>1 DEF KindOf
  <2>2. CASE x.type # "large" /\ x.job # NoJob
    <3>1. x.job \in Job
      BY <2>2 DEF Messages
    <3>2. \/ stage'[x.job] = stage[x.job]
          \/ stage'[x.job] = "stored" /\ stage[x.job] = "ready"
      BY <1>1, <1>2, <3>1
    <3> QED
      BY <2>2, <3>2 DEF KindOf
  <2> QED
    BY <2>1, <2>2
<1> QED
  BY <1>3, <1>4, RestagedComing DEF Store, connection, frontendVars

\* The same, with what else MetadataInv says.
LEMMA MetadataStays ==
    ASSUME Kept, MetadataInv, UNCHANGED faults,
           faults = 0 => UNCHANGED <<connected, poll>>,
           faults = 0 => list' = list \/ ~list'.json,
           faults = 0 /\ connected /\ Coming => Coming'
    PROVE  MetadataInv'
BY DEF MetadataInv, Coming

\* At first nothing is on its way.
LEMMA InitMetadata == Init => MetadataInv
<1> SUFFICES ASSUME Init PROVE MetadataInv
  OBVIOUS
<1>1. Total = 0 /\ Path = [i \in 1..0 |-> Path[i]] /\ Kind(list) = "absent"
  BY DEF Init, Total, Path, Kind
<1>2. ~Shared /\ ~Generates
  BY DEF Init, Shared, Generates
<1>3. \A i : i \notin 1..Total
  BY <1>1
<1>4. MetadataComes(Path, Total, Kind(list), large, Shared, Generates)
  BY <1>1, <1>2, <1>3 DEF MetadataComes
<1> QED
  BY <1>4 DEF Init, MetadataInv

\* MetadataInv is inductive.
LEMMA StepMetadata ==
    ASSUME Kept, Kept', MetadataInv, [Next]_vars
    PROVE  MetadataInv'
<1>1. CASE UNCHANGED vars
  BY <1>1, MetadataStays, QuietComing DEF vars, coordinatorVars, connection, frontendVars, counters
<1>2. ASSUME NEW j \in Job,
             Push(j) \/ Generate(j) \/ Share(j) \/ Merge(j) \/ Ready(j) \/ Store(j) \/ Fail(j)
      PROVE  MetadataInv'
  <2>1. UNCHANGED <<connection, frontendVars, counters>>
    BY <1>2 DEF Push, Generate, Share, Merge, Ready, Store, Fail
  <2>2. Coming => Coming'
    BY <1>2, PushComing, GenerateComing, ShareComing, MergeComing, ReadyComing, StoreComing,
       FailComing
  <2> QED
    BY <2>1, <2>2, MetadataStays DEF connection, frontendVars, counters
<1>3. CASE Traffic \/ RemoveFailed
  <2>1. UNCHANGED <<connection, frontendVars, faults>>
    BY <1>3 DEF Traffic, RemoveFailed, counters
  <2> QED
    BY <1>3, <2>1, MetadataStays, TrafficComing, RemoveFailedComing DEF connection, frontendVars
<1>4. CASE Distribute
  BY <1>4, MetadataStays, DistributeComing DEF Distribute, frontendVars, counters
<1>5. CASE Send
  BY <1>5, MetadataStays, SendComing DEF Send, frontendVars, counters
<1>6. CASE Crash \/ Drop \/ Poll \/ RestartFrontend
  <2>1. faults \in Nat /\ faults' = faults + 1
    BY <1>6, BoundsAssumption DEF Crash, Drop, Poll, RestartFrontend, Fault, Kept, TypeOK
  <2> QED
    BY <2>1 DEF MetadataInv
<1>7. CASE Connect \/ PollAnswered \/ ReceiveFails
  <2>1. UNCHANGED faults
    BY <1>7 DEF Connect, PollAnswered, ReceiveFails, counters
  <2>2. CASE faults = 0
    <3>1. connected /\ poll = <<"none">> /\ (list # NoValue => ~list.json)
      BY <2>2 DEF MetadataInv
    <3>2. poll[1] # "asked"
      BY <3>1
    <3> QED
      BY <1>7, <3>1, <3>2 DEF Connect, PollAnswered, ReceiveFails, Raises, Vanished
  <2> QED
    BY <2>1, <2>2 DEF MetadataInv
<1>8. CASE Receive
  <2>1. UNCHANGED <<connected, faults>>
    BY <1>8 DEF Receive, counters
  <2>2. wire[1] \in Pickles /\ Head(wire) = wire[1]
    BY <1>8, TailFacts DEF Receive, Kept, JobsInv
  <2>3. CASE wire[1].type = "large"
    <3>1. UNCHANGED <<list, poll>>
      BY <1>8, <2>2, <2>3 DEF Receive, ReceiveLarge
    <3> QED
      BY <1>8, <2>1, <3>1, MetadataStays, ReceiveComing
  <2>4. CASE wire[1].type # "large"
    <3>1. list' = wire[1] /\ poll' = IF poll = <<"put">> THEN <<"none">> ELSE poll
      BY <1>8, <2>2, <2>4 DEF Receive, ReceiveList, PutList
    <3>2. ~list'.json
      BY <2>2, <2>4, <3>1 DEF Pickles
    <3>3. faults = 0 => poll' = poll
      BY <3>1 DEF MetadataInv
    <3> QED
      BY <1>8, <2>1, <3>2, <3>3, MetadataStays, ReceiveComing
  <2> QED
    BY <2>3, <2>4
<1>9. CASE Expire \/ DistributeList \/ Look \/ Subscribe \/ Take \/ Leave
  <2>1. UNCHANGED <<stage, upstream, connection, list, large, poll, faults>>
    BY <1>9 DEF Expire, DistributeList, Look, Subscribe, Take, Leave, coordinatorVars, frontendVars,
       counters
  <2> QED
    BY <2>1, MetadataStays, QuietComing DEF connection
<1> QED
  BY <1>1, <1>2, <1>3, <1>4, <1>5, <1>6, <1>7, <1>8, <1>9 DEF Next

-----------------------------------------------------------------------------
(* The viewer.                                                             *)

\* The newest item of a viewer's queue is the one that was put last, full or not.
LEMMA NewestItem ==
    ASSUME NEW q \in Seq(JobLists), NEW item \in JobLists
    PROVE  Enqueue(q, item) # <<>> /\ Enqueue(q, item)[Len(Enqueue(q, item))] = item
<1>1. PICK r \in Seq(JobLists) : Enqueue(q, item) = Append(r, item)
  <2>1. CASE Len(q) < MaxQueueSize
    BY <2>1 DEF Enqueue
  <2>2. CASE ~(Len(q) < MaxQueueSize)
    <3>1. q # <<>>
      BY <2>2, EmptyFacts, QueueAssumption
    <3> QED
      BY <2>2, <3>1, TailFacts DEF Enqueue
  <2> QED
    BY <2>1, <2>2
<1> QED
  BY <1>1, AppendFacts

\* What the viewer does not take part in.
LEMMA ViewerQuiet ==
    ASSUME ViewerInv, UNCHANGED <<list, lists, viewerVars>>
    PROVE  ViewerInv'
BY DEF ViewerInv, viewerVars, Lists

\* The frontend has a new list.
LEMMA ViewerPut ==
    ASSUME TypeOK, ViewerInv, NEW data \in JobLists, PutList(data), UNCHANGED viewerVars
    PROVE  ViewerInv'
<1>1. lists' # <<>> /\ lists'[Len(lists')] = data /\ list' = data /\ data # NoValue
  BY AppendFacts, NoValueAssumption DEF TypeOK, PutList
<1> QED
  BY <1>1 DEF ViewerInv, viewerVars

\* The newest list that is handed out is the newest of the viewer.
LEMMA ViewerDistribute ==
    ASSUME TypeOK, ViewerInv, DistributeList
    PROVE  ViewerInv'
<1>1. /\ lists # <<>> /\ lists' = Tail(lists) /\ Head(lists) = lists[1] /\ lists[1] \in JobLists
      /\ lists' = <<>> <=> Len(lists) = 1
      /\ lists' # <<>> => lists'[Len(lists')] = lists[Len(lists)]
  BY TailFacts DEF TypeOK, DistributeList
<1>2. list # NoValue /\ lists[Len(lists)] = list /\ list' = list
  BY <1>1 DEF ViewerInv, DistributeList
<1>3. UNCHANGED <<viewer, seen, shown>>
  BY DEF DistributeList
<1>4. viewer = "watching" => items' # <<>> /\ items'[Len(items')] = lists[1]
  BY <1>1, NewestItem DEF TypeOK, DistributeList
<1> QED
  BY <1>1, <1>2, <1>3, <1>4 DEF ViewerInv

\* A new viewer starts with the newest list.
LEMMA ViewerSubscribe == ASSUME ViewerInv, Subscribe PROVE ViewerInv'
BY DEF ViewerInv, Subscribe, frontendVars, Lists

\* A viewer that has taken the newest list shows it, if it lists its visit.
LEMMA ViewerTake == ASSUME TypeOK, ViewerInv, Take PROVE ViewerInv'
<1>1. UNCHANGED <<list, lists>>
  BY DEF Take, frontendVars
<1>2. CASE viewer' = "away"
  BY <1>1, <1>2 DEF ViewerInv, Take
<1>3. CASE viewer' # "away"
  <2>1. /\ items # <<>> /\ items' = Tail(items) /\ viewer' = "watching" /\ viewer = "watching"
        /\ seen' = Seen(items[1]) /\ shown' = View(seen')
    BY <1>3 DEF Take
  <2>2. /\ items' = <<>> <=> Len(items) = 1
        /\ items' # <<>> => items'[Len(items')] = items[Len(items)]
    BY <2>1, TailFacts DEF TypeOK
  <2>3. lists = <<>> => list # NoValue /\ items[Len(items)] = list
    BY <2>1 DEF ViewerInv
  <2>4. lists = <<>> /\ items' = <<>> /\ Lists(list) => shown' = View(list.stage)
    BY <2>1, <2>2, <2>3 DEF Seen
  <2> QED
    BY <1>1, <2>1, <2>2, <2>3, <2>4 DEF ViewerInv, Lists
<1> QED
  BY <1>2, <1>3

\* ViewerInv is inductive.
LEMMA StepViewer == ASSUME Kept, ViewerInv, [Next]_vars PROVE ViewerInv'
<1>1. CASE UNCHANGED vars
  BY <1>1, ViewerQuiet DEF vars, frontendVars
<1>2. ASSUME NEW j \in Job,
             Push(j) \/ Generate(j) \/ Share(j) \/ Merge(j) \/ Ready(j) \/ Store(j) \/ Fail(j)
      PROVE  ViewerInv'
  BY <1>2, ViewerQuiet DEF Push, Generate, Share, Merge, Ready, Store, Fail, frontendVars
<1>3. CASE Traffic \/ RemoveFailed \/ Distribute \/ Crash
  BY <1>3, ViewerQuiet DEF Traffic, RemoveFailed, Distribute, Crash, frontendVars
<1>4. CASE Connect \/ Send \/ Drop \/ ReceiveFails \/ Expire \/ Poll
  BY <1>4, ViewerQuiet DEF Connect, Send, Drop, ReceiveFails, Expire, Poll, frontendVars
<1>5. CASE Receive
  <2>1. Head(wire) \in Pickles
    BY <1>5, TailFacts DEF Receive, Kept, JobsInv
  <2>2. CASE Head(wire).type = "large"
    BY <1>5, <2>2, ViewerQuiet DEF Receive, ReceiveLarge
  <2>3. CASE Head(wire).type # "large"
    <3>1. Head(wire) \in JobLists /\ PutList(Head(wire)) /\ UNCHANGED viewerVars
      BY <1>5, <2>1, <2>3 DEF Receive, ReceiveList, Pickles
    <3> QED
      BY <3>1, ViewerPut DEF Kept
  <2> QED
    BY <2>2, <2>3
<1>6. CASE PollAnswered
  <2>1. poll[2] \in JobLists /\ PutList(poll[2]) /\ UNCHANGED viewerVars
    BY <1>6 DEF PollAnswered, Kept, TypeOK
  <2> QED
    BY <2>1, ViewerPut DEF Kept
<1>7. CASE RestartFrontend \/ Look \/ Leave
  BY <1>7 DEF ViewerInv, RestartFrontend, Look, Leave, frontendVars, viewerVars, Lists
<1> QED
  BY <1>1, <1>2, <1>3, <1>4, <1>5, <1>6, <1>7, ViewerDistribute, ViewerSubscribe, ViewerTake
  DEF Next, Kept

-----------------------------------------------------------------------------
(* The theorems.                                                           *)

\* A frontend that has received everything knows what the coordinator said last.
LEMMA CurrentWhenDelivered == Kept /\ CurrentInv => FrontendIsCurrent
<1> SUFFICES ASSUME Kept, CurrentInv, connected, Delivered, last # NoValue,
                    last.type = "list", poll # <<"put">>
             PROVE  list # NoValue /\ Agrees(list)
  BY DEF FrontendIsCurrent, Agrees
<1> QED
  BY DEF CurrentInv, Delivered

\* A frontend that has received everything has the metadata, as none are to come.
LEMMA MetadataWhenDelivered == Kept /\ MetadataInv => MetadataIsThere
<1> SUFFICES ASSUME Kept, MetadataInv, Delivered, faults = 0,
                    Lists(list), list.stage \in {"merge", "ready"}
             PROVE  large
  BY DEF MetadataIsThere
<1>1. Total = 0
  BY EmptyFacts DEF Delivered, Total
<1>2. list \in JobLists /\ Kind(list) = "advanced"
  BY DEF Lists, Kept, TypeOK, Kind, JobLists
<1>3. large \/ \E k \in 1..Total : Path[k] = "large"
  BY <1>2 DEF MetadataInv, MetadataComes
<1>4. \A k : k \notin 1..Total
  BY <1>1
<1> QED
  BY <1>3, <1>4

\* IInv is inductive.
LEMMA RelayInvariant == Spec => []IInv
<1>1. Init => IInv
  <2> SUFFICES ASSUME Init PROVE IInv
    OBVIOUS
  <2>1. ViewerInv
    BY DEF Init, ViewerInv, Lists
  <2> QED
    BY <2>1, InitJobs, InitCurrent, InitMetadata DEF IInv, Kept
<1>2. IInv /\ [Next]_vars => IInv'
  <2> SUFFICES ASSUME IInv, [Next]_vars PROVE IInv'
    OBVIOUS
  <2>1. Kept
    BY DEF IInv, Kept
  <2>2. Kept'
    BY <2>1, StepJobs
  <2> QED
    BY <2>1, <2>2, StepCurrent, StepMetadata, StepViewer DEF IInv, Kept
<1> QED
  BY <1>1, <1>2, PTL DEF Spec

\* The state has its types; a frontend that is connected and has received everything says
\* of the visit's job what the coordinator says, and, if no connection was lost, has the
\* metadata it needs: _apply_shared_status_message against JobManager.
THEOREM FrontendKnows == Spec => []RelayInv
<1>1. IInv => RelayInv
  BY CurrentWhenDelivered, MetadataWhenDelivered DEF IInv, Kept, RelayInv
<1> QED
  BY <1>1, RelayInvariant, PTL

\* A viewer that has taken all its lists shows what the last of them says of its visit,
\* whatever its queue has dropped.
THEOREM ViewerShowsTheNewest == Spec => []ViewerIsCurrent
<1>1. IInv => ViewerIsCurrent
  BY DEF IInv, ViewerInv, ViewerIsCurrent
<1> QED
  BY <1>1, RelayInvariant, PTL

\* A visit that vanishes from the list takes nothing back of what its viewer was shown.
THEOREM NothingIsTakenBack == Spec => VanishingIsNoNews
<1>1. IInv /\ [Next]_vars =>
        [viewer = "watching" /\ viewer' = "watching" /\ shown # "none" /\ shown' # shown
         => Lists(Head(items))]_vars
  <2> SUFFICES ASSUME IInv, [Next]_vars, viewer = "watching", viewer' = "watching",
                      shown # "none", shown' # shown
               PROVE  Lists(Head(items))
    OBVIOUS
  <2>1. Take
    BY DEF Next, vars, Push, Generate, Share, Merge, Ready, Store, Fail, Traffic, RemoveFailed,
       Distribute, Crash, Connect, Send, Drop, Receive, ReceiveFails, Expire, Poll, PollAnswered,
       DistributeList, RestartFrontend, Look, Subscribe, Leave, viewerVars
  <2>2. shown' = View(Seen(Head(items)))
    BY <2>1 DEF Take
  <2>3. shown = View(seen)
    BY DEF IInv, ViewerInv
  <2> QED
    BY <2>2, <2>3 DEF Seen
<1> QED
  BY <1>1, RelayInvariant, PTL DEF Spec, VanishingIsNoNews

-----------------------------------------------------------------------------
(* The lists of visits. *)

\* An order of a set: of two different members one comes before the other.
LinearOrder(order, X) ==
    /\ \A x \in X : <<x, x>> \notin order
    /\ \A x, y, z \in X : <<x, y>> \in order /\ <<y, z>> \in order => <<x, z>> \in order
    /\ \A x, y \in X : x = y \/ <<x, y>> \in order \/ <<y, x>> \in order

\* How many members of S come before x.
PlaceIn(S, order, x) == Cardinality({y \in S : <<y, x>> \in order})

LEMMA PlaceBounds ==
  ASSUME NEW S, IsFiniteSet(S), NEW order, NEW x
  PROVE  /\ IsFiniteSet({y \in S : <<y, x>> \in order})
         /\ PlaceIn(S, order, x) \in Nat /\ PlaceIn(S, order, x) <= Cardinality(S)
         /\ (x \in S /\ <<x, x>> \notin order) => PlaceIn(S, order, x) < Cardinality(S)
<1> DEFINE L == {y \in S : <<y, x>> \in order}
<1>1. /\ IsFiniteSet(L) /\ Cardinality(L) <= Cardinality(S)
      /\ Cardinality(S) = Cardinality(L) => S = L
  BY FS_Subset
<1>2. Cardinality(L) \in Nat /\ Cardinality(S) \in Nat
  BY <1>1, FS_CardinalityType
<1>3. (x \in S /\ <<x, x>> \notin order) => S # L
  OBVIOUS
<1>4. PlaceIn(S, order, x) = Cardinality(L)
  BY DEF PlaceIn
<1> QED
  BY <1>1, <1>2, <1>3, <1>4

LEMMA PlaceGrows ==
  ASSUME NEW T, IsFiniteSet(T), NEW S \in SUBSET T, NEW order, NEW x
  PROVE  PlaceIn(S, order, x) <= PlaceIn(T, order, x)
<1>1. {y \in S : <<y, x>> \in order} \subseteq {y \in T : <<y, x>> \in order}
  OBVIOUS
<1>2. IsFiniteSet({y \in T : <<y, x>> \in order})
  BY PlaceBounds
<1> QED
  BY <1>1, <1>2, FS_Subset DEF PlaceIn

LEMMA PlacesFollow ==
  ASSUME NEW X, NEW order, LinearOrder(order, X), NEW S \in SUBSET X, IsFiniteSet(S),
         NEW x \in S, NEW y \in X, <<x, y>> \in order
  PROVE  PlaceIn(S, order, x) < PlaceIn(S, order, y)
<1> DEFINE T == {z \in S : <<z, y>> \in order}
<1>1. IsFiniteSet(T) /\ x \in T
  BY PlaceBounds
<1>2. {z \in T : <<z, x>> \in order} = {z \in S : <<z, x>> \in order}
  <2>1. \A z \in S : <<z, x>> \in order => <<z, y>> \in order
    BY DEF LinearOrder
  <2> QED
    BY <2>1
<1>3. <<x, x>> \notin order
  BY DEF LinearOrder
<1>4. PlaceIn(T, order, x) < Cardinality(T)
  BY <1>1, <1>3, PlaceBounds
<1>5. PlaceIn(T, order, x) = PlaceIn(S, order, x) /\ Cardinality(T) = PlaceIn(S, order, y)
  BY <1>2 DEF PlaceIn
<1> QED
  BY <1>4, <1>5

LEMMA PlacesTellOrder ==
  ASSUME NEW X, NEW order, LinearOrder(order, X), NEW S \in SUBSET X, IsFiniteSet(S),
         NEW x \in S, NEW y \in S
  PROVE  /\ PlaceIn(S, order, x) < PlaceIn(S, order, y) <=> <<x, y>> \in order
         /\ PlaceIn(S, order, x) = PlaceIn(S, order, y) => x = y
<1>1. PlaceIn(S, order, x) \in Nat /\ PlaceIn(S, order, y) \in Nat
  BY PlaceBounds
<1>2. /\ <<x, y>> \in order => PlaceIn(S, order, x) < PlaceIn(S, order, y)
      /\ <<y, x>> \in order => PlaceIn(S, order, y) < PlaceIn(S, order, x)
  BY PlacesFollow
<1>3. x = y \/ <<x, y>> \in order \/ <<y, x>> \in order
  BY DEF LinearOrder
<1> QED
  BY <1>1, <1>2, <1>3

\* The places are the numbers up to the size of the set.
LEMMA PlacesAreFilled ==
  ASSUME NEW X, NEW order, LinearOrder(order, X), NEW S \in SUBSET X, IsFiniteSet(S)
  PROVE  /\ Cardinality(S) \in Nat
         /\ \A x \in S : PlaceIn(S, order, x) \in 0 .. Cardinality(S) - 1
         /\ \A n \in 0 .. Cardinality(S) - 1 : \E x \in S : PlaceIn(S, order, x) = n
<1> DEFINE f == [x \in S |-> PlaceIn(S, order, x)]
           N == 0 .. Cardinality(S) - 1
<1>1. Cardinality(S) \in Nat
  BY FS_CardinalityType
<1>2. ASSUME NEW x \in S PROVE PlaceIn(S, order, x) \in N
  <2>1. <<x, x>> \notin order
    BY DEF LinearOrder
  <2>2. PlaceIn(S, order, x) \in Nat /\ PlaceIn(S, order, x) < Cardinality(S)
    BY <2>1, PlaceBounds
  <2> QED
    BY <1>1, <2>2
<1>3. f \in [S -> N]
  BY <1>2
<1>4. ASSUME NEW x \in S, NEW y \in S, f[x] = f[y] PROVE x = y
  <2>1. PlaceIn(S, order, x) = PlaceIn(S, order, y)
    BY <1>4
  <2> QED
    BY <2>1, PlacesTellOrder
<1>5. f \in Injection(S, N)
  <2> HIDE DEF f, N
  <2> QED
    BY <1>3, <1>4, Fun_IsInj
<1>6. IsFiniteSet(N) /\ Cardinality(N) = Cardinality(S)
  <2>1. IsFiniteSet(N) /\ Cardinality(N) = IF 0 > Cardinality(S) - 1 THEN 0 ELSE Cardinality(S) - 1 - 0 + 1
    BY <1>1, FS_Interval
  <2> QED
    BY <1>1, <2>1
<1>7. f \in Surjection(S, N)
  <2> HIDE DEF f, N
  <2> QED
    BY <1>5, <1>6, FS_Injection
<1>8. \A n \in N : \E x \in S : f[x] = n
  <2> HIDE DEF f, N
  <2> QED
    BY <1>7 DEF Surjection
<1>9. \A x \in S : f[x] = PlaceIn(S, order, x)
  OBVIOUS
<1> QED
  BY <1>1, <1>2, <1>8, <1>9

\* The list of a set has every member at its place.
LEMMA ListedInOrder ==
  ASSUME NEW X, NEW order, LinearOrder(order, X), NEW S \in SUBSET X, IsFiniteSet(S)
  PROVE  LET ordered == InOrder(S, order)
         IN  /\ ordered \in Seq(S) /\ Len(ordered) = Cardinality(S) /\ Cardinality(S) \in Nat
             /\ \A k \in 1 .. Cardinality(S) : PlaceIn(S, order, ordered[k]) = k - 1
<1> DEFINE ordered == InOrder(S, order)
<1>1. /\ Cardinality(S) \in Nat
      /\ \A n \in 0 .. Cardinality(S) - 1 : \E x \in S : PlaceIn(S, order, x) = n
  BY PlacesAreFilled
<1>2. ordered = [k \in 1 .. Cardinality(S) |-> CHOOSE x \in S : PlaceIn(S, order, x) = k - 1]
  BY DEF InOrder, PlaceIn
<1>3. ASSUME NEW k \in 1 .. Cardinality(S)
      PROVE  ordered[k] \in S /\ PlaceIn(S, order, ordered[k]) = k - 1
  <2>1. k - 1 \in 0 .. Cardinality(S) - 1
    BY <1>1
  <2>2. \E x \in S : PlaceIn(S, order, x) = k - 1
    BY <1>1, <2>1
  <2>3. ordered[k] = CHOOSE x \in S : PlaceIn(S, order, x) = k - 1
    BY <1>2
  <2> HIDE DEF ordered
  <2> QED
    BY <2>2, <2>3
<1>4. ordered \in [1 .. Cardinality(S) -> S]
  <2>1. DOMAIN ordered = 1 .. Cardinality(S) /\ ordered = [k \in DOMAIN ordered |-> ordered[k]]
    BY <1>2
  <2> HIDE DEF ordered
  <2> QED
    BY <1>3, <2>1
<1>5. ordered \in Seq(S) /\ Len(ordered) = Cardinality(S)
  <2> HIDE DEF ordered
  <2>1. ordered \in Seq(S)
    BY <1>1, <1>4, IsASeq
  <2>2. DOMAIN ordered = 1 .. Len(ordered) /\ Len(ordered) \in Nat
    BY <2>1, LenProperties
  <2>3. DOMAIN ordered = 1 .. Cardinality(S)
    BY <1>4
  <2> QED
    BY <1>1, <2>1, <2>2, <2>3
<1> QED
  BY <1>1, <1>3, <1>5

\* A page has the members whose places it covers, each at its place.
LEMMA PageOfList ==
  ASSUME NEW X, NEW order, LinearOrder(order, X), NEW S \in SUBSET X, IsFiniteSet(S),
         NEW offset \in Nat, NEW size \in Nat
  PROVE  LET page == PageOf(InOrder(S, order), offset, size)
         IN  /\ page \in Seq(S) /\ Len(page) <= size
             /\ Len(page) = size \/ Cardinality(S) <= offset + Len(page)
             /\ offset + Len(page) <= Cardinality(S) \/ Len(page) = 0
             /\ \A k \in 1 .. Len(page) : PlaceIn(S, order, page[k]) = offset + k - 1
             /\ Range(page) = {x \in S : /\ offset <= PlaceIn(S, order, x)
                                        /\ PlaceIn(S, order, x) < offset + size}
<1> DEFINE ordered == InOrder(S, order)
           end == IF offset + size < Len(ordered) THEN offset + size ELSE Len(ordered)
           page == PageOf(ordered, offset, size)
<1>1. /\ ordered \in Seq(S) /\ Len(ordered) = Cardinality(S) /\ Cardinality(S) \in Nat
      /\ \A k \in 1 .. Cardinality(S) : PlaceIn(S, order, ordered[k]) = k - 1
  BY ListedInOrder
<1>2. page = SubSeq(ordered, offset + 1, end)
  BY DEF PageOf
<1> HIDE DEF ordered, page
<1>3. /\ end \in Nat /\ end <= Cardinality(S) /\ end <= offset + size
      /\ end = offset + size \/ end = Cardinality(S)
  BY <1>1
<1> HIDE DEF end
<1>4. \A i \in 1 .. Cardinality(S) : ordered[i] \in S
  BY <1>1, ElementOfSeq
<1>5. /\ page \in Seq(S)
      /\ Len(page) = IF offset + 1 <= end THEN end - (offset + 1) + 1 ELSE 0
      /\ \A i \in 1 .. end - (offset + 1) + 1 : page[i] = ordered[offset + 1 + i - 1]
  <2>1. ASSUME NEW i \in offset + 1 .. end PROVE ordered[i] \in S
    <3>1. i \in 1 .. Cardinality(S)
      BY <1>1, <1>3
    <3> QED
      BY <1>4, <3>1
  <2>2. offset + 1 \in Int /\ end \in Int
    BY <1>3
  <2> QED
    BY <1>1, <1>2, <2>1, <2>2, SubSeqProperties
<1>6. Len(page) \in Nat /\ (Len(page) = 0 \/ Len(page) = end - offset)
  BY <1>3, <1>5
<1>7. ASSUME NEW k \in 1 .. Len(page)
      PROVE  page[k] \in S /\ PlaceIn(S, order, page[k]) = offset + k - 1
  <2>1. k \in 1 .. end - (offset + 1) + 1 /\ offset + k \in 1 .. Cardinality(S)
        /\ offset + 1 + k - 1 = offset + k
    BY <1>1, <1>3, <1>6
  <2>2. page[k] = ordered[offset + k]
    BY <1>5, <2>1
  <2> QED
    BY <1>1, <1>4, <2>1, <2>2
<1>8. Range(page) = {page[k] : k \in 1 .. Len(page)}
  BY <1>5, RangeEquality
<1>9. ASSUME NEW x \in S, offset <= PlaceIn(S, order, x), PlaceIn(S, order, x) < offset + size
      PROVE  x \in Range(page)
  <2> DEFINE n == PlaceIn(S, order, x)
  <2>1. n \in 0 .. Cardinality(S) - 1
    BY PlacesAreFilled
  <2>2. n < end /\ Len(page) = end - offset
    BY <1>1, <1>3, <1>5, <1>9, <2>1
  <2>3. n - offset + 1 \in 1 .. Len(page)
    BY <1>3, <1>9, <2>1, <2>2
  <2>4. /\ page[n - offset + 1] \in S
        /\ PlaceIn(S, order, page[n - offset + 1]) = offset + (n - offset + 1) - 1
    BY <1>7, <2>3
  <2>5. offset + (n - offset + 1) - 1 = n
    BY <2>1
  <2> DEFINE y == page[n - offset + 1]
  <2>6. y \in S /\ PlaceIn(S, order, y) = PlaceIn(S, order, x)
    BY <2>4, <2>5
  <2> HIDE DEF y
  <2>7. y = x
    BY <2>6, PlacesTellOrder
  <2> QED
    BY <1>8, <2>3, <2>7 DEF y
<1>10. ASSUME NEW x \in Range(page)
       PROVE  x \in S /\ offset <= PlaceIn(S, order, x) /\ PlaceIn(S, order, x) < offset + size
  <2>1. PICK k \in 1 .. Len(page) : x = page[k]
    BY <1>8
  <2>2. x \in S /\ PlaceIn(S, order, x) = offset + k - 1
    BY <1>7, <2>1
  <2> QED
    BY <1>3, <1>6, <2>2
<1>11. /\ Len(page) <= size
       /\ Len(page) = size \/ Cardinality(S) <= offset + Len(page)
       /\ offset + Len(page) <= Cardinality(S) \/ Len(page) = 0
  BY <1>1, <1>3, <1>5, <1>6
<1>12. Range(page) = {x \in S : /\ offset <= PlaceIn(S, order, x)
                                /\ PlaceIn(S, order, x) < offset + size}
  BY <1>9, <1>10
<1> QED
  BY <1>5, <1>7, <1>11, <1>12 DEF ordered, page

\* Who is before the members that a list began with has a place behind them.
LEMMA BehindTheBeginning ==
  ASSUME NEW X, NEW order, LinearOrder(order, X), NEW L \in SUBSET X, NEW F \in SUBSET X,
         IsFiniteSet(L), IsFiniteSet(F), NEW n \in Nat,
         {x \in L : PlaceIn(L, order, x) < n} \subseteq F,
         NEW y \in L, PlaceIn(L, order, y) >= n,
         NEW z \in X, y = z \/ <<y, z>> \in order
  PROVE  PlaceIn(F, order, z) >= n
<1> DEFINE T == {x \in L : PlaceIn(L, order, x) < n}
<1>1. \A x \in L : PlaceIn(L, order, x) \in 0 .. Cardinality(L) - 1
  BY PlacesAreFilled
<1>2. n \in 0 .. Cardinality(L) - 1
  BY <1>1, FS_CardinalityType
<1>3. PICK w \in L : PlaceIn(L, order, w) = n
  BY <1>2, PlacesAreFilled
<1>4. T = {x \in L : <<x, w>> \in order}
  BY <1>3, PlacesTellOrder
<1>5. Cardinality(T) = n
  BY <1>3, <1>4 DEF PlaceIn
<1>6. ASSUME NEW x \in T PROVE x \in F /\ <<x, z>> \in order
  <2>1. x \in L /\ x \in F /\ PlaceIn(L, order, x) < n
    OBVIOUS
  <2>2. PlaceIn(L, order, x) < PlaceIn(L, order, y)
    BY <1>1, <2>1
  <2>3. <<x, y>> \in order
    BY <2>1, <2>2, PlacesTellOrder
  <2> QED
    BY <2>1, <2>3 DEF LinearOrder
<1>7. T \subseteq {x \in F : <<x, z>> \in order}
  BY <1>6
<1>8. IsFiniteSet({x \in F : <<x, z>> \in order})
  BY PlaceBounds
<1>9. Cardinality(T) <= PlaceIn(F, order, z)
  <2> HIDE DEF T
  <2> QED
    BY <1>7, <1>8, FS_Subset DEF PlaceIn
<1> QED
  BY <1>5, <1>9

\* Two sets in the same order have the same places.
LEMMA SamePlaces ==
  ASSUME NEW S, IsFiniteSet(S), NEW T, NEW f, f \in Bijection(S, T), NEW order, NEW other,
         NEW x \in S, \A y \in S : <<y, x>> \in order <=> <<f[y], f[x]>> \in other
  PROVE  PlaceIn(T, other, f[x]) = PlaceIn(S, order, x)
<1> DEFINE A == {y \in S : <<y, x>> \in order}
           B == {z \in T : <<z, f[x]>> \in other}
           g == [y \in A |-> f[y]]
<1>1. /\ f \in [S -> T] /\ \A y, z \in S : f[y] = f[z] => y = z
      /\ \A z \in T : \E y \in S : f[y] = z
  BY DEF Bijection, Injection, Surjection, IsInjective
<1>2. g \in [A -> B] /\ \A y, z \in A : g[y] = g[z] => y = z
  BY <1>1
<1>3. \A z \in B : \E y \in A : g[y] = z
  BY <1>1
<1>4. IsFiniteSet(A)
  BY PlaceBounds
<1>5. Cardinality(A) = Cardinality(B)
  <2> HIDE DEF A, B, g
  <2>1. g \in Bijection(A, B)
    BY <1>2, <1>3, Fun_IsBij, Fun_IsInj, Fun_IsSurj
  <2>2. ExistsBijection(A, B)
    BY <2>1 DEF ExistsBijection
  <2> QED
    BY <1>4, <2>2, FS_Bijection
<1> QED
  BY <1>5 DEF PlaceIn

-----------------------------------------------------------------------------
LEMMA ExposureNumbers ==
  /\ Ids = 1 .. Len(DayObs) /\ Len(DayObs) \in Nat /\ IsFiniteSet(Ids)
  /\ Cardinality(Ids) = Len(DayObs)
  /\ \A i \in Ids : DayObs[i] \in Nat /\ DayObs[i] % 100 # 0
<1>1. /\ DayObs \in Seq(Nat) /\ \A i \in DOMAIN DayObs : DayObs[i] % 100 # 0
  BY QueriesAssumption
<1>2. DOMAIN DayObs = 1 .. Len(DayObs) /\ Len(DayObs) \in Nat
  BY <1>1, LenProperties
<1>3. \A i \in 1 .. Len(DayObs) : DayObs[i] \in Nat
  BY <1>1, ElementOfSeq
<1>4. IsFiniteSet(1 .. Len(DayObs)) /\ Cardinality(1 .. Len(DayObs)) = Len(DayObs)
  <2>1. 1 \in Int /\ Len(DayObs) \in Int
    BY <1>2
  <2>2. /\ IsFiniteSet(1 .. Len(DayObs))
        /\ Cardinality(1 .. Len(DayObs)) = IF 1 > Len(DayObs) THEN 0 ELSE Len(DayObs) - 1 + 1
    BY <2>1, FS_Interval
  <2> QED
    BY <1>2, <2>2
<1> QED
  BY <1>1, <1>2, <1>3, <1>4 DEF Ids

LEMMA RunNumbers ==
  /\ IsFiniteSet(RunCollections) /\ AllCollections \notin RunCollections
  /\ \A r \in RunCollections :
       RunNumber(r) \in DOMAIN SortedRuns /\ RunNumber(r) \in Nat /\ SortedRuns[RunNumber(r)] = r
  /\ \A k \in DOMAIN SortedRuns : SortedRuns[k] \in RunCollections
  /\ DOMAIN SortedRuns \subseteq Nat /\ IsFiniteSet(DOMAIN SortedRuns)
  /\ Range(Scopes) \subseteq RunCollections
<1>1. /\ SortedRuns \in Seq(RunCollections) /\ Scopes \in Seq(RunCollections)
      /\ AllCollections \notin RunCollections
  BY QueriesAssumption DEF RunCollections
<1>2. DOMAIN SortedRuns = 1 .. Len(SortedRuns) /\ Len(SortedRuns) \in Nat
  BY <1>1, LenProperties
<1>3. RunCollections = {SortedRuns[k] : k \in 1 .. Len(SortedRuns)}
  BY <1>1, RangeEquality DEF RunCollections
<1>4. \A k \in 1 .. Len(SortedRuns) : SortedRuns[k] \in RunCollections
  BY <1>1, ElementOfSeq
<1>5. IsFiniteSet(RunCollections)
  <2> DEFINE f == [k \in 1 .. Len(SortedRuns) |-> SortedRuns[k]]
  <2>1. f \in Surjection(1 .. Len(SortedRuns), RunCollections)
    <3>1. f \in [1 .. Len(SortedRuns) -> RunCollections]
      BY <1>3
    <3>2. \A r \in RunCollections : \E k \in 1 .. Len(SortedRuns) : f[k] = r
      BY <1>3
    <3> HIDE DEF f
    <3> QED
      BY <3>1, <3>2, Fun_IsSurj
  <2>2. IsFiniteSet(1 .. Len(SortedRuns))
    BY <1>2, FS_Interval
  <2> HIDE DEF f
  <2> QED
    BY <2>1, <2>2, FS_Surjection
<1>6. ASSUME NEW r \in RunCollections
      PROVE  RunNumber(r) \in 1 .. Len(SortedRuns) /\ SortedRuns[RunNumber(r)] = r
  <2>1. \E k \in DOMAIN SortedRuns : SortedRuns[k] = r
    BY <1>2, <1>3
  <2> QED
    BY <1>2, <2>1 DEF RunNumber
<1>7. Range(Scopes) = {Scopes[k] : k \in 1 .. Len(Scopes)}
  BY <1>1, RangeEquality
<1>8. \A k \in 1 .. Len(Scopes) : Scopes[k] \in RunCollections
  BY <1>1, ElementOfSeq
<1>9. Range(Scopes) \subseteq RunCollections
  BY <1>7, <1>8
<1>10. DOMAIN SortedRuns \subseteq Nat /\ IsFiniteSet(DOMAIN SortedRuns)
  BY <1>2, FS_Interval
<1>11. \A r \in RunCollections :
         RunNumber(r) \in DOMAIN SortedRuns /\ RunNumber(r) \in Nat /\ SortedRuns[RunNumber(r)] = r
  BY <1>2, <1>6
<1>12. \A k \in DOMAIN SortedRuns : SortedRuns[k] \in RunCollections
  BY <1>2, <1>4
<1> QED
  BY <1>1, <1>5, <1>9, <1>10, <1>11, <1>12

LEMMA EntriesAreFinite == IsFiniteSet(Entries)
<1> DEFINE S == RunCollections \X Ids
           f == [p \in S |-> [run |-> p[1], id |-> p[2]]]
<1>1. IsFiniteSet(S)
  BY RunNumbers, ExposureNumbers, FS_Product
<1>2. f \in [S -> Entries]
  BY DEF Entries
<1>3. \A e \in Entries : \E p \in S : f[p] = e
  <2> TAKE e \in Entries
  <2>1. <<e.run, e.id>> \in S /\ e = [run |-> e.run, id |-> e.id]
    BY DEF Entries
  <2>2. f[<<e.run, e.id>>] = e
    BY <2>1
  <2> QED
    BY <2>1, <2>2
<1>4. f \in Surjection(S, Entries)
  <2> HIDE DEF f, S
  <2> QED
    BY <1>2, <1>3, Fun_IsSurj
<1> QED
  <2> HIDE DEF f, S
  <2> QED
    BY <1>1, <1>4, FS_Surjection

LEMMA FieldIsNumber ==
  ASSUME NEW q, NEW i \in Ids
  PROVE  Field(i, q.order) \in Nat /\ (Unique(q) => Field(i, q.order) = i)
BY ExposureNumbers DEF Field, Unique

\* The orders of the registry and of a merged list.
LEMMA IdsAreOrdered ==
  ASSUME NEW q, q.reverse \in BOOLEAN, NEW tie \in BOOLEAN
  PROVE  LinearOrder(IdOrder(q, tie), Ids)
<1> DEFINE v(i) == Field(i, q.order)
           Sooner(i, j) == \/ Precedes(v(i), v(j), Descending(q))
                           \/ v(i) = v(j) /\ Precedes(i, j, tie)
<1>1. \A i, j \in Ids : <<i, j>> \in IdOrder(q, tie) <=> Sooner(i, j)
  BY DEF IdOrder
<1>2. \A i \in Ids : v(i) \in Nat /\ i \in Nat
  BY FieldIsNumber, ExposureNumbers
<1> HIDE DEF v
<1>3. \A i \in Ids : ~Sooner(i, i)
  BY <1>2 DEF Precedes
<1>4. \A i, j, k \in Ids : Sooner(i, j) /\ Sooner(j, k) => Sooner(i, k)
  BY <1>2 DEF Precedes
<1>5. \A i, j \in Ids : i = j \/ Sooner(i, j) \/ Sooner(j, i)
  BY <1>2 DEF Precedes
<1> HIDE DEF Sooner
<1> QED
  BY <1>1, <1>3, <1>4, <1>5 DEF LinearOrder

LEMMA EntriesAreOrdered ==
  ASSUME NEW q \in Queries
  PROVE  LinearOrder(EntryOrder(q), Entries)
<1> DEFINE v(e) == Field(e.id, q.order)
           n(e) == RunNumber(e.run)
           Sooner(e, f) == \/ Precedes(v(e), v(f), Descending(q))
                           \/ v(e) = v(f) /\ Precedes(n(e), n(f), Descending(q))
                           \/ v(e) = v(f) /\ n(e) = n(f) /\ Precedes(e.id, f.id, Descending(q))
<1>1. \A e, f \in Entries : <<e, f>> \in EntryOrder(q) <=> Sooner(e, f)
  BY DEF EntryOrder
<1>2. \A e \in Entries : v(e) \in Nat /\ n(e) \in Nat /\ e.id \in Nat
  BY FieldIsNumber, ExposureNumbers, RunNumbers DEF Entries
<1>3. ASSUME NEW e \in Entries, NEW f \in Entries, n(e) = n(f), e.id = f.id
      PROVE  e = f
  <2>1. e = [run |-> e.run, id |-> e.id] /\ f = [run |-> f.run, id |-> f.id]
    BY DEF Entries
  <2>2. e.run = f.run
    BY <1>3, RunNumbers DEF Entries
  <2> QED
    BY <1>3, <2>1, <2>2
<1> HIDE DEF v, n
<1>4. \A e \in Entries : ~Sooner(e, e)
  BY <1>2 DEF Precedes
<1>5. \A e, f, g \in Entries : Sooner(e, f) /\ Sooner(f, g) => Sooner(e, g)
  BY <1>2 DEF Precedes
<1>6. \A e, f \in Entries : e = f \/ Sooner(e, f) \/ Sooner(f, e)
  BY <1>2, <1>3 DEF Precedes
<1> HIDE DEF Sooner
<1> QED
  BY <1>1, <1>4, <1>5, <1>6 DEF LinearOrder

-----------------------------------------------------------------------------
LEMMA OneIsFirst ==
  ASSUME NEW X, NEW order, LinearOrder(order, X), NEW S \in SUBSET X, IsFiniteSet(S), S # {}
  PROVE  \E x \in S : \A y \in S : <<y, x>> \notin order
<1>1. 0 \in 0 .. Cardinality(S) - 1
  BY FS_EmptySet, FS_CardinalityType
<1>2. PICK x \in S : PlaceIn(S, order, x) = 0
  BY <1>1, PlacesAreFilled
<1> DEFINE L == {y \in S : <<y, x>> \in order}
<1>3. IsFiniteSet(L) /\ Cardinality(L) = 0
  BY <1>2, PlaceBounds DEF PlaceIn
<1>4. L = {}
  BY <1>3, FS_EmptySet
<1> QED
  BY <1>4

LEMMA Extremes ==
  ASSUME NEW S \in SUBSET Nat, IsFiniteSet(S), S # {}
  PROVE  /\ \E m \in S : \A n \in S : n <= m
         /\ \E m \in S : \A n \in S : m <= n
<1> DEFINE up == {p \in Nat \X Nat : p[1] < p[2]}
           down == {p \in Nat \X Nat : p[1] > p[2]}
<1>1. /\ \A m, n \in Nat : <<m, n>> \in up <=> m < n
      /\ \A m, n \in Nat : <<m, n>> \in down <=> m > n
  OBVIOUS
<1> HIDE DEF up, down
<1>2. LinearOrder(up, Nat) /\ LinearOrder(down, Nat)
  BY <1>1 DEF LinearOrder
<1>3. PICK x \in S : \A y \in S : <<y, x>> \notin up
  BY <1>2, OneIsFirst
<1>4. PICK z \in S : \A y \in S : <<y, z>> \notin down
  BY <1>2, OneIsFirst
<1>5. \A n \in S : x <= n
  <2> TAKE n \in S
  <2>1. n \in Nat /\ x \in Nat
    OBVIOUS
  <2>2. <<n, x>> \notin up
    BY <1>3
  <2> QED
    BY <1>1, <2>1, <2>2
<1>6. \A n \in S : n <= z
  <2> TAKE n \in S
  <2>1. n \in Nat /\ z \in Nat
    OBVIOUS
  <2>2. <<n, z>> \notin down
    BY <1>4
  <2> QED
    BY <1>1, <2>1, <2>2
<1> QED
  BY <1>5, <1>6

LEMMA LatestDayOf ==
  ASSUME NEW S \in SUBSET Ids, S # {}
  PROVE  /\ \E i \in S : LatestDay(S) = DayObs[i]
         /\ \A i \in S : DayObs[i] <= LatestDay(S) /\ LatestDay(S) \in Nat
<1> DEFINE days == {DayObs[i] : i \in S}
<1>1. days \in SUBSET Nat /\ days # {}
  BY ExposureNumbers
<1>2. IsFiniteSet(days)
  <2> DEFINE f == [i \in S |-> DayObs[i]]
  <2>1. f \in Surjection(S, days)
    <3>1. f \in [S -> days] /\ \A d \in days : \E i \in S : f[i] = d
      OBVIOUS
    <3> HIDE DEF f, days
    <3> QED
      BY <3>1, Fun_IsSurj
  <2>2. IsFiniteSet(S)
    BY ExposureNumbers, FS_Subset
  <2> HIDE DEF f, days
  <2> QED
    BY <2>1, <2>2, FS_Surjection
<1>3. \E m \in days : \A n \in days : n <= m
  <2> HIDE DEF days
  <2> QED
    BY <1>1, <1>2, Extremes
<1>4. \E d \in days : \A i \in S : DayObs[i] <= d
  BY <1>3
<1>5. LatestDay(S) = CHOOSE d \in days : \A i \in S : DayObs[i] <= d
  BY DEF LatestDay
<1>6. LatestDay(S) \in days /\ \A i \in S : DayObs[i] <= LatestDay(S)
  <2> HIDE DEF days
  <2> QED
    BY <1>4, <1>5
<1> QED
  BY <1>1, <1>6

-----------------------------------------------------------------------------
HeldOK == held \in [RunCollections -> SUBSET Ids]
Collections == RunCollections \union {AllCollections}

LEMMA FindsAreExposures ==
  ASSUME HeldOK, NEW q, NEW c \in Collections
  PROVE  /\ CollectionsOf(c, q.type) \subseteq RunCollections
         /\ Held(CollectionsOf(c, q.type)) \subseteq Ids
         /\ ScopeFinds(q, c) \subseteq Ids /\ IsFiniteSet(ScopeFinds(q, c))
         /\ \A i \in ScopeFinds(q, c) : \E r \in CollectionsOf(c, q.type) : i \in held[r]
<1>1. CollectionsOf(c, q.type) \subseteq RunCollections
  BY DEF CollectionsOf, Collections
<1>2. \A i \in Held(CollectionsOf(c, q.type)) : \E r \in CollectionsOf(c, q.type) : i \in held[r]
  BY DEF Held
<1>3. Held(CollectionsOf(c, q.type)) \subseteq Ids
  BY <1>1, <1>2 DEF HeldOK
<1>4. \A i \in SqlFinds(q, c) : \E r \in CollectionsOf(c, q.type) : i \in held[r]
  BY DEF SqlFinds
<1>5. \A i \in ButlerFinds(q, c) : i \in Held(CollectionsOf(c, q.type))
  BY DEF ButlerFinds
<1>6. \A i \in ScopeFinds(q, c) : \E r \in CollectionsOf(c, q.type) : i \in held[r]
  BY <1>2, <1>4, <1>5 DEF ScopeFinds
<1>7. ScopeFinds(q, c) \subseteq Ids
  BY <1>1, <1>6 DEF HeldOK
<1>8. IsFiniteSet(ScopeFinds(q, c))
  BY <1>7, ExposureNumbers, FS_Subset
<1> QED
  BY <1>1, <1>3, <1>6, <1>7, <1>8

LEMMA EntriesOf ==
  ASSUME HeldOK, NEW q, NEW c \in Collections, NEW i \in ScopeFinds(q, c), NEW tie \in BOOLEAN
  PROVE  /\ EntryOf(q, c, i, tie) \in Entries /\ EntryOf(q, c, i, tie).id = i
         /\ Ellipsis(c, q.type) \/ EntryOf(q, c, i, tie) = [run |-> c, id |-> i]
<1>1. i \in Ids /\ \E r \in RunCollections : i \in held[r]
  BY FindsAreExposures
<1> DEFINE runs == {k \in DOMAIN SortedRuns : i \in held[SortedRuns[k]]}
           first == CHOOSE k \in runs : \A m \in runs : IF tie THEN m <= k ELSE k <= m
<1>2. CASE ~Ellipsis(c, q.type)
  <2>1. EntryOf(q, c, i, tie) = [run |-> c, id |-> i]
    BY <1>2 DEF EntryOf
  <2>2. c \in RunCollections
    BY <1>2 DEF Ellipsis, Collections
  <2> QED
    BY <1>1, <2>1, <2>2 DEF Entries
<1>3. CASE Ellipsis(c, q.type)
  <2>1. EntryOf(q, c, i, tie) = [run |-> SortedRuns[first], id |-> i]
    BY <1>3 DEF EntryOf
  <2>2. runs \in SUBSET Nat /\ IsFiniteSet(runs) /\ runs # {}
    <3>1. DOMAIN SortedRuns \subseteq Nat /\ IsFiniteSet(DOMAIN SortedRuns)
      BY RunNumbers
    <3>2. IsFiniteSet(runs)
      BY <3>1, FS_Subset
    <3>3. \E k \in DOMAIN SortedRuns : i \in held[SortedRuns[k]]
      BY <1>1, RunNumbers
    <3> QED
      BY <3>1, <3>2, <3>3
  <2>3. \E k \in runs : \A m \in runs : IF tie THEN m <= k ELSE k <= m
    <3> HIDE DEF runs
    <3> QED
      BY <2>2, Extremes
  <2>4. first \in runs
    <3> HIDE DEF runs
    <3> QED
      BY <2>3
  <2>5. SortedRuns[first] \in RunCollections
    <3> HIDE DEF first
    <3> QED
      BY <2>4, RunNumbers
  <2> HIDE DEF first
  <2> QED
    BY <1>1, <1>3, <2>1, <2>5 DEF Entries
<1> QED
  BY <1>2, <1>3

\* The entries of a list of one run.
Tag(c, S) == {[run |-> c, id |-> i] : i \in S}
ListOf(q, c) == Tag(c, ScopeFinds(q, c))

\* A page of one scope has the entries of the records whose places it covers.
PageOfScope(page, q, c, offset, size, tie) ==
    LET S == ScopeFinds(q, c)
    IN  /\ page \in Seq(Entries) /\ Len(page) <= size
        /\ Len(page) = size \/ Cardinality(S) <= offset + Len(page)
        /\ offset + Len(page) <= Cardinality(S) \/ Len(page) = 0
        /\ Range(page) = {EntryOf(q, c, i, tie) :
                            i \in {j \in S : /\ offset <= PlaceIn(S, IdOrder(q, tie), j)
                                             /\ PlaceIn(S, IdOrder(q, tie), j) < offset + size}}

LEMMA VisitsOfScope ==
  ASSUME HeldOK, NEW q, q.reverse \in BOOLEAN, NEW c \in Collections, NEW offset \in Nat,
         NEW size \in Nat, NEW tie \in BOOLEAN
  PROVE  PageOfScope(ScopeVisits(q, c, offset, size, tie), q, c, offset, size, tie)
<1> DEFINE S == ScopeFinds(q, c)
           order == IdOrder(q, tie)
           records == PageOf(InOrder(S, order), offset, size)
           page == ScopeVisits(q, c, offset, size, tie)
           R == {j \in S : offset <= PlaceIn(S, order, j) /\ PlaceIn(S, order, j) < offset + size}
<1>1. S \in SUBSET Ids /\ IsFiniteSet(S) /\ LinearOrder(order, Ids)
  BY FindsAreExposures, IdsAreOrdered
<1>2. /\ records \in Seq(S) /\ Len(records) <= size
      /\ Len(records) = size \/ Cardinality(S) <= offset + Len(records)
      /\ offset + Len(records) <= Cardinality(S) \/ Len(records) = 0
      /\ Range(records) = R
  <2> HIDE DEF S, order
  <2> QED
    BY <1>1, PageOfList
<1>3. page = [k \in DOMAIN records |-> EntryOf(q, c, records[k], tie)]
  BY DEF ScopeVisits
<1>4. \A i \in S : EntryOf(q, c, i, tie) \in Entries
  BY EntriesOf
<1> HIDE DEF S, order, records, page
<1>5. DOMAIN records = 1 .. Len(records) /\ Len(records) \in Nat
  BY <1>2, LenProperties
<1>6. \A k \in 1 .. Len(records) : records[k] \in S
  BY <1>2, ElementOfSeq
<1>7. page \in [1 .. Len(records) -> Entries]
  BY <1>3, <1>4, <1>5, <1>6
<1>8. page \in Seq(Entries) /\ Len(page) = Len(records)
  <2>1. page \in Seq(Entries)
    BY <1>5, <1>7, IsASeq
  <2>2. DOMAIN page = 1 .. Len(page) /\ Len(page) \in Nat
    BY <2>1, LenProperties
  <2> QED
    BY <1>5, <1>7, <2>1, <2>2
<1>9. Range(page) = {page[k] : k \in 1 .. Len(records)}
  BY <1>8, RangeEquality
<1>10. Range(records) = {records[k] : k \in 1 .. Len(records)}
  BY <1>2, RangeEquality
<1>11. Range(page) = {EntryOf(q, c, i, tie) : i \in R}
  <2>1. \A k \in 1 .. Len(records) : page[k] = EntryOf(q, c, records[k], tie)
    BY <1>3, <1>5
  <2> QED
    BY <1>2, <1>9, <1>10, <2>1
<1> QED
  BY <1>2, <1>8, <1>11 DEF S, order, page, PageOfScope

LEMMA TagsAreEntries ==
  /\ \A T \in SUBSET Entries : IsFiniteSet(T)
  /\ \A c \in RunCollections, S \in SUBSET Ids : Tag(c, S) \subseteq Entries
  /\ \A c, S : \A e \in Tag(c, S) : e.run = c /\ e.id \in S
<1>1. \A T \in SUBSET Entries : IsFiniteSet(T)
  BY EntriesAreFinite, FS_Subset
<1>2. \A c \in RunCollections, S \in SUBSET Ids : Tag(c, S) \subseteq Entries
  BY DEF Tag, Entries
<1>3. \A c, S : \A e \in Tag(c, S) : e.run = c /\ e.id \in S
  BY DEF Tag
<1> QED
  BY <1>1, <1>2, <1>3

\* What a scope is asked for is where its list begins in the order of the merged list.
LEMMA BeginningIs ==
  ASSUME HeldOK, NEW q \in Queries, Unique(q), q.type = "raw", NEW c \in RunCollections,
         NEW offset \in Nat, NEW size \in Nat, NEW tie \in BOOLEAN
  PROVE  BeginningOf(q, c, offset, size, tie)
           = {e \in ListOf(q, c) : PlaceIn(ListOf(q, c), EntryOrder(q), e) < offset + size}
<1> DEFINE S == ScopeFinds(q, c)
           L == ListOf(q, c)
           order == IdOrder(q, tie)
           f == [i \in S |-> [run |-> c, id |-> i]]
           n == offset + size
           F == {j \in S : /\ 0 <= PlaceIn(S, IdOrder(q, tie), j)
                           /\ PlaceIn(S, IdOrder(q, tie), j) < 0 + n}
<1>1. c \in Collections /\ ~Ellipsis(c, q.type) /\ q.reverse \in BOOLEAN /\ n \in Nat
  BY RunNumbers DEF Collections, Ellipsis, Queries
<1>2. S \in SUBSET Ids /\ IsFiniteSet(S)
  BY <1>1, FindsAreExposures
<1>3. BeginningOf(q, c, offset, size, tie) = {EntryOf(q, c, i, tie) : i \in F}
  <2>1. Range(ScopeVisits(q, c, 0, n, tie)) = {EntryOf(q, c, i, tie) : i \in F}
    <3> HIDE DEF n
    <3> QED
      BY <1>1, VisitsOfScope DEF PageOfScope
  <2> QED
    BY <2>1 DEF BeginningOf, PerScopeLimit
<1>4. \A i \in S : EntryOf(q, c, i, tie) = f[i]
  BY <1>1, EntriesOf
<1>5. L = {f[i] : i \in S} /\ \A i \in S : f[i] = [run |-> c, id |-> i]
  BY DEF ListOf, Tag
<1>6. f \in Bijection(S, L)
  <2>1. f \in [S -> L] /\ \A e \in L : \E i \in S : f[i] = e
    BY DEF ListOf, Tag
  <2>2. \A i, j \in S : f[i] = f[j] => i = j
    <3> TAKE i, j \in S
    <3> HAVE f[i] = f[j]
    <3>1. f[i].id = i /\ f[j].id = j
      OBVIOUS
    <3> QED
      BY <3>1
  <2> HIDE DEF f, L, S
  <2> QED
    BY <2>1, <2>2, Fun_IsBij, Fun_IsInj, Fun_IsSurj
<1>7. ASSUME NEW i \in S, NEW j \in S
      PROVE  <<j, i>> \in order <=> <<f[j], f[i]>> \in EntryOrder(q)
  <2>1. i \in Ids /\ j \in Ids /\ Field(i, q.order) = i /\ Field(j, q.order) = j
        /\ i \in Nat /\ j \in Nat
    BY <1>2, FieldIsNumber, ExposureNumbers
  <2>2. <<j, i>> \in order <=> Precedes(j, i, Descending(q))
    BY <2>1 DEF IdOrder, Precedes
  <2>3. f[i] = [run |-> c, id |-> i] /\ f[j] = [run |-> c, id |-> j]
        /\ f[i] \in Entries /\ f[j] \in Entries
    BY <2>1 DEF Entries
  <2>4. <<f[j], f[i]>> \in EntryOrder(q) <=> Precedes(j, i, Descending(q))
    <3> HIDE DEF f
    <3> QED
      BY <2>1, <2>3, RunNumbers DEF EntryOrder, Precedes
  <2> QED
    BY <2>2, <2>4
<1>8. ASSUME NEW i \in S
      PROVE  PlaceIn(L, EntryOrder(q), f[i]) = PlaceIn(S, order, i)
  <2>1. \A j \in S : <<j, i>> \in order <=> <<f[j], f[i]>> \in EntryOrder(q)
    BY <1>7
  <2> DEFINE other == EntryOrder(q)
  <2>2. IsFiniteSet(S) /\ f \in Bijection(S, L) /\ i \in S
    BY <1>2, <1>6
  <2>3. \A y \in S : <<y, i>> \in order <=> <<f[y], f[i]>> \in other
    BY <2>1
  <2> HIDE DEF f, L, S, order, other
  <2>4. PlaceIn(L, other, f[i]) = PlaceIn(S, order, i)
    BY <2>2, <2>3, SamePlaces
  <2> QED
    BY <2>4 DEF other
<1>9. \A i \in S : PlaceIn(S, order, i) \in Nat
  <2> HIDE DEF S, order
  <2> QED
    BY <1>2, PlaceBounds
<1>10. \A i \in S : i \in F <=> PlaceIn(S, order, i) < n
  <2> HIDE DEF S, n
  <2> QED
    BY <1>1, <1>9
<1>11. {EntryOf(q, c, i, tie) : i \in F} = {f[i] : i \in {j \in S : PlaceIn(S, order, j) < n}}
  <2>1. F = {j \in S : PlaceIn(S, order, j) < n}
    <3> HIDE DEF S, n, order
    <3> QED
      BY <1>10
  <2> HIDE DEF S, F, n, order, f
  <2> QED
    BY <1>4, <2>1
<1>12. {f[i] : i \in {j \in S : PlaceIn(S, order, j) < n}}
         = {e \in L : PlaceIn(L, EntryOrder(q), e) < n}
  <2> HIDE DEF S, F, n, order, f, L
  <2> QED
    BY <1>5, <1>8
<1> QED
  BY <1>3, <1>11, <1>12

-----------------------------------------------------------------------------
(* The pager.  S is what each collection's list has, H what it holds. *)

AnyRun(q) == ~Across(q) /\ Ellipsis(q.collection, q.type)
Covered(q) == Unique(q) /\ (q.type = "raw" \/ ~Across(q))
Shown(p, e) == \E f \in p.seen : f.id = e.id /\ (f.run = e.run \/ AnyRun(p.q))

AllIn(S) == UNION {Tag(c, S[c]) : c \in Range(Scopes)}
UnaskedIn(S, asked) == UNION {Tag(Scopes[k], S[Scopes[k]]) : k \in asked + 1 .. Len(Scopes)}

\* Who has not been seen comes behind the pages that were read; and what comes from a scope
\* that was asked for this page is in its answer or behind this page too.
StillToCome(p, S, e) ==
    /\ PlaceIn(p.found \union UnaskedIn(S, p.asked), EntryOrder(p.q), e) >= p.offset
    /\ \A k \in 1 .. p.asked :
           e.run = Scopes[k] => \/ e \in p.found
                                \/ PlaceIn(p.found, EntryOrder(p.q), e) >= p.offset + PageSize

AcrossKept(p, S) ==
    /\ p.found \subseteq AllIn(S)
    /\ \A e \in p.wanted : e \in AllIn(S) /\ (Shown(p, e) \/ StillToCome(p, S, e))

SingleKept(p, S) ==
    \A e \in p.wanted :
        /\ e.id \in S[p.q.collection] /\ (e.run = p.q.collection \/ AnyRun(p.q))
        /\ Shown(p, e) \/ PlaceIn(S[p.q.collection], IdOrder(p.q, SameTie), e.id) >= p.offset

ListKept(p, S) ==
    IF ~p.open THEN \A e \in p.wanted : Shown(p, e)
    ELSE IF Across(p.q) THEN AcrossKept(p, S)
    ELSE SingleKept(p, S)

TextsLast(p, H) ==
    \A c \in Range(Scopes) \union {p.q.collection} :
        IF ~p.q.latest THEN p.texts[c] = p.q.where
        ELSE \/ p.texts[c] = <<>>
             \/ \E i \in H[c] : p.texts[c] = <<Predicate("day_obs", "=", DayObs[i])>>

Fits(p) ==
    /\ p = [open |-> p.open, q |-> p.q, offset |-> p.offset, asked |-> p.asked,
            found |-> p.found, seen |-> p.seen, wanted |-> p.wanted, texts |-> p.texts]
    /\ p.open \in BOOLEAN /\ p.q \in Queries
    /\ p.offset \in Nat /\ p.offset <= Cardinality(Entries) /\ p.asked \in 0 .. Len(Scopes)
    /\ p.found \subseteq Entries /\ p.seen \subseteq Entries /\ p.wanted \subseteq Entries
    /\ p.texts = [c \in Range(Scopes) \union {p.q.collection} |-> p.texts[c]]

FindsOf(q) == [c \in Collections |-> ScopeFinds(q, c)]
HeldOf(q) == [c \in Collections |-> Held(CollectionsOf(c, q.type))]

PagerInv == pager # NoList => Fits(pager)
ListInv ==
    \A q \in Queries : (pager # NoList /\ pager.q = q) =>
        /\ TextsLast(pager, HeldOf(q))
        /\ Covered(q) /\ TextsOf(q) = pager.texts => ListKept(pager, FindsOf(q))
QIInv == HeldOK /\ queried \in 0 .. MaxLists /\ PagerInv /\ ListInv

-----------------------------------------------------------------------------
LEMMA ScopesAreRuns ==
  /\ Len(Scopes) \in Nat /\ \A k \in 1 .. Len(Scopes) : Scopes[k] \in RunCollections
  /\ Range(Scopes) = {Scopes[k] : k \in 1 .. Len(Scopes)}
  /\ PageSize \in Nat \ {0}
<1>1. Scopes \in Seq(RunCollections) /\ PageSize \in Nat \ {0}
  BY QueriesAssumption DEF RunCollections
<1>2. Len(Scopes) \in Nat /\ Range(Scopes) = {Scopes[k] : k \in 1 .. Len(Scopes)}
  BY <1>1, RangeEquality, LenProperties
<1>3. \A k \in 1 .. Len(Scopes) : Scopes[k] \in RunCollections
  BY <1>1, ElementOfSeq
<1> QED
  BY <1>1, <1>2, <1>3

LEMMA ListsFit ==
  ASSUME NEW S \in [Collections -> SUBSET Ids]
  PROVE  /\ AllIn(S) \subseteq Entries
         /\ \A n \in Nat : UnaskedIn(S, n) \subseteq Entries /\ UnaskedIn(S, n) \subseteq AllIn(S)
         /\ UnaskedIn(S, 0) = AllIn(S) /\ UnaskedIn(S, Len(Scopes)) = {}
         /\ \A n \in Nat : n < Len(Scopes) =>
              UnaskedIn(S, n) = Tag(Scopes[n + 1], S[Scopes[n + 1]]) \union UnaskedIn(S, n + 1)
         /\ \A e \in AllIn(S) : \E k \in 1 .. Len(Scopes) :
              e.run = Scopes[k] /\ e \in Tag(Scopes[k], S[Scopes[k]])
<1> DEFINE T(k) == Tag(Scopes[k], S[Scopes[k]])
           N == Len(Scopes)
<1>1. N \in Nat /\ \A k \in 1 .. N : Scopes[k] \in RunCollections /\ T(k) \subseteq Entries
  BY ScopesAreRuns, TagsAreEntries DEF Collections
<1>2. AllIn(S) = UNION {T(k) : k \in 1 .. N}
  BY ScopesAreRuns DEF AllIn
<1>3. \A n \in Nat : UnaskedIn(S, n) = UNION {T(k) : k \in n + 1 .. N}
  BY DEF UnaskedIn
<1>4. \A k \in 1 .. N : \A e \in T(k) : e.run = Scopes[k]
  BY TagsAreEntries
<1> HIDE DEF T, N
<1>5. \A e \in AllIn(S) : \E k \in 1 .. N : e.run = Scopes[k] /\ e \in T(k)
  BY <1>2, <1>4
<1>6. AllIn(S) \subseteq Entries
  BY <1>1, <1>2
<1>7. \A n \in Nat : UnaskedIn(S, n) \subseteq AllIn(S)
  BY <1>1, <1>2, <1>3
<1>8. UnaskedIn(S, 0) = AllIn(S) /\ UnaskedIn(S, N) = {}
  BY <1>1, <1>2, <1>3
<1>9. ASSUME NEW n \in Nat, n < N
      PROVE  UnaskedIn(S, n) = T(n + 1) \union UnaskedIn(S, n + 1)
  <2>1. n + 1 .. N = {n + 1} \union (n + 1 + 1 .. N)
    BY <1>1, <1>9
  <2>2. UnaskedIn(S, n) = UNION {T(k) : k \in n + 1 .. N}
        /\ UnaskedIn(S, n + 1) = UNION {T(k) : k \in n + 1 + 1 .. N}
    BY <1>3
  <2> QED
    BY <2>1, <2>2
<1> QED
  BY <1>5, <1>6, <1>7, <1>8, <1>9 DEF T, N

\* The lists grow.
LEMMA GrowthKeeps ==
  ASSUME NEW p, Fits(p), NEW S \in [Collections -> SUBSET Ids], NEW T \in [Collections -> SUBSET Ids]
  PROVE  /\ (\A c \in Range(Scopes) : S[c] \subseteq T[c]) /\ AcrossKept(p, S) => AcrossKept(p, T)
         /\ S[p.q.collection] \subseteq T[p.q.collection] /\ SingleKept(p, S) => SingleKept(p, T)
<1>1. ASSUME \A c \in Range(Scopes) : S[c] \subseteq T[c], AcrossKept(p, S)
      PROVE  AcrossKept(p, T)
  <2>1. \A c \in Range(Scopes) : Tag(c, S[c]) \subseteq Tag(c, T[c])
    BY <1>1 DEF Tag
  <2>2. AllIn(S) \subseteq AllIn(T)
    BY <2>1 DEF AllIn
  <2>3. p.asked \in Nat /\ \A k \in p.asked + 1 .. Len(Scopes) : Scopes[k] \in Range(Scopes)
    BY ScopesAreRuns DEF Fits
  <2>4. UnaskedIn(S, p.asked) \subseteq UnaskedIn(T, p.asked)
    BY <2>1, <2>3 DEF UnaskedIn
  <2>5. UnaskedIn(T, p.asked) \subseteq Entries /\ p.found \subseteq Entries
    BY <2>3, ListsFit DEF Fits
  <2> DEFINE F == p.found \union UnaskedIn(S, p.asked)
             G == p.found \union UnaskedIn(T, p.asked)
             order == EntryOrder(p.q)
  <2>6. F \subseteq G /\ IsFiniteSet(F) /\ IsFiniteSet(G) /\ p.offset \in Nat
    BY <2>4, <2>5, TagsAreEntries DEF Fits
  <2>7. ASSUME NEW e PROVE PlaceIn(F, order, e) >= p.offset => PlaceIn(G, order, e) >= p.offset
    <3> HIDE DEF F, G, order
    <3>1. PlaceIn(F, order, e) <= PlaceIn(G, order, e)
      BY <2>6, PlaceGrows
    <3>2. PlaceIn(F, order, e) \in Nat /\ PlaceIn(G, order, e) \in Nat
      BY <2>6, PlaceBounds
    <3> QED
      BY <2>6, <3>1, <3>2
  <2>8. \A e : StillToCome(p, S, e) => StillToCome(p, T, e)
    BY <2>7 DEF StillToCome
  <2> QED
    BY <1>1, <2>2, <2>8 DEF AcrossKept
<1>2. ASSUME S[p.q.collection] \subseteq T[p.q.collection], SingleKept(p, S)
      PROVE  SingleKept(p, T)
  <2> DEFINE F == S[p.q.collection]
             G == T[p.q.collection]
             order == IdOrder(p.q, SameTie)
  <2>1. p.q.collection \in Collections /\ p.offset \in Nat
    BY DEF Fits, Queries, Collections
  <2>2. F \subseteq G /\ IsFiniteSet(F) /\ IsFiniteSet(G)
    BY <1>2, <2>1, ExposureNumbers, FS_Subset
  <2>3. ASSUME NEW i PROVE PlaceIn(F, order, i) >= p.offset => PlaceIn(G, order, i) >= p.offset
    <3> HIDE DEF F, G, order
    <3>1. PlaceIn(F, order, i) <= PlaceIn(G, order, i)
      BY <2>2, PlaceGrows
    <3>2. PlaceIn(F, order, i) \in Nat /\ PlaceIn(G, order, i) \in Nat
      BY <2>2, PlaceBounds
    <3> QED
      BY <2>1, <3>1, <3>2
  <2> QED
    BY <1>2, <2>3 DEF SingleKept
<1> QED
  BY <1>1, <1>2

\* A scope answers with the beginning of its list.
Asked(p, B) == [p EXCEPT !.asked = @ + 1, !.found = @ \union B]

LEMMA AskingKeeps ==
  ASSUME NEW p, Fits(p), NEW S \in [Collections -> SUBSET Ids], AcrossKept(p, S),
         p.asked < Len(Scopes),
         NEW B, NEW L, L = Tag(Scopes[p.asked + 1], S[Scopes[p.asked + 1]]),
         B = {e \in L : PlaceIn(L, EntryOrder(p.q), e) < p.offset + PageSize}
  PROVE  AcrossKept(Asked(p, B), S)
<1> DEFINE np == Asked(p, B)
           order == EntryOrder(p.q)
           n == p.offset
           U == UnaskedIn(S, p.asked + 1)
           found == p.found \union B
<1>1. /\ np.asked = p.asked + 1 /\ np.found = found /\ np.wanted = p.wanted
      /\ np.q = p.q /\ np.offset = n /\ np.seen = p.seen
  BY DEF Fits, Asked
<1>2. /\ p.asked \in Nat /\ p.q \in Queries /\ n \in Nat /\ PageSize \in Nat \ {0}
      /\ p.found \subseteq Entries /\ p.wanted \subseteq Entries
  BY ScopesAreRuns DEF Fits
<1>3. p.asked + 1 \in 1 .. Len(Scopes) /\ Scopes[p.asked + 1] \in RunCollections
      /\ Scopes[p.asked + 1] \in Range(Scopes)
  BY <1>2, ScopesAreRuns
<1>4. /\ UnaskedIn(S, p.asked) = L \union U /\ U \subseteq Entries
      /\ L \subseteq AllIn(S) /\ L \subseteq Entries
  <2>1. UnaskedIn(S, p.asked) = L \union U
    BY <1>2, ListsFit
  <2>2. UnaskedIn(S, p.asked) \subseteq AllIn(S) /\ UnaskedIn(S, p.asked) \subseteq Entries
    BY <1>2, ListsFit
  <2> QED
    BY <2>1, <2>2
<1>5. LinearOrder(order, Entries)
  BY <1>2, EntriesAreOrdered
<1>6. B \subseteq L
  OBVIOUS
<1>7. IsFiniteSet(L) /\ IsFiniteSet(found \union U) /\ IsFiniteSet(found)
      /\ found \subseteq Entries /\ found \union U \subseteq Entries
  BY <1>2, <1>4, <1>6, TagsAreEntries
<1>8. found \subseteq AllIn(S)
  BY <1>4, <1>6 DEF AcrossKept
<1>9. \A y \in L : y \notin B => PlaceIn(L, order, y) >= n + PageSize
                                 /\ PlaceIn(L, order, y) >= n
  <2>1. \A y \in L : PlaceIn(L, order, y) \in Nat
    BY <1>7, PlaceBounds
  <2> HIDE DEF order
  <2> QED
    BY <1>2, <2>1 DEF order
<1>10. ASSUME NEW e \in p.wanted, PlaceIn(p.found \union UnaskedIn(S, p.asked), order, e) >= n
       PROVE  PlaceIn(found \union U, order, e) >= n
  <2>1. CASE \E y \in L : y \notin found \union U /\ (y = e \/ <<y, e>> \in order)
    <3>1. PICK y \in L : y \notin found \union U /\ (y = e \/ <<y, e>> \in order)
      BY <2>1
    <3>2. PlaceIn(L, order, y) >= n
      BY <1>9, <3>1
    <3>3. {x \in L : PlaceIn(L, order, x) < n} \subseteq found \union U
      <4>1. \A x \in L : PlaceIn(L, order, x) \in Nat
        BY <1>7, PlaceBounds
      <4> QED
        BY <1>2, <4>1
    <3>4. e \in Entries
      BY <1>2
    <3> DEFINE F == found \union U
    <3>5. F \in SUBSET Entries /\ L \in SUBSET Entries
      BY <1>4, <1>7
    <3>6. {x \in L : PlaceIn(L, order, x) < n} \subseteq F /\ IsFiniteSet(F)
      BY <1>7, <3>3
    <3> HIDE DEF order, n, found, F
    <3>7. PlaceIn(F, order, e) >= n
      BY <1>2, <1>5, <1>7, <3>1, <3>2, <3>4, <3>5, <3>6, BehindTheBeginning
    <3> QED
      BY <3>7 DEF F
  <2>2. CASE \A y \in L : <<y, e>> \in order => y \in found \union U
    <3>1. {y \in p.found \union UnaskedIn(S, p.asked) : <<y, e>> \in order}
            = {y \in found \union U : <<y, e>> \in order}
      <4> HIDE DEF order, U
      <4> QED
        BY <1>4, <1>6, <2>2
    <3> QED
      BY <1>10, <3>1 DEF PlaceIn
  <2> QED
    BY <2>1, <2>2
<1>11. ASSUME NEW e \in p.wanted, StillToCome(p, S, e), NEW k \in 1 .. p.asked + 1, e.run = Scopes[k]
       PROVE  e \in found \/ PlaceIn(found, order, e) >= n + PageSize
  <2>1. CASE k <= p.asked
    <3>1. k \in 1 .. p.asked
      BY <1>2, <2>1
    <3>2. e \in p.found \/ PlaceIn(p.found, order, e) >= n + PageSize
      BY <1>11, <3>1 DEF StillToCome
    <3>3. PlaceIn(p.found, order, e) <= PlaceIn(found, order, e)
      <4> DEFINE F == p.found
      <4>1. F \in SUBSET found
        OBVIOUS
      <4> HIDE DEF F, found, order
      <4>2. PlaceIn(F, order, e) <= PlaceIn(found, order, e)
        BY <1>7, <4>1, PlaceGrows
      <4> QED
        BY <4>2 DEF F
    <3>4. PlaceIn(p.found, order, e) \in Nat /\ PlaceIn(found, order, e) \in Nat
      BY <1>2, <1>7, TagsAreEntries, PlaceBounds
    <3> HIDE DEF order, n
    <3> QED
      BY <1>2, <3>2, <3>3, <3>4
  <2>2. CASE k = p.asked + 1
    <3>1. e \in L
      <4>1. e \in AllIn(S)
        BY DEF AcrossKept
      <4>2. PICK j \in 1 .. Len(Scopes) : e.run = Scopes[j] /\ e \in Tag(Scopes[j], S[Scopes[j]])
        BY <4>1, ListsFit
      <4> QED
        BY <1>11, <2>2, <4>2
    <3>2. CASE e \in B
      BY <3>2
    <3>3. CASE e \notin B
      <4>1. PlaceIn(L, order, e) >= n + PageSize
        BY <1>9, <3>1, <3>3
      <4>2. {x \in L : PlaceIn(L, order, x) < n + PageSize} \subseteq found
        OBVIOUS
      <4> DEFINE m == n + PageSize
      <4>3. m \in Nat /\ {x \in L : PlaceIn(L, order, x) < m} \subseteq found
            /\ PlaceIn(L, order, e) >= m /\ e \in Entries
        BY <1>2, <4>1, <4>2
      <4>4. found \in SUBSET Entries /\ L \in SUBSET Entries
        BY <1>4, <1>7
      <4> HIDE DEF m, order, found
      <4>5. PlaceIn(found, order, e) >= m
        BY <1>5, <1>7, <3>1, <4>3, <4>4, BehindTheBeginning
      <4> QED
        BY <4>5 DEF m
    <3> QED
      BY <3>2, <3>3
  <2> QED
    BY <1>2, <2>1, <2>2
<1>12. \A e : Shown(np, e) <=> Shown(p, e)
  BY <1>1 DEF Shown
<1>13. \A e \in p.wanted : StillToCome(p, S, e) => StillToCome(np, S, e)
  <2> TAKE e \in p.wanted
  <2> HAVE StillToCome(p, S, e)
  <2>1. PlaceIn(found \union U, order, e) >= n
    BY <1>10 DEF StillToCome
  <2>2. \A k \in 1 .. p.asked + 1 : e.run = Scopes[k] =>
          e \in found \/ PlaceIn(found, order, e) >= n + PageSize
    BY <1>11
  <2> HIDE DEF np, found
  <2> QED
    BY <1>1, <2>1, <2>2 DEF StillToCome
<1>14. AcrossKept(np, S)
  <2> HIDE DEF np, found
  <2> QED
    BY <1>1, <1>8, <1>12, <1>13 DEF AcrossKept
<1> QED
  BY <1>14

\* What the pager is after a page.
Turned(p, page) ==
    LET read == [p EXCEPT !.seen = @ \union Range(page), !.asked = 0, !.found = {}]
    IN  IF Len(page) < PageSize THEN [read EXCEPT !.open = FALSE]
        ELSE [read EXCEPT !.offset = @ + PageSize]

LEMMA PagesTurned ==
  ASSUME NEW p, Fits(p), NEW page \in Seq(Entries), Len(page) <= PageSize,
         Len(page) = 0 \/ p.offset + Len(page) <= Cardinality(Entries)
  PROVE  LET np == Turned(p, page)
         IN  /\ Fits(np)
             /\ np.q = p.q /\ np.wanted = p.wanted /\ np.texts = p.texts
             /\ np.seen = p.seen \union Range(page) /\ np.asked = 0 /\ np.found = {}
             /\ Len(page) # PageSize => np.open = FALSE
             /\ Len(page) = PageSize => np.open = p.open /\ np.offset = p.offset + PageSize
<1> DEFINE np == Turned(p, page)
           R == Range(page)
<1>1. Len(page) \in Nat /\ PageSize \in Nat \ {0} /\ 0 \in 0 .. Len(Scopes) /\ p.offset \in Nat
  BY LenProperties, ScopesAreRuns DEF Fits
<1>2. R \subseteq Entries
  BY RangeEquality, ElementOfSeq
<1>3. /\ np.q = p.q /\ np.wanted = p.wanted /\ np.texts = p.texts
      /\ np.seen = p.seen \union R /\ np.asked = 0 /\ np.found = {}
  BY DEF Turned, Fits
<1>4. /\ Len(page) < PageSize => np = [p EXCEPT !.seen = @ \union R, !.asked = 0, !.found = {},
                                                !.open = FALSE]
      /\ Len(page) = PageSize => np = [p EXCEPT !.seen = @ \union R, !.asked = 0, !.found = {},
                                                !.offset = @ + PageSize]
  BY <1>1 DEF Turned
<1>a. Len(page) < PageSize \/ Len(page) = PageSize
  BY <1>1
<1>b. np = [open |-> np.open, q |-> np.q, offset |-> np.offset, asked |-> np.asked,
            found |-> np.found, seen |-> np.seen, wanted |-> np.wanted, texts |-> np.texts]
  <2> HIDE DEF np, R
  <2>1. CASE Len(page) < PageSize
    BY <1>4, <2>1 DEF Fits
  <2>2. CASE Len(page) = PageSize
    BY <1>4, <2>2 DEF Fits
  <2> QED
    BY <1>a, <2>1, <2>2
<1>c. Len(page) < PageSize => np.open = FALSE /\ np.offset = p.offset
  <2> HIDE DEF np, R
  <2> QED
    BY <1>4 DEF Fits
<1>d. Len(page) = PageSize => np.open = p.open /\ np.offset = p.offset + PageSize
  <2> HIDE DEF np, R
  <2> QED
    BY <1>4 DEF Fits
<1>5. np.offset \in Nat /\ np.offset <= Cardinality(Entries)
  <2>1. p.offset <= Cardinality(Entries)
    BY DEF Fits
  <2> DEFINE o == np.offset
  <2>2. (Len(page) < PageSize => o = p.offset) /\ (Len(page) = PageSize => o = p.offset + PageSize)
    BY <1>c, <1>d
  <2> HIDE DEF o
  <2>3. o \in Nat /\ o <= Cardinality(Entries)
    BY <1>1, <1>a, <2>1, <2>2
  <2> QED
    BY <2>3 DEF o
<1>6. np.open \in BOOLEAN
  <2>1. p.open \in BOOLEAN
    BY DEF Fits
  <2> HIDE DEF np
  <2> QED
    BY <1>a, <1>c, <1>d, <2>1
<1>7. Fits(np)
  <2>1. /\ p.q \in Queries /\ p.seen \subseteq Entries /\ p.wanted \subseteq Entries
        /\ p.texts = [c \in Range(Scopes) \union {p.q.collection} |-> p.texts[c]]
    BY DEF Fits
  <2>2. /\ np.q \in Queries /\ np.seen \subseteq Entries /\ np.wanted \subseteq Entries
        /\ np.found \subseteq Entries /\ np.asked \in 0 .. Len(Scopes)
        /\ np.texts = [c \in Range(Scopes) \union {np.q.collection} |-> np.texts[c]]
    <3> HIDE DEF np, R
    <3> QED
      BY <1>1, <1>2, <1>3, <2>1
  <2> HIDE DEF np
  <2> QED
    BY <1>b, <1>5, <1>6, <2>2 DEF Fits
<1> QED
  BY <1>3, <1>a, <1>c, <1>d, <1>7

\* A page of the entries that were found.
PageOfFound(page, S, order, offset, size) ==
    /\ page \in Seq(Entries) /\ Len(page) <= size
    /\ Len(page) = 0 \/ offset + Len(page) <= Cardinality(Entries)
    /\ Len(page) = size \/ Cardinality(S) <= offset + Len(page)
    /\ Range(page) = {e \in S : /\ offset <= PlaceIn(S, order, e)
                                /\ PlaceIn(S, order, e) < offset + size}

LEMMA MergedPage ==
  ASSUME NEW q \in Queries, NEW S \in SUBSET Entries, NEW offset \in Nat, NEW size \in Nat
  PROVE  PageOfFound(Merged(q, S, offset, size), S, EntryOrder(q), offset, size)
<1> DEFINE X == Entries
           order == EntryOrder(q)
           page == PageOf(InOrder(S, order), offset, size)
<1>1. LinearOrder(order, X) /\ S \in SUBSET X /\ IsFiniteSet(S)
  BY TagsAreEntries, EntriesAreOrdered
<1>2. Merged(q, S, offset, size) = page
  BY DEF Merged
<1>3. Cardinality(S) <= Cardinality(Entries) /\ Cardinality(S) \in Nat /\ Cardinality(Entries) \in Nat
  BY <1>1, EntriesAreFinite, FS_Subset, FS_CardinalityType
<1>4. /\ page \in Seq(S) /\ Len(page) <= size
      /\ Len(page) = size \/ Cardinality(S) <= offset + Len(page)
      /\ offset + Len(page) <= Cardinality(S) \/ Len(page) = 0
      /\ Range(page) = {e \in S : /\ offset <= PlaceIn(S, order, e)
                                  /\ PlaceIn(S, order, e) < offset + size}
  <2> HIDE DEF order
  <2>1. page \in Seq(S) /\ Len(page) <= size
    BY <1>1, PageOfList
  <2>2. Len(page) = size \/ Cardinality(S) <= offset + Len(page)
    BY <1>1, PageOfList
  <2>3. offset + Len(page) <= Cardinality(S) \/ Len(page) = 0
    BY <1>1, PageOfList
  <2>4. Range(page) = {e \in S : /\ offset <= PlaceIn(S, order, e)
                                 /\ PlaceIn(S, order, e) < offset + size}
    BY <1>1, PageOfList
  <2> HIDE DEF page
  <2> QED
    BY <2>1, <2>2, <2>3, <2>4
<1> HIDE DEF page, order
<1>5. page \in Seq(Entries)
  BY <1>1, <1>4, LenProperties, ElementOfSeq, IsASeq
<1>6. Len(page) \in Nat
  BY <1>4, LenProperties
<1>7. Len(page) = 0 \/ offset + Len(page) <= Cardinality(Entries)
  BY <1>3, <1>4, <1>6
<1> QED
  BY <1>2, <1>4, <1>5, <1>7 DEF order, PageOfFound

LEMMA MergedPageKeeps ==
  ASSUME NEW p, Fits(p), p.open = TRUE, Across(p.q), p.asked = Len(Scopes),
         NEW S \in [Collections -> SUBSET Ids], AcrossKept(p, S),
         NEW page, page = Merged(p.q, p.found, p.offset, PageSize)
  PROVE  Fits(Turned(p, page)) /\ ListKept(Turned(p, page), S)
<1> DEFINE np == Turned(p, page)
           order == EntryOrder(p.q)
           n == p.offset
           F == p.found
           P(e) == PlaceIn(F, order, e)
<1>1. /\ page \in Seq(Entries) /\ Len(page) <= PageSize
      /\ Len(page) = 0 \/ n + Len(page) <= Cardinality(Entries)
      /\ Len(page) = PageSize \/ Cardinality(F) <= n + Len(page)
      /\ Range(page) = {e \in F : n <= P(e) /\ P(e) < n + PageSize}
  <2>1. p.q \in Queries /\ p.found \in SUBSET Entries /\ p.offset \in Nat /\ PageSize \in Nat
    BY ScopesAreRuns DEF Fits
  <2>2. PageOfFound(page, p.found, EntryOrder(p.q), p.offset, PageSize)
    BY <2>1, MergedPage
  <2> QED
    BY <2>2 DEF PageOfFound
<1>2. /\ Fits(np)
      /\ np.q = p.q /\ np.wanted = p.wanted
      /\ np.seen = p.seen \union Range(page) /\ np.asked = 0 /\ np.found = {}
      /\ Len(page) # PageSize => np.open = FALSE
      /\ Len(page) = PageSize => np.open = TRUE /\ np.offset = n + PageSize
  <2>1. /\ page \in Seq(Entries) /\ Len(page) <= PageSize
        /\ Len(page) = 0 \/ p.offset + Len(page) <= Cardinality(Entries)
    BY <1>1
  <2>2. /\ Fits(np)
        /\ np.q = p.q /\ np.wanted = p.wanted /\ np.texts = p.texts
        /\ np.seen = p.seen \union Range(page) /\ np.asked = 0 /\ np.found = {}
        /\ Len(page) # PageSize => np.open = FALSE
        /\ Len(page) = PageSize => np.open = p.open /\ np.offset = p.offset + PageSize
    BY <2>1, PagesTurned, ZenonT(40)
  <2> HIDE DEF np
  <2> QED
    BY <2>2
<1>3. /\ F \in SUBSET Entries /\ IsFiniteSet(F) /\ n \in Nat /\ PageSize \in Nat \ {0}
      /\ Len(page) \in Nat /\ Cardinality(F) \in Nat /\ Len(Scopes) \in Nat
  BY <1>1, TagsAreEntries, ScopesAreRuns, LenProperties, FS_CardinalityType DEF Fits
<1>4. \A e : P(e) \in Nat /\ P(e) <= Cardinality(F)
  BY <1>3, PlaceBounds
<1> HIDE DEF np, order, n, F
<1>5. ASSUME NEW e \in p.wanted
      PROVE  e \in AllIn(S) /\ (Shown(np, e) \/ P(e) >= n + PageSize)
  <2>1. e \in AllIn(S) /\ (Shown(p, e) \/ StillToCome(p, S, e))
    BY DEF AcrossKept
  <2>2. CASE Shown(p, e)
    BY <1>2, <2>1, <2>2 DEF Shown
  <2>3. CASE StillToCome(p, S, e)
    <3>1. P(e) >= n
      <4>1. UnaskedIn(S, p.asked) = {}
        BY ListsFit
      <4>2. p.found \union {} = F
        BY DEF F
      <4> QED
        BY <2>3, <4>1, <4>2 DEF StillToCome, order, n
    <3>2. PICK k \in 1 .. Len(Scopes) : e.run = Scopes[k]
      BY <2>1, ListsFit
    <3>3. e \in F \/ P(e) >= n + PageSize
      BY <2>3, <3>2 DEF StillToCome, order, n, F
    <3>4. CASE e \in F /\ P(e) < n + PageSize
      <4>1. e \in Range(page)
        BY <1>1, <3>1, <3>4
      <4>2. e \in np.seen
        BY <1>2, <4>1
      <4> QED
        BY <2>1, <4>2 DEF Shown
    <3>5. CASE P(e) >= n + PageSize
      BY <2>1, <3>5
    <3> QED
      BY <1>3, <1>4, <3>3, <3>4, <3>5
  <2> QED
    BY <2>1, <2>2, <2>3
<1>6. CASE Len(page) # PageSize
  <2>1. Cardinality(F) < n + PageSize
    BY <1>1, <1>3, <1>6
  <2>2. \A e : ~(P(e) >= n + PageSize)
    BY <1>3, <1>4, <2>1
  <2>3. \A e \in p.wanted : Shown(np, e)
    BY <1>5, <2>2
  <2> QED
    BY <1>2, <1>6, <2>3 DEF ListKept, np
<1>7. CASE Len(page) = PageSize
  <2>1. /\ UnaskedIn(S, 0) = AllIn(S) /\ AllIn(S) \subseteq Entries /\ F \subseteq AllIn(S)
    BY ListsFit DEF AcrossKept, F
  <2>2. \A e : P(e) <= PlaceIn(AllIn(S), order, e) /\ PlaceIn(AllIn(S), order, e) \in Nat
    BY <2>1, TagsAreEntries, PlaceGrows, PlaceBounds
  <2>3. \A e : P(e) >= n + PageSize => PlaceIn(AllIn(S), order, e) >= n + PageSize
    BY <1>3, <1>4, <2>2
  <2>4. \A e : P(e) >= n + PageSize => StillToCome(np, S, e)
    <3>1. np.found \union UnaskedIn(S, np.asked) = AllIn(S) /\ \A k : k \notin 1 .. np.asked
      BY <1>2, <2>1
    <3> QED
      BY <1>2, <1>7, <2>3, <3>1 DEF StillToCome, order
  <2>5. AcrossKept(np, S)
    BY <1>2, <1>5, <2>4 DEF AcrossKept
  <2> QED
    BY <1>2, <1>7, <2>5 DEF ListKept, np
<1> QED
  BY <1>6, <1>7

\* A list of one scope is no longer than all the entries that there can be.
LEMMA NoMoreThanEntries ==
  ASSUME HeldOK, NEW q, NEW c \in Collections
  PROVE  Cardinality(ScopeFinds(q, c)) <= Cardinality(Entries)
<1> DEFINE S == ScopeFinds(q, c)
           Entry(i) == EntryOf(q, c, i, SameTie)
           T == {Entry(i) : i \in S}
           f == [i \in S |-> Entry(i)]
<1>1. S \subseteq Ids /\ IsFiniteSet(S) /\ Cardinality(S) \in Nat
  BY FindsAreExposures, FS_CardinalityType
<1>2. \A i \in S : Entry(i) \in Entries /\ Entry(i).id = i
  BY EntriesOf DEF SameTie
<1>3. T \subseteq Entries /\ IsFiniteSet(T)
  BY <1>2, TagsAreEntries
<1>4. Cardinality(T) <= Cardinality(Entries)
  BY <1>3, EntriesAreFinite, FS_Subset
<1>5. f \in Injection(S, T)
  <2>1. f \in [S -> T]
    OBVIOUS
  <2>2. \A i, j \in S : f[i] = f[j] => i = j
    <3> TAKE i, j \in S
    <3>1. f[i].id = i /\ f[j].id = j
      BY <1>2
    <3> QED
      BY <3>1
  <2> HIDE DEF f, T, S
  <2> QED
    BY <2>1, <2>2, Fun_IsInj
<1>6. Cardinality(S) <= Cardinality(T)
  <2> HIDE DEF f, T, S
  <2> QED
    BY <1>1, <1>3, <1>5, FS_Injection
<1>7. Cardinality(T) \in Nat /\ Cardinality(Entries) \in Nat
  BY <1>3, EntriesAreFinite, FS_CardinalityType
<1> HIDE DEF S, T
<1> QED
  BY <1>1, <1>4, <1>6, <1>7 DEF S

LEMMA ScopePageKeeps ==
  ASSUME HeldOK, NEW p, Fits(p), p.open = TRUE, ~Across(p.q), SingleKept(p, FindsOf(p.q)),
         NEW page, page = ScopeVisits(p.q, p.q.collection, p.offset, PageSize, SameTie)
  PROVE  Fits(Turned(p, page)) /\ ListKept(Turned(p, page), FindsOf(p.q))
<1> DEFINE np == Turned(p, page)
           q == p.q
           c == p.q.collection
           n == p.offset
           size == PageSize
           tie == SameTie
           S == ScopeFinds(q, c)
           P(i) == PlaceIn(S, IdOrder(q, tie), i)
           Entry(i) == EntryOf(q, c, i, tie)
<1>1. /\ q \in Queries /\ c \in Collections /\ n \in Nat
      /\ size \in Nat /\ size # 0 /\ tie \in BOOLEAN
  BY ScopesAreRuns DEF Fits, Queries, Collections, SameTie
<1>0. /\ page = ScopeVisits(q, c, n, size, tie) /\ SingleKept(p, FindsOf(q)) /\ ~Across(q)
      /\ q = p.q /\ c = q.collection /\ n = p.offset /\ size = PageSize /\ tie = SameTie
  OBVIOUS
<1> HIDE DEF q, c, n, size, tie
<1>2. PageOfScope(page, q, c, n, size, tie)
  <2>1. q.reverse \in BOOLEAN
    BY <1>1 DEF Queries
  <2>2. PageOfScope(ScopeVisits(q, c, n, size, tie), q, c, n, size, tie)
    BY <1>1, <2>1, VisitsOfScope
  <2> QED
    BY <1>0, <2>2
<1>3. /\ page \in Seq(Entries) /\ Len(page) <= size
      /\ Len(page) = size \/ Cardinality(S) <= n + Len(page)
      /\ n + Len(page) <= Cardinality(S) \/ Len(page) = 0
  BY <1>2 DEF PageOfScope
<1>r. Range(page) = {Entry(i) : i \in {j \in S : n <= P(j) /\ P(j) < n + size}}
  BY <1>2 DEF PageOfScope
<1>4. /\ S \subseteq Ids /\ IsFiniteSet(S) /\ Cardinality(S) \in Nat /\ Len(page) \in Nat
      /\ Cardinality(Entries) \in Nat
  BY <1>1, <1>3, FindsAreExposures, FS_CardinalityType, EntriesAreFinite, LenProperties
<1>5. \A i : P(i) \in Nat /\ P(i) <= Cardinality(S)
  BY <1>4, PlaceBounds
<1>6. \A i \in S : /\ Entry(i) \in Entries /\ Entry(i).id = i
                   /\ Ellipsis(c, q.type) \/ Entry(i).run = c
  <2> TAKE i \in S
  <2> HIDE DEF S
  <2>1. /\ Entry(i) \in Entries /\ Entry(i).id = i
        /\ Ellipsis(c, q.type) \/ Entry(i) = [run |-> c, id |-> i]
    BY <1>1, EntriesOf DEF S
  <2> QED
    BY <2>1
<1>7. Cardinality(S) <= Cardinality(Entries)
  BY <1>1, NoMoreThanEntries
<1>8. Len(page) = 0 \/ n + Len(page) <= Cardinality(Entries)
  <2> HIDE DEF S, P, Entry
  <2> QED
    BY <1>1, <1>3, <1>4, <1>7
<1>9. /\ Fits(np)
      /\ np.q = p.q /\ np.wanted = p.wanted /\ np.texts = p.texts
      /\ np.seen = p.seen \union Range(page) /\ np.asked = 0 /\ np.found = {}
      /\ Len(page) # size => np.open = FALSE
      /\ Len(page) = size => np.open = p.open /\ np.offset = p.offset + size
  BY <1>0, <1>3, <1>8, PagesTurned
<1>10. FindsOf(q)[c] = S
  BY <1>1 DEF FindsOf
<1> HIDE DEF np, S, P, Entry
<1>11. ASSUME NEW e \in p.wanted
       PROVE  /\ e.id \in S /\ (e.run = c \/ AnyRun(q))
              /\ Shown(np, e) \/ P(e.id) >= n + size
  <2>1. /\ e.id \in S /\ (e.run = c \/ AnyRun(q))
        /\ Shown(p, e) \/ P(e.id) >= n
    BY <1>0, <1>10 DEF SingleKept, P
  <2>2. CASE Shown(p, e)
    <3>1. Shown(np, e)
      BY <1>9, <2>2 DEF Shown
    <3> QED
      BY <2>1, <3>1
  <2>3. CASE P(e.id) >= n /\ P(e.id) < n + size
    <3> DEFINE f == Entry(e.id)
    <3>1. f \in np.seen
      BY <1>r, <1>9, <2>1, <2>3
    <3>2. f.id = e.id /\ (f.run = e.run \/ AnyRun(q))
      BY <1>0, <1>6, <2>1 DEF AnyRun
    <3>3. Shown(np, e)
      <4> HIDE DEF f
      <4> QED
        BY <1>0, <1>9, <3>1, <3>2 DEF Shown
    <3> QED
      BY <2>1, <3>3
  <2>4. CASE P(e.id) >= n + size
    BY <2>1, <2>4
  <2> QED
    BY <1>1, <1>5, <2>1, <2>2, <2>3, <2>4
<1>12. CASE Len(page) # size
  <2>1. Cardinality(S) < n + size
    BY <1>1, <1>3, <1>4, <1>12
  <2>2. \A i : ~(P(i) >= n + size)
    BY <1>1, <1>4, <1>5, <2>1
  <2>3. \A e \in p.wanted : Shown(np, e)
    BY <1>11, <2>2
  <2> QED
    BY <1>9, <1>12, <2>3 DEF ListKept, np
<1>13. CASE Len(page) = size
  <2>1. SingleKept(np, FindsOf(q))
    BY <1>0, <1>9, <1>10, <1>11, <1>13 DEF SingleKept, P
  <2>2. np.open = TRUE /\ ~Across(np.q)
    BY <1>0, <1>9, <1>13
  <2> QED
    BY <1>0, <1>9, <2>1, <2>2 DEF ListKept, np
<1> QED
  BY <1>12, <1>13

\* A list is opened.
LEMMA WholeListFits ==
  ASSUME HeldOK, NEW q \in Queries
  PROVE  /\ WholeList(q) \subseteq Entries
         /\ (Across(q) /\ Covered(q)) => WholeList(q) \subseteq AllIn(FindsOf(q))
         /\ ~Across(q) => \A e \in WholeList(q) :
              e.id \in FindsOf(q)[q.collection] /\ (e.run = q.collection \/ AnyRun(q))
<1> DEFINE N == Cardinality(Entries)
           tie == SameTie
           B(c) == BeginningOf(q, c, 0, N, tie)
           F == UNION {B(c) : c \in Range(Scopes)}
<1>1. N \in Nat /\ 0 \in Nat /\ 0 + N = N /\ tie \in BOOLEAN /\ q.reverse \in BOOLEAN
      /\ q.collection \in Collections /\ Range(Scopes) \subseteq RunCollections
      /\ RunCollections \subseteq Collections
  BY EntriesAreFinite, FS_CardinalityType, RunNumbers DEF SameTie, Queries, Collections
<1> HIDE DEF N, tie
<1>2. ASSUME NEW c \in Collections
      PROVE  PageOfScope(ScopeVisits(q, c, 0, N, tie), q, c, 0, N, tie)
  BY <1>1, VisitsOfScope
<1>3. ASSUME NEW c \in Collections
      PROVE  /\ Range(ScopeVisits(q, c, 0, N, tie)) \subseteq Entries
             /\ \A e \in Range(ScopeVisits(q, c, 0, N, tie)) :
                  e.id \in ScopeFinds(q, c) /\ (Ellipsis(c, q.type) \/ e.run = c)
  <2> DEFINE S == ScopeFinds(q, c)
             R == {j \in S : /\ 0 <= PlaceIn(S, IdOrder(q, tie), j)
                             /\ PlaceIn(S, IdOrder(q, tie), j) < 0 + N}
             V == Range(ScopeVisits(q, c, 0, N, tie))
  <2>1. V = {EntryOf(q, c, i, tie) : i \in R}
    BY <1>2 DEF PageOfScope
  <2>2. R \subseteq S
    OBVIOUS
  <2>3. ASSUME NEW i \in S
        PROVE  /\ EntryOf(q, c, i, tie) \in Entries /\ EntryOf(q, c, i, tie).id = i
               /\ Ellipsis(c, q.type) \/ EntryOf(q, c, i, tie).run = c
    <3>1. /\ EntryOf(q, c, i, tie) \in Entries /\ EntryOf(q, c, i, tie).id = i
          /\ Ellipsis(c, q.type) \/ EntryOf(q, c, i, tie) = [run |-> c, id |-> i]
      BY <1>1, EntriesOf
    <3> QED
      BY <3>1
  <2>4. ASSUME NEW e \in V
        PROVE  e \in Entries /\ e.id \in S /\ (Ellipsis(c, q.type) \/ e.run = c)
    <3>1. PICK i \in S : e = EntryOf(q, c, i, tie)
      <4> HIDE DEF S, R, V
      <4> QED
        BY <2>1, <2>2
    <3> HIDE DEF S
    <3> QED
      BY <2>3, <3>1
  <2> QED
    BY <2>4
<1>4. \A c \in Range(Scopes) : B(c) = Range(ScopeVisits(q, c, 0, N, tie))
  BY <1>1 DEF BeginningOf, PerScopeLimit
<1>5. F \subseteq Entries
  BY <1>1, <1>3, <1>4
<1>6. CASE Across(q)
  <2>1. WholeList(q) = Range(Merged(q, F, 0, N))
    BY <1>6 DEF WholeList, QueryVisits, AcrossScopes, N, tie
  <2>2. PageOfFound(Merged(q, F, 0, N), F, EntryOrder(q), 0, N)
    <3> HIDE DEF F
    <3> QED
      BY <1>1, <1>5, MergedPage
  <2>3. WholeList(q) \subseteq F
    <3> HIDE DEF F
    <3> QED
      BY <2>1, <2>2 DEF PageOfFound
  <2>4. Covered(q) => F \subseteq AllIn(FindsOf(q))
    <3> HAVE Covered(q)
    <3>1. q.type = "raw"
      BY <1>6 DEF Covered
    <3>2. ASSUME NEW c \in Range(Scopes), NEW e \in B(c)
          PROVE  e \in Tag(c, FindsOf(q)[c])
      <4>1. c \in RunCollections /\ c \in Collections /\ ~Ellipsis(c, q.type)
        BY <1>1, <3>1, RunNumbers DEF Ellipsis
      <4>2. e.id \in ScopeFinds(q, c) /\ e.run = c /\ e \in Entries
        BY <1>3, <1>4, <4>1
      <4>3. e = [run |-> c, id |-> e.id]
        BY <4>2 DEF Entries
      <4> QED
        BY <4>1, <4>2, <4>3 DEF Tag, FindsOf
    <3> QED
      BY <3>2 DEF AllIn
  <2> QED
    BY <1>5, <1>6, <2>3, <2>4
<1>7. CASE ~Across(q)
  <2>1. WholeList(q) = Range(ScopeVisits(q, q.collection, 0, N, tie))
    BY <1>7 DEF WholeList, QueryVisits, N, tie
  <2>2. FindsOf(q)[q.collection] = ScopeFinds(q, q.collection)
    BY <1>1 DEF FindsOf
  <2> QED
    BY <1>1, <1>3, <1>7, <2>1, <2>2 DEF AnyRun
<1> QED
  BY <1>6, <1>7

LEMMA WhatTextsSay ==
  ASSUME HeldOK, NEW q \in Queries, NEW c \in Collections
  PROVE  LET there == Held(CollectionsOf(c, q.type))
         IN  /\ there \subseteq Ids
             /\ ~q.latest => WhereText(q, c) = q.where
             /\ q.latest /\ there = {} => WhereText(q, c) = <<>>
             /\ q.latest /\ there # {} =>
                  /\ WhereText(q, c) = <<Predicate("day_obs", "=", LatestDay(there))>>
                  /\ \E i \in there : LatestDay(there) = DayObs[i]
                  /\ \A i \in there : DayObs[i] <= LatestDay(there) /\ LatestDay(there) \in Nat
<1> DEFINE there == Held(CollectionsOf(c, q.type))
<1>1. there \subseteq Ids
  BY FindsAreExposures
<1>2. /\ ~q.latest => WhereText(q, c) = q.where
      /\ q.latest /\ there = {} => WhereText(q, c) = <<>>
      /\ q.latest /\ there # {} =>
           WhereText(q, c) = <<Predicate("day_obs", "=", LatestDay(there))>>
  BY DEF WhereText
<1> HIDE DEF there
<1>3. there # {} => /\ \E i \in there : LatestDay(there) = DayObs[i]
                    /\ \A i \in there : DayObs[i] <= LatestDay(there) /\ LatestDay(there) \in Nat
  BY <1>1, LatestDayOf
<1> QED
  BY <1>1, <1>2, <1>3 DEF there

LEMMA CollectionsAsked ==
  ASSUME NEW q \in Queries
  PROVE  Range(Scopes) \union {q.collection} \subseteq Collections
BY RunNumbers DEF Collections, Queries

LEMMA OpeningFits ==
  ASSUME HeldOK, NEW q \in Queries, NEW p,
         p = [open |-> TRUE, q |-> q, offset |-> 0, asked |-> 0, found |-> {},
              seen |-> {}, wanted |-> WholeList(q), texts |-> TextsOf(q)]
  PROVE  Fits(p) /\ TextsLast(p, HeldOf(q)) /\ (Covered(q) => ListKept(p, FindsOf(q)))
<1>1. /\ p.open = TRUE /\ p.q = q /\ p.offset = 0 /\ p.asked = 0 /\ p.found = {}
      /\ p.seen = {} /\ p.wanted = WholeList(q) /\ p.texts = TextsOf(q)
      /\ p = [open |-> p.open, q |-> p.q, offset |-> p.offset, asked |-> p.asked,
              found |-> p.found, seen |-> p.seen, wanted |-> p.wanted, texts |-> p.texts]
  OBVIOUS
<1>2. Fits(p)
  <2>1. Cardinality(Entries) \in Nat /\ Len(Scopes) \in Nat
    BY EntriesAreFinite, FS_CardinalityType, ScopesAreRuns
  <2>2. 0 <= Cardinality(Entries) /\ 0 \in 0 .. Len(Scopes)
    BY <2>1
  <2>3. TextsOf(q) = [c \in Range(Scopes) \union {q.collection} |-> TextsOf(q)[c]]
    BY DEF TextsOf
  <2>4. WholeList(q) \subseteq Entries
    BY WholeListFits
  <2> QED
    BY <1>1, <2>2, <2>3, <2>4 DEF Fits
<1>3. TextsLast(p, HeldOf(q))
  <2>1. ASSUME NEW c \in Range(Scopes) \union {q.collection}
        PROVE  IF ~q.latest THEN TextsOf(q)[c] = q.where
               ELSE \/ TextsOf(q)[c] = <<>>
                    \/ \E i \in HeldOf(q)[c] :
                          TextsOf(q)[c] = <<Predicate("day_obs", "=", DayObs[i])>>
    <3> DEFINE there == Held(CollectionsOf(c, q.type))
    <3>1. c \in Collections
      BY CollectionsAsked
    <3>2. TextsOf(q)[c] = WhereText(q, c) /\ HeldOf(q)[c] = there
      BY <3>1 DEF TextsOf, HeldOf
    <3>3. /\ ~q.latest => WhereText(q, c) = q.where
          /\ q.latest /\ there = {} => WhereText(q, c) = <<>>
          /\ q.latest /\ there # {} =>
               /\ WhereText(q, c) = <<Predicate("day_obs", "=", LatestDay(there))>>
               /\ \E i \in there : LatestDay(there) = DayObs[i]
      BY <3>1, WhatTextsSay
    <3> HIDE DEF there
    <3> QED
      BY <3>2, <3>3
  <2> QED
    BY <1>1, <2>1 DEF TextsLast
<1>4. ASSUME Covered(q) PROVE ListKept(p, FindsOf(q))
  <2> DEFINE S == FindsOf(q)
  <2>1. S \in [Collections -> SUBSET Ids]
    BY FindsAreExposures DEF FindsOf
  <2>2. CASE Across(q)
    <3>1. WholeList(q) \subseteq AllIn(S)
      BY <1>4, <2>2, WholeListFits
    <3>2. \A e : PlaceIn(UnaskedIn(S, 0), EntryOrder(q), e) >= 0
      <4>1. IsFiniteSet(UnaskedIn(S, 0))
        BY <2>1, ListsFit, TagsAreEntries
      <4>2. \A e : PlaceIn(UnaskedIn(S, 0), EntryOrder(q), e) \in Nat
        BY <4>1, PlaceBounds
      <4> QED
        BY <4>2
    <3>3. \A e : StillToCome(p, S, e)
      <4>1. p.found \union UnaskedIn(S, p.asked) = UnaskedIn(S, 0)
        BY <1>1
      <4> HIDE DEF S
      <4> QED
        BY <1>1, <3>2, <4>1 DEF StillToCome
    <3>4. AcrossKept(p, S)
      BY <1>1, <3>1, <3>3 DEF AcrossKept
    <3> QED
      BY <1>1, <2>2, <3>4 DEF ListKept
  <2>3. CASE ~Across(q)
    <3>1. \A e : PlaceIn(S[q.collection], IdOrder(q, SameTie), e) >= 0
      <4>1. IsFiniteSet(S[q.collection])
        BY <2>1, CollectionsAsked, ExposureNumbers, FS_Subset
      <4>2. \A e : PlaceIn(S[q.collection], IdOrder(q, SameTie), e) \in Nat
        BY <4>1, PlaceBounds
      <4> QED
        BY <4>2
    <3>2. \A e \in WholeList(q) : e.id \in S[q.collection] /\ (e.run = q.collection \/ AnyRun(q))
      BY <2>3, WholeListFits
    <3>3. SingleKept(p, S)
      <4> HIDE DEF S
      <4> QED
        BY <1>1, <3>1, <3>2 DEF SingleKept
    <3> QED
      BY <1>1, <2>3, <3>3 DEF ListKept
  <2> QED
    BY <2>2, <2>3
<1> QED
  BY <1>2, <1>3, <1>4

\* A text that is the same in the end was the same all the time.
LEMMA TextsStay ==
  ASSUME HeldOK, HeldOK', \A r \in RunCollections : held[r] \subseteq held'[r],
         NEW q \in Queries, NEW p, p.q = q, TextsLast(p, HeldOf(q)),
         NEW c \in Range(Scopes) \union {q.collection}, WhereText(q, c)' = p.texts[c]
  PROVE  WhereText(q, c) = p.texts[c]
<1> DEFINE colls == CollectionsOf(c, q.type)
           before == Held(colls)
           after == UNION {held'[r] : r \in colls}
           text == p.texts[c]
<1>1. c \in Collections /\ colls \subseteq RunCollections
  BY CollectionsAsked, FindsAreExposures
<1>2. before \subseteq after /\ after \subseteq Ids /\ before \subseteq Ids
  BY <1>1 DEF Held, HeldOK
<1>3. /\ ~q.latest => text = q.where
      /\ q.latest => text = <<>> \/ \E i \in before : text = <<Predicate("day_obs", "=", DayObs[i])>>
  <2>1. HeldOf(q)[c] = before
    BY <1>1 DEF HeldOf
  <2> QED
    BY <2>1 DEF TextsLast
<1>4. /\ q.latest /\ after = {} => text = <<>>
      /\ q.latest /\ after # {} => text = <<Predicate("day_obs", "=", LatestDay(after))>>
  BY DEF WhereText, Held
<1>5. /\ ~q.latest => WhereText(q, c) = q.where
      /\ q.latest /\ before = {} => WhereText(q, c) = <<>>
      /\ q.latest /\ before # {} => WhereText(q, c) = <<Predicate("day_obs", "=", LatestDay(before))>>
  BY <1>1, WhatTextsSay
<1> HIDE DEF before, after, text, colls
<1>6. before # {} => /\ \E i \in before : LatestDay(before) = DayObs[i]
                     /\ \A i \in before : DayObs[i] <= LatestDay(before) /\ LatestDay(before) \in Nat
  BY <1>2, LatestDayOf
<1>7. after # {} => \A i \in after : DayObs[i] <= LatestDay(after) /\ LatestDay(after) \in Nat
  BY <1>2, LatestDayOf
<1>8. CASE ~q.latest
  BY <1>3, <1>5, <1>8 DEF text
<1>9. CASE q.latest /\ after = {}
  <2>1. before = {}
    BY <1>2, <1>9
  <2> QED
    BY <1>4, <1>5, <1>9, <2>1 DEF text
<1>10. CASE q.latest /\ after # {}
  <2>1. text = <<Predicate("day_obs", "=", LatestDay(after))>> /\ text # <<>>
    <3> DEFINE w == Predicate("day_obs", "=", LatestDay(after))
    <3>1. text = <<w>>
      BY <1>4, <1>10
    <3> HIDE DEF w
    <3>2. text # <<>>
      <4>1. Len(<<w>>) = 1 /\ Len(<<>>) = 0
        OBVIOUS
      <4> QED
        BY <3>1, <4>1
    <3> QED
      BY <3>1, <3>2 DEF w
  <2>2. PICK i \in before : text = <<Predicate("day_obs", "=", DayObs[i])>>
    BY <1>3, <1>10, <2>1
  <2>3. LatestDay(after) = DayObs[i]
    BY <2>1, <2>2 DEF Predicate
  <2>4. PICK j \in before : LatestDay(before) = DayObs[j]
    BY <1>6, <2>2
  <2>5. /\ DayObs[i] <= LatestDay(before) /\ DayObs[j] <= LatestDay(after)
        /\ LatestDay(before) \in Nat /\ LatestDay(after) \in Nat
    BY <1>2, <1>6, <1>7, <2>2, <2>4
  <2>6. LatestDay(before) = LatestDay(after)
    BY <2>3, <2>4, <2>5
  <2> QED
    BY <1>5, <1>10, <2>1, <2>2, <2>6 DEF text
<1> QED
  BY <1>8, <1>9, <1>10

\* As long as its text is the same, a list only grows.
LEMMA ListsGrow ==
  ASSUME HeldOK, HeldOK', \A r \in RunCollections : held[r] \subseteq held'[r],
         NEW q, NEW c \in Collections, WhereText(q, c)' = WhereText(q, c)
  PROVE  ScopeFinds(q, c) \subseteq ScopeFinds(q, c)'
<1> DEFINE colls == CollectionsOf(c, q.type)
           text == WhereText(q, c)
<1>1. colls \subseteq RunCollections
  BY FindsAreExposures
<1>2. UsesSql(q, c)' <=> UsesSql(q, c)
  <2>1. UsesSql(q, c) <=> q.postgres /\ ~Ellipsis(c, q.type) /\ SqlSupports(text)
    BY DEF UsesSql
  <2>2. UsesSql(q, c)' <=> q.postgres /\ ~Ellipsis(c, q.type) /\ SqlSupports(text')
    BY DEF UsesSql
  <2> QED
    BY <2>1, <2>2
<1>3. SqlFinds(q, c) \subseteq SqlFinds(q, c)'
  <2>1. SqlFinds(q, c) = {i \in Ids : (\E r \in colls : i \in held[r]) /\ SqlHolds(text, i)}
    BY DEF SqlFinds
  <2>2. SqlFinds(q, c)' = {i \in Ids : (\E r \in colls : i \in held'[r]) /\ SqlHolds(text', i)}
    BY DEF SqlFinds
  <2> HIDE DEF colls, text
  <2> QED
    BY <1>1, <2>1, <2>2 DEF text
<1>4. ButlerFinds(q, c) \subseteq ButlerFinds(q, c)'
  <2>1. ButlerFinds(q, c) = {i \in UNION {held[r] : r \in colls} : ButlerHolds(text, i)}
    BY DEF ButlerFinds, Held
  <2>2. ButlerFinds(q, c)' = {i \in UNION {held'[r] : r \in colls} : ButlerHolds(text', i)}
    BY DEF ButlerFinds, Held
  <2> HIDE DEF colls, text
  <2> QED
    BY <1>1, <2>1, <2>2 DEF text
<1>5. ScopeFinds(q, c) = IF UsesSql(q, c) THEN SqlFinds(q, c) ELSE ButlerFinds(q, c)
  BY DEF ScopeFinds
<1>6. ScopeFinds(q, c)' = IF UsesSql(q, c)' THEN SqlFinds(q, c)' ELSE ButlerFinds(q, c)'
  BY DEF ScopeFinds
<1> QED
  BY <1>2, <1>3, <1>4, <1>5, <1>6

-----------------------------------------------------------------------------
\* The bookkeeping of the pager holds whatever the viewer and the ingestion do.
LEMMA HeldShape ==
  ASSUME HeldOK, NEW q
  PROVE  FindsOf(q) \in [Collections -> SUBSET Ids]
<1>1. \A c \in Collections : ScopeFinds(q, c) \subseteq Ids
  BY FindsAreExposures
<1> QED
  BY <1>1 DEF FindsOf

FindsFit == \A q : \A c \in Collections : ScopeFinds(q, c) \subseteq Ids

LEMMA FindsAreIds == HeldOK => FindsFit
BY FindsAreExposures DEF FindsFit

\* What the collections hold decides what is found.
LEMMA TheSameFinds ==
  ASSUME held' = held
  PROVE  \A q : HeldOf(q)' = HeldOf(q) /\ FindsOf(q)' = FindsOf(q) /\ TextsOf(q)' = TextsOf(q)
<1>1. \A q : HeldOf(q)' = HeldOf(q)
  BY DEF HeldOf, Held
<1>2. \A q, c : WhereText(q, c)' = WhereText(q, c)
  BY DEF WhereText, Held
<1>3. \A q, c : UsesSql(q, c)' = UsesSql(q, c) /\ SqlFinds(q, c)' = SqlFinds(q, c)
             /\ ButlerFinds(q, c)' = ButlerFinds(q, c)
  BY <1>2 DEF UsesSql, SqlFinds, ButlerFinds, Held
<1>4. \A q, c : ScopeFinds(q, c)' = ScopeFinds(q, c)
  BY <1>3 DEF ScopeFinds
<1>5. \A q : FindsOf(q)' = FindsOf(q)
  BY <1>4 DEF FindsOf
<1>6. \A q : TextsOf(q)' = TextsOf(q)
  BY <1>2 DEF TextsOf
<1> QED
  BY <1>1, <1>5, <1>6

LEMMA OpensAreLists ==
  /\ \A p : Fits(p) => p # NoList
  /\ NoList.open = FALSE
<1>1. NoList.open = FALSE /\ DOMAIN NoList = {"open"}
  BY DEF NoList
<1>2. \A p : Fits(p) => "q" \in DOMAIN p
  BY DEF Fits
<1> QED
  BY <1>1, <1>2

LEMMA IngestKeeps ==
  ASSUME QIInv, NEW r \in RunCollections, NEW i \in Ids, IngestExposure(r, i)
  PROVE  QIInv'
<1>1. HeldOK /\ HeldOK' /\ \A s \in RunCollections : held[s] \subseteq held'[s]
  BY DEF QIInv, HeldOK, IngestExposure
<1>2. queried' = queried /\ pager' = pager
  BY DEF IngestExposure
<1>3. PagerInv'
  BY <1>2 DEF QIInv, PagerInv, Fits
<1>4. ASSUME NEW q \in Queries, pager # NoList, pager.q = q
      PROVE  TextsLast(pager, HeldOf(q)')
  <2>1. TextsLast(pager, HeldOf(q))
    BY <1>4 DEF QIInv, ListInv
  <2>2. \A c \in Collections : HeldOf(q)[c] \subseteq HeldOf(q)'[c]
    <3> TAKE c \in Collections
    <3>1. CollectionsOf(c, q.type) \subseteq RunCollections
      BY <1>1, FindsAreExposures
    <3>2. HeldOf(q)[c] = UNION {held[s] : s \in CollectionsOf(c, q.type)}
      BY DEF HeldOf, Held
    <3>3. HeldOf(q)'[c] = UNION {held'[s] : s \in CollectionsOf(c, q.type)}
      BY DEF HeldOf, Held, Collections
    <3> QED
      BY <1>1, <3>1, <3>2, <3>3
  <2>3. Range(Scopes) \union {q.collection} \subseteq Collections
    BY CollectionsAsked
  <2> QED
    BY <1>4, <2>1, <2>2, <2>3 DEF TextsLast
<1>5. ASSUME NEW q \in Queries, pager # NoList, pager.q = q, Covered(q), TextsOf(q)' = pager.texts
      PROVE  ListKept(pager, FindsOf(q)')
  <2> DEFINE asked == Range(Scopes) \union {q.collection}
             S == FindsOf(q)
             T == FindsOf(q)'
  <2>1. Fits(pager) /\ TextsLast(pager, HeldOf(q)) /\ asked \subseteq Collections
    BY <1>5, CollectionsAsked DEF QIInv, PagerInv, ListInv
  <2>2. \A c \in asked : WhereText(q, c)' = pager.texts[c]
    BY <1>5 DEF TextsOf
  <2>3. \A c \in asked : WhereText(q, c) = pager.texts[c]
    <3> TAKE c \in asked
    <3> QED
      BY <1>1, <1>5, <2>1, <2>2, TextsStay
  <2>4. TextsOf(q) = pager.texts
    <3>1. TextsOf(q) = [c \in asked |-> pager.texts[c]]
      BY <2>3 DEF TextsOf
    <3>2. TextsOf(q)' = [c \in asked |-> pager.texts[c]]
      BY <2>2 DEF TextsOf
    <3> QED
      BY <1>5, <3>1, <3>2
  <2>5. ListKept(pager, S)
    BY <1>5, <2>4 DEF QIInv, ListInv
  <2>6. \A c \in asked : S[c] \subseteq T[c]
    <3> TAKE c \in asked
    <3>1. c \in Collections /\ WhereText(q, c)' = WhereText(q, c)
      BY <2>1, <2>2, <2>3
    <3>2. ScopeFinds(q, c) \subseteq ScopeFinds(q, c)'
      BY <1>1, <3>1, ListsGrow
    <3>3. S[c] = ScopeFinds(q, c) /\ T[c] = ScopeFinds(q, c)'
      BY <3>1 DEF FindsOf, Collections
    <3> QED
      BY <3>2, <3>3
  <2>7. S \in [Collections -> SUBSET Ids]
    BY <1>1, HeldShape
  <2>8. T \in [Collections -> SUBSET Ids]
    <3>1. FindsFit'
      BY <1>1, FindsAreIds, PTL
    <3> QED
      BY <3>1 DEF FindsOf, FindsFit, Collections
  <2> HIDE DEF S, T
  <2>9. AcrossKept(pager, S) => AcrossKept(pager, T)
    BY <2>1, <2>6, <2>7, <2>8, GrowthKeeps
  <2>10. SingleKept(pager, S) => SingleKept(pager, T)
    BY <1>5, <2>1, <2>6, <2>7, <2>8, GrowthKeeps
  <2> QED
    BY <2>5, <2>9, <2>10 DEF ListKept, T
<1>6. ListInv'
  <2>1. ListInv' <=> \A q \in Queries : (pager # NoList /\ pager.q = q) =>
          /\ TextsLast(pager, HeldOf(q)')
          /\ Covered(q) /\ TextsOf(q)' = pager.texts => ListKept(pager, FindsOf(q)')
    BY <1>2 DEF ListInv
  <2> QED
    BY <1>4, <1>5, <2>1
<1> QED
  BY <1>1, <1>2, <1>3, <1>6 DEF QIInv

LEMMA OpeningKeeps ==
  ASSUME QIInv, OpenList
  PROVE  QIInv'
<1>1. HeldOK /\ queried \in 0 .. MaxLists /\ queried < MaxLists /\ queried' = queried + 1 /\ held' = held
  BY DEF QIInv, OpenList
<1>2. PICK q \in Queries :
        pager' = [open |-> TRUE, q |-> q, offset |-> 0, asked |-> 0, found |-> {},
                  seen |-> {}, wanted |-> WholeList(q), texts |-> TextsOf(q)]
  BY DEF OpenList
<1>3. Fits(pager') /\ TextsLast(pager', HeldOf(q)) /\ (Covered(q) => ListKept(pager', FindsOf(q)))
  BY <1>1, <1>2, OpeningFits
<1>4. pager'.q = q
  BY <1>2
<1>5. PagerInv'
  BY <1>3 DEF PagerInv, Fits
<1>6. \A z : HeldOf(z)' = HeldOf(z) /\ FindsOf(z)' = FindsOf(z)
  BY <1>1, TheSameFinds
<1>7. ListInv'
  <2>1. ListInv' <=> \A z \in Queries : (pager' # NoList /\ pager'.q = z) =>
          /\ TextsLast(pager', HeldOf(z)')
          /\ Covered(z) /\ TextsOf(z)' = pager'.texts => ListKept(pager', FindsOf(z)')
    BY DEF ListInv, NoList
  <2> QED
    BY <1>3, <1>4, <1>6, <2>1
<1>8. HeldOK' /\ queried' \in 0 .. MaxLists
  BY <1>1, QueriesAssumption DEF HeldOK
<1> QED
  BY <1>5, <1>7, <1>8 DEF QIInv

LEMMA OneMoreAsked ==
  ASSUME NEW p, Fits(p), p.asked < Len(Scopes), NEW B, B \in SUBSET Entries
  PROVE  /\ Fits(Asked(p, B)) /\ Asked(p, B).q = p.q
         /\ Asked(p, B).texts = p.texts /\ Asked(p, B).open = p.open
<1> DEFINE np == Asked(p, B)
           F == p.found \union B
           n == p.asked + 1
<1>1. n \in 0 .. Len(Scopes) /\ F \subseteq Entries
  BY ScopesAreRuns DEF Fits
<1>2. np = [p EXCEPT !.asked = n, !.found = F]
  BY DEF Asked
<1> HIDE DEF F, n, np
<1>3. /\ np.q = p.q /\ np.texts = p.texts /\ np.open = p.open /\ np.offset = p.offset
      /\ np.asked = n /\ np.found = F /\ np.seen = p.seen /\ np.wanted = p.wanted
  BY <1>2 DEF Fits
<1>4. np = [open |-> np.open, q |-> np.q, offset |-> np.offset, asked |-> np.asked,
            found |-> np.found, seen |-> np.seen, wanted |-> np.wanted, texts |-> np.texts]
  BY <1>2 DEF Fits
<1>5. Fits(np)
  BY <1>1, <1>3, <1>4 DEF Fits
<1> QED
  BY <1>3, <1>5 DEF np

LEMMA BeginningsAreEntries ==
  ASSUME HeldOK, NEW q \in Queries, NEW c \in RunCollections, NEW offset \in Nat, NEW size \in Nat,
         NEW tie \in BOOLEAN
  PROVE  BeginningOf(q, c, offset, size, tie) \subseteq Entries
<1> DEFINE n == offset + size
           page == ScopeVisits(q, c, 0, n, tie)
<1>1. n \in Nat /\ c \in Collections /\ q.reverse \in BOOLEAN
  BY DEF Collections, Queries
<1> HIDE DEF n
<1>2. page \in Seq(Entries)
  BY <1>1, VisitsOfScope DEF PageOfScope
<1>3. Range(page) \subseteq Entries
  BY <1>2, RangeEquality, ElementOfSeq
<1> QED
  BY <1>3 DEF BeginningOf, PerScopeLimit, n

LEMMA AskKeeps ==
  ASSUME QIInv, AskScope
  PROVE  QIInv'
<1> DEFINE p == pager
           q == p.q
           c == Scopes[p.asked + 1]
           B == BeginningOf(q, c, p.offset, PageSize, SameTie)
           np == Asked(p, B)
           S == FindsOf(q)
<1>1. /\ p.open /\ Across(q) /\ p.asked < Len(Scopes) /\ pager' = np
      /\ held' = held /\ queried' = queried
  BY DEF AskScope, Asked
<1>2. p # NoList
  BY <1>1, OpensAreLists
<1>3. HeldOK /\ Fits(p) /\ queried \in 0 .. MaxLists
  BY <1>2 DEF QIInv, PagerInv
<1>4. q \in Queries /\ p.offset \in Nat /\ p.asked \in Nat /\ p.open = TRUE /\ p.asked <= Len(Scopes)
  BY <1>1, <1>3, ScopesAreRuns DEF Fits
<1>5. c \in RunCollections /\ c \in Range(Scopes) /\ PageSize \in Nat
  BY <1>1, <1>4, ScopesAreRuns
<1>t. SameTie \in BOOLEAN
  BY DEF SameTie
<1>6. B \in SUBSET Entries
  BY <1>3, <1>4, <1>5, <1>t, BeginningsAreEntries
<1>7. Fits(np) /\ np.q = q /\ np.texts = p.texts /\ np.open = p.open
  <2> HIDE DEF B
  <2> QED
    BY <1>1, <1>3, <1>6, OneMoreAsked
<1>8. TextsLast(p, HeldOf(q)) /\ (Covered(q) /\ TextsOf(q) = p.texts => ListKept(p, S))
  BY <1>2, <1>4 DEF QIInv, ListInv
<1>9. TextsLast(np, HeldOf(q))
  <2> HIDE DEF np
  <2> QED
    BY <1>7, <1>8 DEF TextsLast
<1>10. ASSUME Covered(q), TextsOf(q) = p.texts PROVE ListKept(np, S)
  <2>1. AcrossKept(p, S) /\ S \in [Collections -> SUBSET Ids]
    BY <1>1, <1>3, <1>4, <1>8, <1>10, HeldShape DEF ListKept
  <2> DEFINE L == ListOf(q, c)
  <2>2. Unique(q) /\ q.type = "raw"
    BY <1>1, <1>10 DEF Covered
  <2>3. B = {e \in L : PlaceIn(L, EntryOrder(q), e) < p.offset + PageSize}
    <3> DEFINE n == p.offset
    <3>2. n \in Nat
      BY <1>4
    <3> HIDE DEF n, c, q
    <3>1. BeginningOf(q, c, n, PageSize, SameTie)
            = {e \in ListOf(q, c) : PlaceIn(ListOf(q, c), EntryOrder(q), e) < n + PageSize}
      BY <1>3, <1>4, <1>5, <1>t, <2>2, <3>2, BeginningIs
    <3> QED
      BY <3>1 DEF n, q
  <2>4. L = Tag(c, S[c])
    BY <1>5 DEF ListOf, FindsOf, Collections
  <2>5. AcrossKept(np, S)
    <3> HIDE DEF B, L, S
    <3> QED
      BY <1>1, <1>3, <2>1, <2>3, <2>4, AskingKeeps
  <2> HIDE DEF np, S
  <2> QED
    BY <1>1, <1>4, <1>7, <2>5 DEF ListKept
<1> HIDE DEF np, S, B, c
<1>11. PagerInv'
  BY <1>1, <1>7 DEF PagerInv, Fits
<1>12. \A z : HeldOf(z)' = HeldOf(z) /\ FindsOf(z)' = FindsOf(z) /\ TextsOf(z)' = TextsOf(z)
  BY <1>1, TheSameFinds
<1>13. ListInv'
  <2>1. ListInv' <=> \A z \in Queries : (pager' # NoList /\ pager'.q = z) =>
          /\ TextsLast(pager', HeldOf(z)')
          /\ Covered(z) /\ TextsOf(z)' = pager'.texts => ListKept(pager', FindsOf(z)')
    BY DEF ListInv, NoList
  <2> QED
    BY <1>1, <1>7, <1>9, <1>10, <1>12, <2>1 DEF S
<1> QED
  BY <1>1, <1>3, <1>11, <1>13 DEF QIInv, HeldOK

\* The next page of any list leaves a list that fits.
LEMMA PagesFit ==
  ASSUME HeldOK, NEW p, Fits(p),
         NEW page, page = IF Across(p.q) THEN Merged(p.q, p.found, p.offset, PageSize)
                          ELSE ScopeVisits(p.q, p.q.collection, p.offset, PageSize, SameTie)
  PROVE  LET np == Turned(p, page)
         IN  Fits(np) /\ np.q = p.q /\ np.texts = p.texts
<1> DEFINE q == p.q
           c == q.collection
           n == p.offset
           f == p.found
<1>1. q \in Queries /\ n \in Nat /\ PageSize \in Nat /\ f \in SUBSET Entries
      /\ c \in Collections /\ q.reverse \in BOOLEAN
  BY ScopesAreRuns DEF Fits, Queries, Collections
<1>2. /\ page \in Seq(Entries) /\ Len(page) <= PageSize
      /\ Len(page) = 0 \/ n + Len(page) <= Cardinality(Entries)
  <2>1. CASE Across(q)
    <3>1. page = Merged(q, f, n, PageSize)
      BY <2>1
    <3> HIDE DEF q, n, f
    <3>2. PageOfFound(page, f, EntryOrder(q), n, PageSize)
      BY <1>1, <3>1, MergedPage
    <3> QED
      BY <3>2 DEF PageOfFound
  <2>2. CASE ~Across(q)
    <3>1. page = ScopeVisits(q, c, n, PageSize, SameTie)
      BY <2>2
    <3>t. SameTie \in BOOLEAN
      BY DEF SameTie
    <3> HIDE DEF q, n, f, c
    <3>5. PageOfScope(page, q, c, n, PageSize, SameTie)
      BY <1>1, <3>1, <3>t, VisitsOfScope
    <3>2. /\ page \in Seq(Entries) /\ Len(page) <= PageSize
          /\ n + Len(page) <= Cardinality(ScopeFinds(q, c)) \/ Len(page) = 0
      BY <3>5 DEF PageOfScope
    <3>3. Cardinality(ScopeFinds(q, c)) <= Cardinality(Entries)
      BY <1>1, NoMoreThanEntries
    <3>4. Cardinality(ScopeFinds(q, c)) \in Nat /\ Cardinality(Entries) \in Nat /\ Len(page) \in Nat
      BY <1>1, <3>2, FindsAreExposures, EntriesAreFinite, FS_CardinalityType, LenProperties
    <3> QED
      BY <1>1, <3>2, <3>3, <3>4
  <2> QED
    BY <2>1, <2>2
<1> HIDE DEF q
<1> QED
  BY <1>2, PagesTurned DEF q

LEMMA PagingKeeps ==
  ASSUME QIInv, NextPage
  PROVE  QIInv'
<1> DEFINE p == pager
           q == p.q
           page == IF Across(q) THEN Merged(q, p.found, p.offset, PageSize)
                   ELSE ScopeVisits(q, q.collection, p.offset, PageSize, SameTie)
           np == Turned(p, page)
           S == FindsOf(q)
<1>1. /\ p.open /\ (Across(q) => p.asked = Len(Scopes)) /\ pager' = np
      /\ held' = held /\ queried' = queried
  BY DEF NextPage, Turned
<1>2. p # NoList
  BY <1>1, OpensAreLists
<1>3. HeldOK /\ Fits(p) /\ queried \in 0 .. MaxLists
  BY <1>2 DEF QIInv, PagerInv
<1>4. q \in Queries /\ p.open = TRUE /\ S \in [Collections -> SUBSET Ids]
  BY <1>1, <1>3, HeldShape DEF Fits
<1>5. TextsLast(p, HeldOf(q)) /\ (Covered(q) /\ TextsOf(q) = p.texts => ListKept(p, S))
  BY <1>2, <1>4 DEF QIInv, ListInv
<1>6. Fits(np) /\ np.q = q /\ np.texts = p.texts
  BY <1>1, <1>3, <1>4, PagesFit
<1>7. ASSUME Covered(q), TextsOf(q) = p.texts PROVE ListKept(np, S)
  <2>1. CASE Across(q)
    <3>1. AcrossKept(p, S) /\ page = Merged(q, p.found, p.offset, PageSize)
      BY <1>4, <1>5, <1>7, <2>1 DEF ListKept
    <3> HIDE DEF page, S
    <3> QED
      BY <1>1, <1>3, <1>4, <2>1, <3>1, MergedPageKeeps
  <2>2. CASE ~Across(q)
    <3>1. SingleKept(p, S) /\ page = ScopeVisits(q, q.collection, p.offset, PageSize, SameTie)
      BY <1>4, <1>5, <1>7, <2>2 DEF ListKept
    <3> HIDE DEF page
    <3> QED
      BY <1>1, <1>3, <1>4, <2>2, <3>1, ScopePageKeeps
  <2> QED
    BY <2>1, <2>2
<1>8. TextsLast(np, HeldOf(q))
  <2> HIDE DEF np
  <2> QED
    BY <1>5, <1>6 DEF TextsLast
<1> HIDE DEF np, S, page
<1>9. PagerInv'
  BY <1>1, <1>6 DEF PagerInv, Fits
<1>10. \A z : HeldOf(z)' = HeldOf(z) /\ FindsOf(z)' = FindsOf(z) /\ TextsOf(z)' = TextsOf(z)
  BY <1>1, TheSameFinds
<1>11. ListInv'
  <2>1. ListInv' <=> \A z \in Queries : (pager' # NoList /\ pager'.q = z) =>
          /\ TextsLast(pager', HeldOf(z)')
          /\ Covered(z) /\ TextsOf(z)' = pager'.texts => ListKept(pager', FindsOf(z)')
    BY DEF ListInv, NoList
  <2> QED
    BY <1>1, <1>6, <1>7, <1>8, <1>10, <2>1 DEF S
<1> QED
  BY <1>1, <1>3, <1>9, <1>11 DEF QIInv, HeldOK

\* The pager is always kept (QIInv).
LEMMA PagersAreKept == QueriesSpec => []QIInv
<1>1. QueriesInit => QIInv
  BY QueriesAssumption DEF QueriesInit, QIInv, HeldOK, PagerInv, ListInv
<1>2. QIInv /\ [QueriesNext]_queriesVars => QIInv'
  <2> SUFFICES ASSUME QIInv, [QueriesNext]_queriesVars PROVE QIInv'
    OBVIOUS
  <2>1. ASSUME NEW r \in RunCollections, NEW i \in Ids, IngestExposure(r, i) PROVE QIInv'
    BY <2>1, IngestKeeps
  <2>2. CASE OpenList
    BY <2>2, OpeningKeeps
  <2>3. CASE AskScope
    BY <2>3, AskKeeps
  <2>4. CASE NextPage
    BY <2>4, PagingKeeps
  <2>5. CASE UNCHANGED queriesVars
    <3>1. held' = held /\ queried' = queried /\ pager' = pager
      BY <2>5 DEF queriesVars
    <3>2. \A z : HeldOf(z)' = HeldOf(z) /\ FindsOf(z)' = FindsOf(z) /\ TextsOf(z)' = TextsOf(z)
      BY <3>1, TheSameFinds
    <3>3. ListInv' <=> \A z \in Queries : (pager # NoList /\ pager.q = z) =>
            /\ TextsLast(pager, HeldOf(z)')
            /\ Covered(z) /\ TextsOf(z)' = pager.texts => ListKept(pager, FindsOf(z)')
      BY <3>1 DEF ListInv, NoList
    <3>4. ListInv'
      BY <3>2, <3>3 DEF QIInv, ListInv
    <3> QED
      BY <3>1, <3>4 DEF QIInv, HeldOK, PagerInv, Fits
  <2> QED
    BY <2>1, <2>2, <2>3, <2>4, <2>5 DEF QueriesNext
<1> QED
  BY <1>1, <1>2, PTL DEF QueriesSpec

LEMMA KeptPagersAreTyped == QIInv => QueriesTypeOK
BY DEF QIInv, HeldOK, PagerInv, Fits, QueriesTypeOK

LEMMA KeptPagersMissNone == QIInv => NoneIsMissed
<1> SUFFICES ASSUME QIInv, pager # NoList, ~pager.open, Covered(pager.q),
                    ~(pager.q.latest /\ TextsOf(pager.q) # pager.texts)
             PROVE  \A e \in pager.wanted : Shown(pager, e)
  BY DEF NoneIsMissed, Covered, Shown, AnyRun
<1> DEFINE q == pager.q
<1>1. Fits(pager) /\ q \in Queries
  BY DEF QIInv, PagerInv, Fits
<1>2. TextsLast(pager, HeldOf(q)) /\ (Covered(q) /\ TextsOf(q) = pager.texts => ListKept(pager, FindsOf(q)))
  BY <1>1 DEF QIInv, ListInv
<1>3. TextsOf(q) = pager.texts
  <2>1. CASE q.latest
    BY <2>1
  <2>2. CASE ~q.latest
    <3>1. \A c \in Range(Scopes) \union {q.collection} : pager.texts[c] = q.where
      BY <1>2, <2>2 DEF TextsLast
    <3>2. TextsOf(q) = [c \in Range(Scopes) \union {q.collection} |-> q.where]
      BY <2>2 DEF TextsOf, WhereText
    <3>3. pager.texts = [c \in Range(Scopes) \union {q.collection} |-> q.where]
      BY <1>1, <3>1 DEF Fits
    <3> QED
      BY <3>2, <3>3
  <2> QED
    BY <2>1, <2>2
<1> QED
  BY <1>2, <1>3 DEF ListKept

-----------------------------------------------------------------------------
(* What a where text says. *)

\* The places where a stretch is cut.
Cuts(text, a, b, kind) == {a - 1, b + 1} \union {j \in a .. b : text[j].kind = kind}

LEMMA PartsOfSplit ==
  ASSUME NEW text, NEW a \in Nat \ {0}, NEW b \in Nat, NEW kind
  PROVE  /\ \A c, d \in Cuts(text, a, b, kind) :
              (c < d /\ \A e \in Cuts(text, a, b, kind) : e <= c \/ e >= d)
                => <<c + 1, d - 1>> \in Split(text, <<a, b>>, kind)
         /\ \A s \in Split(text, <<a, b>>, kind) : \E c, d \in Cuts(text, a, b, kind) :
              /\ s = <<c + 1, d - 1>> /\ c < d
              /\ \A e \in Cuts(text, a, b, kind) : e <= c \/ e >= d
<1> DEFINE C == Cuts(text, a, b, kind)
<1>1. Split(text, <<a, b>>, kind) =
        {<<c[1] + 1, c[2] - 1>> :
             c \in {d \in C \X C : d[1] < d[2] /\ \A e \in C : e <= d[1] \/ e >= d[2]}}
  BY DEF Split, Cuts
<1> HIDE DEF C
<1>2. ASSUME NEW c \in C, NEW d \in C, c < d, \A e \in C : e <= c \/ e >= d
      PROVE  <<c + 1, d - 1>> \in Split(text, <<a, b>>, kind)
  <2> DEFINE p == <<c, d>>
  <2>1. p \in C \X C /\ p[1] = c /\ p[2] = d
    OBVIOUS
  <2>2. p \in {x \in C \X C : x[1] < x[2] /\ \A e \in C : e <= x[1] \/ e >= x[2]}
    BY <1>2, <2>1
  <2> QED
    BY <1>1, <2>1, <2>2
<1>3. ASSUME NEW s \in Split(text, <<a, b>>, kind)
      PROVE  \E c, d \in C : s = <<c + 1, d - 1>> /\ c < d /\ \A e \in C : e <= c \/ e >= d
  <2>1. PICK x \in C \X C : x[1] < x[2] /\ (\A e \in C : e <= x[1] \/ e >= x[2])
                            /\ s = <<x[1] + 1, x[2] - 1>>
    BY <1>1, <1>3
  <2> QED
    BY <2>1
<1> QED
  BY <1>2, <1>3 DEF C

\* The cuts around a place.
LEMMA CutsAround ==
  ASSUME NEW n \in Nat, NEW C \in SUBSET (0 .. n), 0 \in C, n \in C, NEW x \in 0 .. n
  PROVE  /\ \E c \in C : c <= x /\ \A e \in C : e <= c \/ e > x
         /\ \E d \in C : x <= d /\ \A e \in C : e < x \/ e >= d
<1>1. IsFiniteSet(0 .. n)
  BY FS_Interval
<1>2. \E c \in C : c <= x /\ \A e \in C : e <= c \/ e > x
  <2> DEFINE L == {c \in C : c <= x}
  <2>1. L \in SUBSET Nat /\ L \subseteq 0 .. n /\ L # {}
    <3>1. \A c \in C : c \in 0 .. n /\ c \in Nat
      OBVIOUS
    <3>2. 0 \in L
      OBVIOUS
    <3> QED
      BY <3>1, <3>2
  <2>2. IsFiniteSet(L)
    BY <1>1, <2>1, FS_Subset
  <2> HIDE DEF L
  <2>3. PICK c \in L : \A e \in L : e <= c
    BY <2>1, <2>2, Extremes
  <2> QED
    BY <2>3 DEF L
<1>3. \E d \in C : x <= d /\ \A e \in C : e < x \/ e >= d
  <2> DEFINE R == {c \in C : x <= c}
  <2>1. R \in SUBSET Nat /\ R \subseteq 0 .. n /\ R # {}
    <3>1. \A c \in C : c \in 0 .. n /\ c \in Nat
      OBVIOUS
    <3>2. n \in R
      OBVIOUS
    <3> QED
      BY <3>1, <3>2
  <2>2. IsFiniteSet(R)
    BY <1>1, <2>1, FS_Subset
  <2> HIDE DEF R
  <2>3. PICK d \in R : \A e \in R : d <= e
    BY <2>1, <2>2, Extremes
  <2> QED
    BY <2>3 DEF R
<1> QED
  BY <1>2, <1>3

\* Predicates and connectives take turns in what the SQL supports.
Alternates(text) ==
    /\ Len(text) \in Nat /\ 1 <= Len(text)
    /\ \A j \in 1 .. Len(text) : text[j].kind \in {"predicate", "and", "or"}
    /\ \A j \in 1 .. Len(text) : text[j].kind # "predicate" =>
          /\ 1 < j /\ j < Len(text)
          /\ text[j - 1].kind = "predicate" /\ text[j + 1].kind = "predicate"
    /\ \A j \in 1 .. Len(text) : (j < Len(text) /\ text[j].kind = "predicate") =>
          text[j + 1].kind # "predicate"

LEMMA SupportedAlternates ==
  ASSUME NEW text \in Seq(Words), text # <<>>, SqlSupports(text)
  PROVE  Alternates(text)
<1> DEFINE N == Len(text)
           WordKind(j) == text[j].kind
           C == {0, N + 1} \union {j \in 1 .. N : WordKind(j) = "and" \/ WordKind(j) = "or"}
           D == Cuts(text, 1, N, "or")
<1>1. N \in Nat /\ N # 0 /\ N >= 1
  BY EmptySeq, LenProperties
<1>2. \A s \in Split(text, <<1, N>>, "or") : \A part \in Split(text, s, "and") :
         part[1] = part[2] /\ WordKind(part[1]) = "predicate"
  BY DEF SqlSupports, SqlPredicate
<1>3. /\ D = {0, N + 1} \union {j \in 1 .. N : WordKind(j) = "or"}
      /\ D \in SUBSET (0 .. N + 1) /\ C \in SUBSET (0 .. N + 1) /\ D \subseteq C
      /\ 0 \in D /\ 0 \in C /\ N + 1 \in D /\ N + 1 \in C
      /\ \A c \in C : c \notin D => c \in 1 .. N /\ WordKind(c) = "and"
      /\ \A j \in 1 .. N : WordKind(j) = "and" => j \in C
      /\ \A j \in 1 .. N : j \in C <=> WordKind(j) = "and" \/ WordKind(j) = "or"
  BY <1>1 DEF Cuts
<1> HIDE DEF WordKind, D, C
<1>5. /\ \A x \in 0 .. N + 1 :
           /\ \E c \in C : c <= x /\ \A e \in C : e <= c \/ e > x
           /\ \E d \in C : x <= d /\ \A e \in C : e < x \/ e >= d
      /\ \A x \in 0 .. N + 1 :
           /\ \E c \in D : c <= x /\ \A e \in D : e <= c \/ e > x
           /\ \E d \in D : x <= d /\ \A e \in D : e < x \/ e >= d
  <2> DEFINE M == N + 1
  <2>1. M \in Nat
    BY <1>1
  <2> HIDE DEF M
  <2>2. C \in SUBSET (0 .. M) /\ D \in SUBSET (0 .. M) /\ {0, M} \subseteq C /\ {0, M} \subseteq D
    BY <1>3 DEF M
  <2>3. \A x \in 0 .. M :
           /\ \E c \in C : c <= x /\ \A e \in C : e <= c \/ e > x
           /\ \E d \in C : x <= d /\ \A e \in C : e < x \/ e >= d
    BY <2>1, <2>2, CutsAround
  <2>4. \A x \in 0 .. M :
           /\ \E c \in D : c <= x /\ \A e \in D : e <= c \/ e > x
           /\ \E d \in D : x <= d /\ \A e \in D : e < x \/ e >= d
    BY <2>1, <2>2, CutsAround
  <2> QED
    BY <2>3, <2>4 DEF M
<1>4. ASSUME NEW c \in C, NEW d \in C, c < d, \A e \in C : e <= c \/ e >= d
      PROVE  d = c + 2 /\ WordKind(c + 1) = "predicate"
  <2>1. c \in 0 .. N + 1 /\ d \in 0 .. N + 1
    BY <1>3
  <2>2. PICK l \in D : l <= c /\ \A e \in D : e <= l \/ e > c
    BY <1>5, <2>1
  <2>3. PICK m \in D : d <= m /\ \A e \in D : e < d \/ e >= m
    BY <1>5, <2>1
  <2>4. l \in 0 .. N + 1 /\ m \in 0 .. N + 1 /\ l < m
    BY <1>3, <1>4, <2>1, <2>2, <2>3
  <2>5. \A e \in D : e <= l \/ e >= m
    <3> TAKE e \in D
    <3>1. e \in 0 .. N + 1 /\ e \in C
      BY <1>3
    <3> QED
      BY <1>4, <2>1, <2>2, <2>3, <2>4, <3>1
  <2> DEFINE a == l + 1
             b == m - 1
             E == Cuts(text, a, b, "and")
  <2>6. a \in Nat \ {0} /\ b \in Nat /\ a - 1 = l /\ b + 1 = m
    BY <2>4
  <2>7. <<a, b>> \in Split(text, <<1, N>>, "or")
    BY <1>1, <2>4, <2>5, PartsOfSplit DEF D
  <2>8. E = {l, m} \union {j \in a .. b : WordKind(j) = "and"}
    BY <2>6 DEF Cuts, WordKind
  <2>9. E \subseteq C
    <3>1. l \in C /\ m \in C
      BY <1>3
    <3>2. \A j \in a .. b : j \in 1 .. N
      BY <1>1, <2>4
    <3> HIDE DEF a, b, E
    <3> QED
      BY <1>3, <2>8, <3>1, <3>2
  <2>10. c \in E /\ d \in E
    <3>1. c = l \/ (c \in a .. b /\ WordKind(c) = "and")
      <4>1. c \in D => c = l
        BY <2>1, <2>2, <2>4
      <4>2. l <= c /\ c < m
        BY <1>4, <2>1, <2>2, <2>3, <2>4
      <4>3. c # l => c \in a .. b
        BY <2>1, <2>4, <4>2
      <4> QED
        BY <1>3, <4>1, <4>3
    <3>2. d = m \/ (d \in a .. b /\ WordKind(d) = "and")
      <4>1. d \in D => d = m
        BY <2>1, <2>3, <2>4
      <4>2. l < d /\ d <= m
        BY <1>4, <2>1, <2>2, <2>3, <2>4
      <4>3. d # m => d \in a .. b
        BY <2>1, <2>4, <4>2
      <4> QED
        BY <1>3, <4>1, <4>3
    <3> HIDE DEF a, b, E
    <3> QED
      BY <2>8, <3>1, <3>2
  <2>11. <<c + 1, d - 1>> \in Split(text, <<a, b>>, "and")
    <3>1. \A e \in E : e <= c \/ e >= d
      BY <1>4, <2>9
    <3> HIDE DEF a, b
    <3> QED
      BY <1>4, <2>6, <2>10, <3>1, PartsOfSplit DEF E
  <2>12. <<c + 1, d - 1>>[1] = c + 1 /\ <<c + 1, d - 1>>[2] = d - 1
    OBVIOUS
  <2>13. c + 1 = d - 1 /\ WordKind(c + 1) = "predicate"
    BY <1>2, <2>7, <2>11, <2>12
  <2> QED
    BY <2>1, <2>13
<1>6. ASSUME NEW j \in 1 .. N, j \notin C
      PROVE  j - 1 \in C /\ j + 1 \in C /\ WordKind(j) = "predicate"
  <2>1. PICK c \in C : c <= j /\ \A e \in C : e <= c \/ e > j
    BY <1>5
  <2>2. PICK d \in C : j <= d /\ \A e \in C : e < j \/ e >= d
    BY <1>5
  <2>3. c \in 0 .. N + 1 /\ d \in 0 .. N + 1 /\ c < j /\ j < d
    BY <1>3, <1>6, <2>1, <2>2
  <2>4. \A e \in C : e <= c \/ e >= d
    <3> TAKE e \in C
    <3>1. e \in 0 .. N + 1 /\ e # j
      BY <1>3, <1>6
    <3> QED
      BY <2>1, <2>2, <2>3, <3>1
  <2>5. d = c + 2 /\ WordKind(c + 1) = "predicate"
    BY <1>4, <2>3, <2>4
  <2>6. c = j - 1 /\ d = j + 1 /\ j = c + 1
    BY <2>3, <2>5
  <2> QED
    BY <2>5, <2>6
<1>7. ASSUME NEW c \in C, c # N + 1
      PROVE  c + 1 <= N /\ WordKind(c + 1) = "predicate"
  <2>1. c \in 0 .. N + 1 /\ c + 1 \in 0 .. N + 1
    BY <1>1, <1>3, <1>7
  <2>2. PICK d \in C : c + 1 <= d /\ \A e \in C : e < c + 1 \/ e >= d
    BY <1>5, <2>1
  <2>3. d \in 0 .. N + 1
    BY <1>3
  <2>4. \A e \in C : e <= c \/ e >= d
    <3> TAKE e \in C
    <3>1. e \in 0 .. N + 1
      BY <1>3
    <3> QED
      BY <2>1, <2>2, <3>1
  <2>5. d = c + 2 /\ WordKind(c + 1) = "predicate"
    BY <1>4, <2>1, <2>2, <2>3, <2>4
  <2> QED
    BY <1>1, <2>1, <2>3, <2>5
<1>8. ASSUME NEW d \in C, d # 0
      PROVE  1 <= d - 1 /\ WordKind(d - 1) = "predicate"
  <2>1. d \in 0 .. N + 1 /\ d - 1 \in 0 .. N + 1
    BY <1>1, <1>3, <1>8
  <2>2. PICK c \in C : c <= d - 1 /\ \A e \in C : e <= c \/ e > d - 1
    BY <1>5, <2>1
  <2>3. c \in 0 .. N + 1
    BY <1>3
  <2>4. \A e \in C : e <= c \/ e >= d
    <3> TAKE e \in C
    <3>1. e \in 0 .. N + 1
      BY <1>3
    <3> QED
      BY <2>1, <2>2, <3>1
  <2>5. d = c + 2 /\ WordKind(c + 1) = "predicate"
    BY <1>4, <2>1, <2>2, <2>3, <2>4
  <2>6. c + 1 = d - 1
    BY <2>3, <2>5
  <2> QED
    BY <2>3, <2>5, <2>6
<1>9. \A j \in 1 .. N : WordKind(j) \in {"predicate", "and", "or"}
  BY <1>3, <1>6
<1>10. ASSUME NEW j \in 1 .. N, WordKind(j) # "predicate"
       PROVE  1 < j /\ j < N /\ WordKind(j - 1) = "predicate" /\ WordKind(j + 1) = "predicate"
  <2>1. j \in C /\ j # 0 /\ j # N + 1
    BY <1>1, <1>6, <1>10
  <2>2. j + 1 <= N /\ WordKind(j + 1) = "predicate" /\ 1 <= j - 1 /\ WordKind(j - 1) = "predicate"
    BY <1>7, <1>8, <2>1
  <2> QED
    BY <1>1, <2>2
<1>11. ASSUME NEW j \in 1 .. N, j < N, WordKind(j) = "predicate"
       PROVE  WordKind(j + 1) # "predicate"
  <2>1. j \notin C /\ j + 1 \in 1 .. N
    BY <1>1, <1>3, <1>11
  <2>2. j + 1 \in C
    BY <1>6, <2>1
  <2> QED
    BY <1>3, <2>1, <2>2
<1> QED
  BY <1>1, <1>9, <1>10, <1>11 DEF Alternates, WordKind

\* What a stretch of a text finds, h being what the shorter ones find.
Reading(text, h, s) ==
    LET ors == Tops(text, s, "or")
        ands == Tops(text, s, "and")
    IN  IF s[2] < s[1] THEN {}
        ELSE IF ors # {} THEN LET k == CHOOSE j \in ors : TRUE
                              IN  h[<<s[1], k - 1>>] \union h[<<k + 1, s[2]>>]
        ELSE IF ands # {} THEN LET k == CHOOSE j \in ands : TRUE
                               IN  h[<<s[1], k - 1>>] \intersect h[<<k + 1, s[2]>>]
        ELSE IF text[s[1]].kind = "(" THEN h[<<s[1] + 1, s[2] - 1>>]
        ELSE {i \in Ids : Satisfies(i, text[s[1]])}

IsReading(text, h) == h = [s \in Stretches(text) |-> Reading(text, h, s)]

LEMMA ReadingIsLocal ==
  ASSUME NEW text, Len(text) \in Nat, NEW g, NEW h, NEW s \in Stretches(text),
         \A t \in Stretches(text) : t[2] - t[1] < s[2] - s[1] => g[t] = h[t]
  PROVE  Reading(text, g, s) = Reading(text, h, s)
<1> DEFINE a == s[1]
           b == s[2]
           N == Len(text)
           ors == Tops(text, s, "or")
           ands == Tops(text, s, "and")
<1>1. a \in 1 .. N + 1 /\ b \in 0 .. N
  BY DEF Stretches
<1>2. CASE b < a
  BY <1>2 DEF Reading
<1>3. CASE a <= b
  <2>1. \A c \in 1 .. N + 1, d \in 0 .. N : d - c < b - a => g[<<c, d>>] = h[<<c, d>>]
    <3> TAKE c \in 1 .. N + 1, d \in 0 .. N
    <3> HAVE d - c < b - a
    <3>1. <<c, d>> \in Stretches(text) /\ <<c, d>>[1] = c /\ <<c, d>>[2] = d
      BY DEF Stretches
    <3> QED
      BY <3>1
  <2>2. ASSUME NEW k \in a .. b
        PROVE  g[<<a, k - 1>>] = h[<<a, k - 1>>] /\ g[<<k + 1, b>>] = h[<<k + 1, b>>]
    <3>1. k - 1 \in 0 .. N /\ k + 1 \in 1 .. N + 1 /\ k - 1 - a < b - a /\ b - (k + 1) < b - a
      BY <1>1, <1>3
    <3> HIDE DEF a, b, N
    <3> QED
      BY <1>1, <2>1, <3>1
  <2>3. g[<<a + 1, b - 1>>] = h[<<a + 1, b - 1>>]
    <3>1. a + 1 \in 1 .. N + 1 /\ b - 1 \in 0 .. N /\ b - 1 - (a + 1) < b - a
      BY <1>1, <1>3
    <3> HIDE DEF a, b, N
    <3> QED
      BY <2>1, <3>1
  <2>4. ors \subseteq a .. b /\ ands \subseteq a .. b
    BY DEF Tops
  <2>5. ors # {} => (CHOOSE j \in ors : TRUE) \in a .. b
    BY <2>4
  <2>6. ands # {} => (CHOOSE j \in ands : TRUE) \in a .. b
    BY <2>4
  <2> HIDE DEF a, b, N, ors, ands
  <2>7. ors # {} => Reading(text, g, s) = Reading(text, h, s)
    BY <2>2, <2>5 DEF Reading, a, b, ors
  <2>8. ors = {} /\ ands # {} => Reading(text, g, s) = Reading(text, h, s)
    BY <2>2, <2>6 DEF Reading, a, b, ors, ands
  <2>9. ors = {} /\ ands = {} => Reading(text, g, s) = Reading(text, h, s)
    BY <2>3 DEF Reading, a, b, ors, ands
  <2> QED
    BY <2>7, <2>8, <2>9
<1> QED
  BY <1>1, <1>2, <1>3

\* The definition by recursion has a solution.
LEMMA TextsAreRead ==
  ASSUME NEW text, Len(text) \in Nat
  PROVE  IsReading(text, ButlerReads(text))
<1> DEFINE Short(t, n) == t[2] - t[1] < n
           Approx(h, n) == \A t \in Stretches(text) : Short(t, n) => h[t] = Reading(text, h, t)
           B == {n \in Nat : \A h : ~Approx(h, n)}
           Extended(h) == [t \in Stretches(text) |-> Reading(text, h, t)]
           N == Len(text)
<1>1. \A t \in Stretches(text) : t[1] \in Nat /\ t[2] \in Nat /\ t[2] - t[1] < N + 1
  BY DEF Stretches
<1>2. ASSUME NEW n \in Nat, NEW h, Approx(h, n)
      PROVE  Approx(Extended(h), n + 1)
  <2> DEFINE g == Extended(h)
  <2>1. \A t \in Stretches(text) : g[t] = Reading(text, h, t)
    OBVIOUS
  <2> HIDE DEF g
  <2>2. \A t \in Stretches(text) : Short(t, n) => g[t] = h[t]
    BY <1>2, <2>1
  <2> SUFFICES ASSUME NEW t \in Stretches(text), Short(t, n + 1)
               PROVE  g[t] = Reading(text, g, t)
    BY DEF g
  <2>3. \A u \in Stretches(text) : u[2] - u[1] < t[2] - t[1] => Short(u, n)
    BY <1>1
  <2>4. \A u \in Stretches(text) : u[2] - u[1] < t[2] - t[1] => g[u] = h[u]
    BY <2>2, <2>3
  <2>5. Reading(text, g, t) = Reading(text, h, t)
    BY <2>4, ReadingIsLocal
  <2> QED
    BY <2>1, <2>5
<1>3. 0 \notin B
  <2> DEFINE h == [t \in Stretches(text) |-> {}]
  <2>1. \A t \in Stretches(text) : Short(t, 0) => t[2] < t[1]
    BY <1>1
  <2>2. Approx(h, 0)
    <3> TAKE t \in Stretches(text)
    <3> HAVE Short(t, 0)
    <3>1. t[2] < t[1]
      BY <2>1
    <3> QED
      BY <3>1 DEF Reading
  <2> QED
    BY <2>2
<1>4. B = {}
  <2> SUFFICES ASSUME B # {} PROVE FALSE
    OBVIOUS
  <2> DEFINE R == OpToRel(<, Nat)
  <2>1. IsWellFoundedOn(R, Nat) /\ B \subseteq Nat
    BY NatLessThanWellFounded
  <2> HIDE DEF B
  <2>2. PICK m \in B : \A n \in B : ~(<<n, m>> \in R)
    BY <2>1, WFMin
  <2>3. m \in Nat /\ m # 0
    BY <1>3, <2>1
  <2>4. m - 1 \in Nat /\ m - 1 < m
    BY <2>3
  <2>5. m - 1 \notin B
    BY <2>2, <2>3, <2>4 DEF OpToRel
  <2>6. PICK h : Approx(h, m - 1)
    BY <2>4, <2>5 DEF B
  <2>7. Approx(Extended(h), m - 1 + 1)
    BY <1>2, <2>4, <2>6
  <2>8. m - 1 + 1 = m
    BY <2>3
  <2>9. Approx(Extended(h), m)
    BY <2>7, <2>8
  <2> HIDE DEF Approx, Extended
  <2> QED
    BY <2>9 DEF B
<1>5. PICK h : Approx(h, N + 1)
  <2>1. N + 1 \in Nat
    OBVIOUS
  <2> HIDE DEF Approx
  <2> QED
    BY <1>4, <2>1
<1> DEFINE g == Extended(h)
<1>6. \A t \in Stretches(text) : g[t] = h[t]
  BY <1>1, <1>5
<1>7. g = [t \in Stretches(text) |-> Reading(text, h, t)]
  OBVIOUS
<1> HIDE DEF g
<1>8. \A t \in Stretches(text) : Reading(text, g, t) = Reading(text, h, t)
  BY <1>6, ReadingIsLocal
<1>9. IsReading(text, g)
  BY <1>7, <1>8 DEF IsReading
<1>10. ButlerReads(text) = CHOOSE r : IsReading(text, r)
  BY DEF ButlerReads, Reading, IsReading
<1> QED
  BY <1>9, <1>10

\* An exposure satisfies all the predicates between two words "or" of a stretch.
HoldsIn(text, a, b, i) ==
    \E l \in a .. b :
        /\ l = a \/ text[l - 1].kind = "or"
        /\ \A j \in l .. b :
              (text[j].kind = "predicate" /\ \A m \in l .. j : text[m].kind # "or")
                => Satisfies(i, text[j])

\* A stretch that begins and ends with a predicate.
Spans(text, a, b) ==
    /\ a \in 1 .. Len(text) /\ b \in 1 .. Len(text) /\ a <= b
    /\ text[a].kind = "predicate" /\ text[b].kind = "predicate"

FindsRightly(text, a, b) ==
    \A i \in Ids : i \in ButlerReads(text)[<<a, b>>] <=> HoldsIn(text, a, b, i)

LEMMA NoParentheses ==
  ASSUME NEW text, Alternates(text), NEW a \in 1 .. Len(text), NEW b \in 1 .. Len(text), NEW kind
  PROVE  Tops(text, <<a, b>>, kind) = {j \in a .. b : text[j].kind = kind}
<1>1. \A j \in a .. b : \A m \in a .. j : m \in 1 .. Len(text) /\ text[m].kind \in {"predicate", "and", "or"}
  BY DEF Alternates
<1>2. \A j \in a .. b : Depth(text, a, j) = 0
  <2> TAKE j \in a .. b
  <2> DEFINE L == {m \in a .. j : text[m].kind = "("}
             R == {m \in a .. j : text[m].kind = ")"}
  <2>1. L = {} /\ R = {} /\ Depth(text, a, j) = Cardinality(L) - Cardinality(R)
    BY <1>1 DEF Depth
  <2> HIDE DEF L, R
  <2>2. Cardinality(L) = 0 /\ Cardinality(R) = 0
    BY <2>1, FS_EmptySet
  <2> QED
    BY <2>1, <2>2
<1> QED
  BY <1>2 DEF Tops

ShorterAreRight(text, n) ==
    \A c, d : Spans(text, c, d) /\ d - c < n => FindsRightly(text, c, d)

LEMMA StretchIsRight ==
  ASSUME NEW text, Alternates(text), NEW a, NEW b, Spans(text, a, b), ShorterAreRight(text, b - a)
  PROVE  FindsRightly(text, a, b)
<1> DEFINE h == ButlerReads(text)
           s == <<a, b>>
           ors == Tops(text, s, "or")
           ands == Tops(text, s, "and")
           WordKind(j) == text[j].kind
<1>1. /\ Len(text) \in Nat /\ a \in 1 .. Len(text) /\ b \in 1 .. Len(text) /\ a <= b
      /\ WordKind(a) = "predicate" /\ WordKind(b) = "predicate"
  BY DEF Alternates, Spans
<1>2. s \in Stretches(text) /\ s[1] = a /\ s[2] = b
  BY <1>1 DEF Stretches
<1>3. /\ ors # {} => LET k == CHOOSE j \in ors : TRUE
                     IN  h[<<a, b>>] = h[<<a, k - 1>>] \union h[<<k + 1, b>>]
      /\ ors = {} /\ ands # {} => LET k == CHOOSE j \in ands : TRUE
                                  IN  h[<<a, b>>] = h[<<a, k - 1>>] \intersect h[<<k + 1, b>>]
      /\ ors = {} /\ ands = {} => h[<<a, b>>] = {i \in Ids : Satisfies(i, text[a])}
  <2>1. IsReading(text, h)
    BY <1>1, TextsAreRead
  <2> HIDE DEF h, s
  <2>2. h[s] = Reading(text, h, s)
    BY <1>2, <2>1 DEF IsReading
  <2>3. h[s] = h[<<a, b>>]
    BY DEF s
  <2>4. ~(b < a) /\ WordKind(a) # "("
    BY <1>1
  <2> HIDE DEF ors, ands
  <2>5. Reading(text, h, s) =
          IF s[2] < s[1] THEN {}
          ELSE IF ors # {} THEN LET k == CHOOSE j \in ors : TRUE
                                IN  h[<<s[1], k - 1>>] \union h[<<k + 1, s[2]>>]
          ELSE IF ands # {} THEN LET k == CHOOSE j \in ands : TRUE
                                 IN  h[<<s[1], k - 1>>] \intersect h[<<k + 1, s[2]>>]
          ELSE IF text[s[1]].kind = "(" THEN h[<<s[1] + 1, s[2] - 1>>]
          ELSE {i \in Ids : Satisfies(i, text[s[1]])}
    BY DEF Reading, ors, ands
  <2>6. ors # {} => Reading(text, h, s) = LET k == CHOOSE j \in ors : TRUE
                                          IN  h[<<a, k - 1>>] \union h[<<k + 1, b>>]
    BY <1>2, <2>4, <2>5
  <2>7. ors = {} /\ ands # {} => Reading(text, h, s) = LET k == CHOOSE j \in ands : TRUE
                                                       IN  h[<<a, k - 1>>] \intersect h[<<k + 1, b>>]
    BY <1>2, <2>4, <2>5
  <2>8. ors = {} /\ ands = {} => Reading(text, h, s) = {i \in Ids : Satisfies(i, text[a])}
    BY <1>2, <2>4, <2>5
  <2> QED
    BY <2>2, <2>3, <2>6, <2>7, <2>8
<1>4. ors = {j \in a .. b : text[j].kind = "or"} /\ ands = {j \in a .. b : text[j].kind = "and"}
  BY <1>1, NoParentheses
<1> HIDE DEF ors, ands
<1>5. \A k \in ors \union ands :
        /\ k \in a .. b /\ WordKind(k) # "predicate"
        /\ Spans(text, a, k - 1) /\ Spans(text, k + 1, b) /\ k - 1 - a < b - a /\ b - (k + 1) < b - a
  <2> TAKE k \in ors \union ands
  <2>1. k \in a .. b /\ WordKind(k) # "predicate"
    BY <1>4
  <2>2. a < k /\ k < b
    BY <1>1, <2>1
  <2>3. WordKind(k - 1) = "predicate" /\ WordKind(k + 1) = "predicate"
    BY <1>1, <2>1 DEF Alternates
  <2> QED
    BY <1>1, <2>1, <2>2, <2>3 DEF Spans
<1>6. \A k \in ors \union ands : FindsRightly(text, a, k - 1) /\ FindsRightly(text, k + 1, b)
  BY <1>5 DEF ShorterAreRight
<1>7. CASE ors # {}
  <2> DEFINE k == CHOOSE j \in ors : TRUE
  <2>1. k \in ors
    BY <1>7
  <2> HIDE DEF k
  <2>2. h[<<a, b>>] = h[<<a, k - 1>>] \union h[<<k + 1, b>>]
    <3> HIDE DEF h
    <3> QED
      BY <1>3, <1>7 DEF k
  <2>3. k \in a .. b /\ WordKind(k) = "or" /\ a < k /\ k < b /\ k \in Int
    BY <1>1, <1>4, <2>1
  <2>4. ASSUME NEW i \in Ids
        PROVE  HoldsIn(text, a, b, i) <=> HoldsIn(text, a, k - 1, i) \/ HoldsIn(text, k + 1, b, i)
    <3>1. ASSUME HoldsIn(text, a, k - 1, i) PROVE HoldsIn(text, a, b, i)
      <4>1. PICK l \in a .. k - 1 :
              /\ l = a \/ WordKind(l - 1) = "or"
              /\ \A j \in l .. k - 1 :
                   (WordKind(j) = "predicate" /\ \A m \in l .. j : WordKind(m) # "or") => Satisfies(i, text[j])
        BY <3>1 DEF HoldsIn
      <4>2. \A j \in l .. b : (\A m \in l .. j : WordKind(m) # "or") => j \in l .. k - 1
        <5> TAKE j \in l .. b
        <5>1. l \in Int /\ j \in Int /\ l <= j /\ l < k
          BY <1>1, <2>3
        <5>2. k <= j => k \in l .. j
          BY <2>3, <5>1
        <5>3. ~(k <= j) => j \in l .. k - 1
          BY <2>3, <5>1
        <5> QED
          BY <2>3, <5>2, <5>3
      <4>3. l \in a .. b
        BY <1>1, <2>3
      <4> HIDE DEF k
      <4> QED
        BY <4>1, <4>2, <4>3 DEF HoldsIn
    <3>2. ASSUME HoldsIn(text, k + 1, b, i) PROVE HoldsIn(text, a, b, i)
      <4>1. PICK l \in k + 1 .. b :
              /\ l = k + 1 \/ WordKind(l - 1) = "or"
              /\ \A j \in l .. b :
                   (WordKind(j) = "predicate" /\ \A m \in l .. j : WordKind(m) # "or") => Satisfies(i, text[j])
        BY <3>2 DEF HoldsIn
      <4>2. WordKind(l - 1) = "or"
        <5>1. l = k + 1 => l - 1 = k
          BY <2>3
        <5> QED
          BY <2>3, <4>1, <5>1
      <4>3. l \in a .. b
        BY <1>1, <2>3
      <4> QED
        BY <4>1, <4>2, <4>3 DEF HoldsIn
    <3>3. ASSUME HoldsIn(text, a, b, i) PROVE HoldsIn(text, a, k - 1, i) \/ HoldsIn(text, k + 1, b, i)
      <4>1. PICK l \in a .. b :
              /\ l = a \/ WordKind(l - 1) = "or"
              /\ \A j \in l .. b :
                   (WordKind(j) = "predicate" /\ \A m \in l .. j : WordKind(m) # "or") => Satisfies(i, text[j])
        BY <3>3 DEF HoldsIn
      <4>2. l # k
        <5>1. k - 1 \in 1 .. Len(text) /\ WordKind(k - 1) = "predicate"
          BY <1>5, <2>1 DEF Spans
        <5> QED
          BY <2>3, <4>1, <5>1
      <4>3. CASE l < k
        <5>1. l \in a .. k - 1 /\ \A j \in l .. k - 1 : j \in l .. b
          BY <1>1, <2>3, <4>3
        <5>2. HoldsIn(text, a, k - 1, i)
          BY <4>1, <5>1 DEF HoldsIn
        <5> QED
          BY <5>2
      <4>4. CASE l > k
        <5>1. l \in k + 1 .. b /\ (l = k + 1 \/ l # a)
          BY <1>1, <2>3, <4>4
        <5>2. HoldsIn(text, k + 1, b, i)
          BY <2>3, <4>1, <4>4, <5>1 DEF HoldsIn
        <5> QED
          BY <5>2
      <4> QED
        BY <1>1, <2>3, <4>2, <4>3, <4>4
    <3> QED
      BY <3>1, <3>2, <3>3
  <2>5. FindsRightly(text, a, k - 1) /\ FindsRightly(text, k + 1, b)
    BY <1>6, <2>1
  <2> QED
    BY <2>2, <2>4, <2>5 DEF FindsRightly
<1>8. CASE ors = {} /\ ands # {}
  <2> DEFINE k == CHOOSE j \in ands : TRUE
  <2>1. k \in ands
    BY <1>8
  <2> HIDE DEF k
  <2>2. h[<<a, b>>] = h[<<a, k - 1>>] \intersect h[<<k + 1, b>>]
    <3> HIDE DEF h
    <3> QED
      BY <1>3, <1>8 DEF k
  <2>3. k \in a .. b /\ WordKind(k) = "and" /\ a < k /\ k < b /\ k \in Int
    BY <1>1, <1>4, <2>1
  <2>4. \A j \in a .. b : WordKind(j) # "or"
    BY <1>4, <1>8
  <2>5. ASSUME NEW i \in Ids
        PROVE  /\ HoldsIn(text, a, b, i)
                    <=> \A j \in a .. b : WordKind(j) = "predicate" => Satisfies(i, text[j])
               /\ HoldsIn(text, a, k - 1, i)
                    <=> \A j \in a .. k - 1 : WordKind(j) = "predicate" => Satisfies(i, text[j])
               /\ HoldsIn(text, k + 1, b, i)
                    <=> \A j \in k + 1 .. b : WordKind(j) = "predicate" => Satisfies(i, text[j])
    <3>1. ASSUME NEW c \in a .. b, NEW d \in a .. b, c <= d, c = a \/ WordKind(c - 1) # "or"
          PROVE  HoldsIn(text, c, d, i)
                    <=> \A j \in c .. d : WordKind(j) = "predicate" => Satisfies(i, text[j])
      <4>1. \A j \in c .. d : j \in a .. b
        BY <1>1
      <4>2. \A j \in c .. d : \A m \in c .. j : WordKind(m) # "or"
        <5>1. \A j \in c .. d : \A m \in c .. j : m \in a .. b
          BY <1>1
        <5> QED
          BY <2>4, <5>1
      <4>3. \A l \in c .. d : l = c \/ WordKind(l - 1) # "or"
        <5>1. \A l \in c .. d : l # c => l - 1 \in a .. b
          BY <1>1, <3>1
        <5> QED
          BY <2>4, <5>1
      <4>4. c \in c .. d
        BY <1>1, <3>1
      <4> QED
        BY <4>2, <4>3, <4>4 DEF HoldsIn
    <3>2. /\ a \in a .. b /\ b \in a .. b /\ k - 1 \in a .. b /\ k + 1 \in a .. b
          /\ a <= k - 1 /\ k + 1 <= b /\ k + 1 - 1 = k
      BY <1>1, <2>3
    <3> QED
      BY <1>1, <2>3, <3>1, <3>2
  <2>6. \A j \in a .. b : WordKind(j) = "predicate" => j \in a .. k - 1 \/ j \in k + 1 .. b
    BY <1>1, <2>3
  <2>7. (\A j \in a .. k - 1 : j \in a .. b) /\ (\A j \in k + 1 .. b : j \in a .. b)
    BY <1>1, <2>3
  <2>8. FindsRightly(text, a, k - 1) /\ FindsRightly(text, k + 1, b)
    BY <1>6, <2>1
  <2>9. \A i \in Ids : HoldsIn(text, a, b, i) <=> HoldsIn(text, a, k - 1, i) /\ HoldsIn(text, k + 1, b, i)
    BY <2>5, <2>6, <2>7
  <2> QED
    BY <2>2, <2>8, <2>9 DEF FindsRightly
<1>9. CASE ors = {} /\ ands = {}
  <2>1. \A j \in a .. b : j \in 1 .. Len(text) /\ WordKind(j) = "predicate"
    <3>1. \A j \in a .. b : j \in 1 .. Len(text)
      BY <1>1
    <3>2. \A j \in 1 .. Len(text) : WordKind(j) \in {"predicate", "and", "or"}
      BY DEF Alternates
    <3> QED
      BY <1>4, <1>9, <3>1, <3>2
  <2>2. a = b
    <3> SUFFICES ASSUME a < b PROVE FALSE
      BY <1>1
    <3>1. a + 1 \in a .. b /\ a < Len(text)
      BY <1>1
    <3>2. WordKind(a + 1) # "predicate"
      BY <1>1, <3>1 DEF Alternates
    <3> QED
      BY <2>1, <3>1, <3>2
  <2>3. h[<<a, b>>] = {i \in Ids : Satisfies(i, text[a])}
    <3> HIDE DEF h
    <3> QED
      BY <1>3, <1>9
  <2>4. \A i \in Ids : HoldsIn(text, a, b, i) <=> Satisfies(i, text[a])
    <3>1. a .. b = {a} /\ \A j \in {a} : a .. j = {a}
      BY <1>1, <2>2
    <3> QED
      BY <1>1, <3>1 DEF HoldsIn
  <2> QED
    BY <2>3, <2>4 DEF FindsRightly
<1> QED
  BY <1>7, <1>8, <1>9

LEMMA StretchesAreRight ==
  ASSUME NEW text, Alternates(text)
  PROVE  \A a, b : Spans(text, a, b) => FindsRightly(text, a, b)
<1> DEFINE B == {n \in Nat : \E a, b : Spans(text, a, b) /\ b - a = n /\ ~FindsRightly(text, a, b)}
<1>1. \A a, b : Spans(text, a, b) => b - a \in Nat
  BY DEF Spans, Alternates
<1>2. B = {}
  <2> SUFFICES ASSUME B # {} PROVE FALSE
    OBVIOUS
  <2>1. B \subseteq Nat
    OBVIOUS
  <2> HIDE DEF B
  <2>2. PICK m \in B : \A n \in B : ~(<<n, m>> \in OpToRel(<, Nat))
    BY <2>1, NatLessThanWellFounded, WFMin
  <2>3. m \in Nat /\ \A n \in B : ~(n < m)
    BY <2>1, <2>2 DEF OpToRel
  <2>4. PICK a, b : Spans(text, a, b) /\ b - a = m /\ ~FindsRightly(text, a, b)
    BY DEF B
  <2>5. ShorterAreRight(text, m)
    <3> SUFFICES ASSUME NEW c, NEW d, Spans(text, c, d), d - c < m, ~FindsRightly(text, c, d)
                 PROVE  FALSE
      BY DEF ShorterAreRight
    <3>1. d - c \in B
      BY <1>1 DEF B
    <3> QED
      BY <2>3, <3>1
  <2>6. FindsRightly(text, a, b)
    BY <2>4, <2>5, StretchIsRight
  <2> QED
    BY <2>4, <2>6
<1> QED
  BY <1>1, <1>2

LEMMA SqlIsRight ==
  ASSUME NEW text \in Seq(Words), text # <<>>, SqlSupports(text), NEW i
  PROVE  SqlHolds(text, i) <=> HoldsIn(text, 1, Len(text), i)
<1> DEFINE N == Len(text)
           WordKind(j) == text[j].kind
           D == Cuts(text, 1, N, "or")
           P(l, m) == Split(text, <<l, m>>, "and")
<1>1. /\ N \in Nat /\ N >= 1
      /\ \A j \in 1 .. N : WordKind(j) \in {"predicate", "and", "or"}
      /\ \A j \in 1 .. N : (j < N /\ WordKind(j) = "predicate") => WordKind(j + 1) # "predicate"
  BY SupportedAlternates DEF Alternates
<1>2. \A s \in Split(text, <<1, N>>, "or") : \A part \in Split(text, s, "and") :
         part[1] = part[2] /\ WordKind(part[1]) = "predicate"
  BY DEF SqlSupports, SqlPredicate
<1>3. SqlHolds(text, i) <=>
        \E s \in Split(text, <<1, N>>, "or") : \A part \in Split(text, s, "and") : Satisfies(i, text[part[1]])
  BY DEF SqlHolds
<1>4. /\ D = {0, N + 1} \union {j \in 1 .. N : WordKind(j) = "or"}
      /\ \A c \in D : c \in 0 .. N + 1
  BY <1>1 DEF Cuts
<1>p. \A s \in Split(text, <<1, N>>, "or") : \E c, d \in D :
        s = <<c + 1, d - 1>> /\ c < d /\ \A e \in D : e <= c \/ e >= d
  <2>1. N \in Nat /\ 1 \in Nat \ {0}
    BY <1>1
  <2> HIDE DEF N
  <2> QED
    BY <2>1, PartsOfSplit
<1>5. ASSUME NEW l, NEW m, <<l, m>> \in Split(text, <<1, N>>, "or")
      PROVE  /\ l \in 1 .. N + 1 /\ m \in 0 .. N
             /\ l - 1 \in D /\ m + 1 \in D /\ \A e \in D : e <= l - 1 \/ e >= m + 1
  <2>1. PICK c, d \in D : /\ <<l, m>> = <<c + 1, d - 1>> /\ c < d
                          /\ \A e \in D : e <= c \/ e >= d
    BY <1>5, <1>p
  <2>2. l = c + 1 /\ m = d - 1
    BY <2>1
  <2> QED
    BY <1>1, <1>4, <2>1, <2>2
<1>6. ASSUME NEW l, NEW m, <<l, m>> \in Split(text, <<1, N>>, "or"),
             \A part \in P(l, m) : Satisfies(i, text[part[1]])
      PROVE  HoldsIn(text, 1, N, i)
  <2>1. /\ l \in 1 .. N + 1 /\ m \in 0 .. N
        /\ l - 1 \in D /\ m + 1 \in D /\ \A e \in D : e <= l - 1 \/ e >= m + 1
    BY <1>5, <1>6
  <2>2. l \in 1 .. N
    <3> SUFFICES ASSUME l = N + 1 PROVE FALSE
      BY <1>1, <2>1
    <3>1. <<l, m>> \in Split(text, <<1, N>>, "or") /\ l - 1 = N /\ N \in D
      BY <1>1, <1>6, <2>1
    <3>2. m + 1 = N + 1 \/ m + 1 <= N
      BY <1>1, <2>1
    <3>3. PICK c, d \in D : <<l, m>> = <<c + 1, d - 1>> /\ c < d
      BY <1>6, <1>p
    <3>4. WordKind(N) = "or"
      BY <1>1, <1>4, <3>1
    <3> QED
      BY <1>1, <3>4, SupportedAlternates DEF Alternates
  <2>3. l = 1 \/ WordKind(l - 1) = "or"
    BY <1>1, <1>4, <2>1
  <2>4. ASSUME NEW j \in l .. N, WordKind(j) = "predicate", \A k \in l .. j : WordKind(k) # "or"
        PROVE  Satisfies(i, text[j])
    <3>1. j <= m
      <4> SUFFICES ASSUME m + 1 <= j PROVE FALSE
        BY <2>1, <2>2
      <4>1. m + 1 \in l .. j
        <5>1. l <= m + 1
          <6>1. PICK c, d \in D : <<l, m>> = <<c + 1, d - 1>> /\ c < d
            BY <1>6, <1>p
          <6>2. l = c + 1 /\ m = d - 1 /\ c \in 0 .. N + 1 /\ d \in 0 .. N + 1
            BY <1>4, <6>1
          <6> QED
            BY <6>1, <6>2
        <5> QED
          BY <2>1, <2>2, <5>1
      <4>2. m + 1 \in 1 .. N /\ WordKind(m + 1) # "or"
        BY <1>1, <2>1, <2>2, <2>4, <4>1
      <4> QED
        BY <1>1, <1>4, <2>1, <4>2
    <3> DEFINE E == Cuts(text, l, m, "and")
    <3>2. /\ E = {l - 1, m + 1} \union {k \in l .. m : WordKind(k) = "and"}
          /\ j \in l .. m /\ j \in 1 .. N
      BY <2>1, <2>2, <3>1 DEF Cuts
    <3> HIDE DEF E
    <3>3. j - 1 \in E
      <4>1. CASE j = l
        BY <3>2, <4>1
      <4>2. CASE j # l
        <5>1. j - 1 \in l .. j /\ j - 1 \in l .. m /\ j - 1 \in 1 .. N /\ j - 1 < N /\ j - 1 + 1 = j
          BY <1>1, <2>1, <2>2, <3>2, <4>2
        <5>2. WordKind(j - 1) # "predicate" /\ WordKind(j - 1) # "or"
          BY <1>1, <2>4, <5>1
        <5>3. WordKind(j - 1) = "and"
          BY <1>1, <5>1, <5>2
        <5> QED
          BY <3>2, <5>1, <5>3
      <4> QED
        BY <4>1, <4>2
    <3>4. j + 1 \in E
      <4>1. CASE j = m
        BY <3>2, <4>1
      <4>2. CASE j # m
        <5>1. j + 1 \in l .. m /\ j + 1 \in 1 .. N /\ j < N
          BY <1>1, <2>1, <2>2, <3>2, <4>2
        <5>2. WordKind(j + 1) # "predicate"
          BY <1>1, <2>4, <3>2, <5>1
        <5>3. WordKind(j + 1) # "or"
          <6>1. ~(j + 1 <= l - 1 \/ j + 1 >= m + 1)
            BY <2>1, <2>2, <5>1
          <6>2. j + 1 \notin D
            BY <2>1, <6>1
          <6> QED
            BY <1>4, <5>1, <6>2
        <5>4. WordKind(j + 1) = "and"
          BY <1>1, <5>1, <5>2, <5>3
        <5> QED
          BY <3>2, <5>1, <5>4
      <4> QED
        BY <4>1, <4>2
    <3>5. \A e \in E : e <= j - 1 \/ e >= j + 1
      <4>1. j \notin E
        <5>1. j # l - 1 /\ j # m + 1
          BY <2>1, <2>2, <3>2
        <5> QED
          BY <2>4, <3>2, <5>1
      <4>2. \A e \in E : e \in Int
        BY <2>1, <2>2, <3>2
      <4> QED
        BY <3>2, <4>1, <4>2
    <3>6. <<j - 1 + 1, j + 1 - 1>> \in P(l, m)
      <4>1. l \in Nat \ {0} /\ m \in Nat /\ j - 1 < j + 1
        BY <2>1, <2>2, <3>2
      <4> QED
        BY <3>3, <3>4, <3>5, <4>1, PartsOfSplit DEF E
    <3>7. <<j - 1 + 1, j + 1 - 1>>[1] = j
      BY <3>2
    <3> QED
      BY <1>6, <3>6, <3>7
  <2> QED
    BY <2>2, <2>3, <2>4 DEF HoldsIn
<1>7. ASSUME HoldsIn(text, 1, N, i)
      PROVE  \E s \in Split(text, <<1, N>>, "or") : \A part \in Split(text, s, "and") : Satisfies(i, text[part[1]])
  <2>1. PICK l \in 1 .. N :
          /\ l = 1 \/ WordKind(l - 1) = "or"
          /\ \A j \in l .. N :
                (WordKind(j) = "predicate" /\ \A k \in l .. j : WordKind(k) # "or") => Satisfies(i, text[j])
    BY <1>7 DEF HoldsIn
  <2>2. PICK d \in D : l <= d /\ \A e \in D : e < l \/ e >= d
    <3> DEFINE M == N + 1
    <3>1. M \in Nat /\ D \in SUBSET (0 .. M) /\ 0 \in D /\ M \in D /\ l \in 0 .. M
      BY <1>1, <1>4
    <3> HIDE DEF M, D
    <3> QED
      BY <3>1, CutsAround
  <2> DEFINE m == d - 1
             s == <<l, m>>
  <2>3. d \in 1 .. N + 1 /\ m \in 0 .. N /\ l - 1 \in D
    BY <1>1, <1>4, <2>1, <2>2
  <2>4. s \in Split(text, <<1, N>>, "or")
    <3>1. \A e \in D : e <= l - 1 \/ e >= d
      BY <1>4, <2>1, <2>2
    <3>2. <<l - 1 + 1, d - 1>> \in Split(text, <<1, N>>, "or")
      BY <1>1, <2>1, <2>2, <2>3, <3>1, PartsOfSplit
    <3>3. l - 1 + 1 = l
      BY <2>1
    <3> QED
      BY <3>2, <3>3
  <2>5. ASSUME NEW part \in P(l, m)
        PROVE  Satisfies(i, text[part[1]])
    <3> DEFINE E == Cuts(text, l, m, "and")
    <3>1. PICK c, e \in E : part = <<c + 1, e - 1>> /\ c < e
      BY <2>1, <2>3, PartsOfSplit
    <3>2. E = {l - 1, m + 1} \union {k \in l .. m : WordKind(k) = "and"}
      BY DEF Cuts
    <3>3. part[1] = c + 1 /\ part[1] = part[2] /\ part[2] = e - 1 /\ WordKind(part[1]) = "predicate"
      BY <1>2, <2>4, <3>1
    <3>4. c \in l - 1 .. m + 1 /\ e \in l - 1 .. m + 1 /\ l <= d /\ l \in Int /\ d \in Int
      <4>1. l - 1 <= m + 1
        BY <2>1, <2>2, <2>3
      <4> QED
        BY <2>1, <2>2, <2>3, <3>2, <4>1
    <3> DEFINE j == part[1]
    <3>5. j \in l .. m /\ j \in l .. N /\ \A k \in l .. j : k \in 1 .. N /\ ~(k < l \/ k >= d)
      BY <1>1, <2>1, <2>3, <3>1, <3>3, <3>4
    <3>6. \A k \in l .. j : WordKind(k) # "or"
      BY <1>4, <2>2, <3>5
    <3> QED
      BY <2>1, <3>3, <3>5, <3>6
  <2> QED
    BY <2>4, <2>5
<1>8. \A s \in Split(text, <<1, N>>, "or") : \E l, m : s = <<l, m>>
  BY <1>p
<1> QED
  BY <1>3, <1>6, <1>7, <1>8

\* What the SQL supports it reads as the Butler does.
LEMMA SqlReadsTexts ==
  ASSUME NEW text \in Seq(Words), SqlSupports(text), NEW i \in Ids
  PROVE  SqlHolds(text, i) <=> ButlerHolds(text, i)
<1>1. CASE text = <<>>
  BY <1>1 DEF SqlHolds, ButlerHolds
<1>2. CASE text # <<>>
  <2>1. Alternates(text)
    BY <1>2, SupportedAlternates
  <2>2. Spans(text, 1, Len(text))
    BY <2>1 DEF Alternates, Spans
  <2>3. FindsRightly(text, 1, Len(text))
    BY <2>1, <2>2, StretchesAreRight
  <2>4. i \in ButlerReads(text)[<<1, Len(text)>>] <=> HoldsIn(text, 1, Len(text), i)
    BY <2>3 DEF FindsRightly
  <2>5. SqlHolds(text, i) <=> HoldsIn(text, 1, Len(text), i)
    BY <1>2, SqlIsRight
  <2> QED
    BY <1>2, <2>4, <2>5 DEF ButlerHolds
<1> QED
  BY <1>1, <1>2

LEMMA PredicatesAreWords ==
  /\ \A n \in Nat : \A f \in {"day_obs", "exposure"} : \A o \in {"=", ">=", "<"} :
       Predicate(f, o, n) \in Words
  /\ \A w \in Words : <<w>> \in Seq(Words) /\ Len(<<w>>) = 1 /\ <<w>>[1] = w /\ <<w>> # <<>>
<1>1. ASSUME NEW n \in Nat, NEW f \in {"day_obs", "exposure"}, NEW o \in {"=", ">=", "<"}
      PROVE  Predicate(f, o, n) \in Words
  BY DEF Predicate, Words
<1>2. ASSUME NEW w \in Words
      PROVE  <<w>> \in Seq(Words) /\ Len(<<w>>) = 1 /\ <<w>>[1] = w /\ <<w>> # <<>>
  <2>1. <<w>> \in Seq(Words) /\ Len(<<w>>) = 1 /\ <<w>>[1] = w
    OBVIOUS
  <2>2. Len(<<>>) = 0
    OBVIOUS
  <2> QED
    BY <2>1, <2>2
<1> QED
  BY <1>1, <1>2

LEMMA TextsAreWords ==
  ASSUME HeldOK, NEW q, q.latest \/ q.where \in Seq(Words), NEW c \in Collections
  PROVE  WhereText(q, c) \in Seq(Words)
<1> DEFINE there == Held(CollectionsOf(c, q.type))
           w == Predicate("day_obs", "=", LatestDay(there))
<1>1. there \subseteq Ids
  BY FindsAreExposures
<1>2. WhereText(q, c) = IF ~q.latest THEN q.where ELSE IF there = {} THEN <<>> ELSE <<w>>
  BY DEF WhereText
<1>3. <<>> \in Seq(Words)
  OBVIOUS
<1>4. there # {} => <<w>> \in Seq(Words)
  <2>1. there # {} => LatestDay(there) \in Nat
    BY <1>1, LatestDayOf
  <2>2. there # {} => w \in Words
    BY <2>1, PredicatesAreWords
  <2> HIDE DEF w, there
  <2> QED
    BY <2>2, PredicatesAreWords
<1> HIDE DEF there, w
<1> QED
  BY <1>2, <1>3, <1>4

LEMMA SqlFindsTheSame ==
  ASSUME HeldOK, NEW q, q.latest \/ q.where \in Seq(Words), NEW c \in Collections,
         SqlSupports(WhereText(q, c))
  PROVE  SqlFinds(q, c) = ButlerFinds(q, c)
<1> DEFINE text == WhereText(q, c)
           colls == CollectionsOf(c, q.type)
<1>1. text \in Seq(Words) /\ colls \subseteq RunCollections /\ Held(colls) \subseteq Ids
  BY TextsAreWords, FindsAreExposures
<1>2. \A i \in Ids : SqlHolds(text, i) <=> ButlerHolds(text, i)
  <2> TAKE i \in Ids
  <2>1. SqlSupports(text)
    OBVIOUS
  <2> HIDE DEF text
  <2> QED
    BY <1>1, <2>1, SqlReadsTexts
<1>3. \A i : i \in Held(colls) <=> \E r \in colls : i \in held[r]
  BY DEF Held
<1>4. SqlFinds(q, c) = {i \in Ids : (\E r \in colls : i \in held[r]) /\ SqlHolds(text, i)}
  BY DEF SqlFinds
<1>5. ButlerFinds(q, c) = {i \in Held(colls) : ButlerHolds(text, i)}
  BY DEF ButlerFinds
<1> HIDE DEF text, colls
<1> QED
  BY <1>1, <1>2, <1>3, <1>4, <1>5

LEMMA SqlReadsRightly == HeldOK => SqlIsButler
<1> SUFFICES ASSUME HeldOK, NEW q \in Queries, NEW c \in RunCollections, UsesSql(q, c)
             PROVE  SqlFinds(q, c) = ButlerFinds(q, c)
  BY DEF SqlIsButler
<1>1. q.where \in Seq(Words) /\ c \in Collections /\ SqlSupports(WhereText(q, c))
  BY QueriesAssumption DEF Queries, Collections, UsesSql
<1> QED
  BY <1>1, SqlFindsTheSame

-----------------------------------------------------------------------------
\* A beginning of a list has the pages of the list that it covers.
LEMMA SamePage ==
  ASSUME NEW X, NEW order, LinearOrder(order, X), NEW A \in SUBSET X, IsFiniteSet(A),
         NEW U \in SUBSET A, NEW offset \in Nat, NEW size \in Nat,
         \A x \in A : PlaceIn(A, order, x) < offset + size => x \in U
  PROVE  PageOf(InOrder(U, order), offset, size) = PageOf(InOrder(A, order), offset, size)
<1> DEFINE n == offset + size
           u == PageOf(InOrder(U, order), offset, size)
           a == PageOf(InOrder(A, order), offset, size)
           PU(x) == PlaceIn(U, order, x)
           PA(x) == PlaceIn(A, order, x)
<1>1. IsFiniteSet(U) /\ U \in SUBSET X /\ n \in Nat
  BY FS_Subset
<1>2. \A x : PU(x) \in Nat /\ PA(x) \in Nat
  BY <1>1, PlaceBounds
<1>3. /\ u \in Seq(U) /\ \A k \in 1 .. Len(u) : PU(u[k]) = offset + k - 1
      /\ Range(u) = {x \in U : offset <= PU(x) /\ PU(x) < n}
  BY <1>1, PageOfList
<1>4. /\ a \in Seq(A) /\ \A k \in 1 .. Len(a) : PA(a[k]) = offset + k - 1
      /\ Range(a) = {x \in A : offset <= PA(x) /\ PA(x) < n}
  <2>1. A \in SUBSET X /\ IsFiniteSet(A)
    OBVIOUS
  <2>2. a \in Seq(A)
    BY <2>1, PageOfList
  <2>3. \A k \in 1 .. Len(a) : PA(a[k]) = offset + k - 1
    BY <2>1, PageOfList
  <2>4. Range(a) = {x \in A : offset <= PA(x) /\ PA(x) < n}
    BY <2>1, PageOfList
  <2> QED
    BY <2>2, <2>3, <2>4
<1> HIDE DEF n, u, a, PU, PA
<1>5. ASSUME NEW x \in A, PA(x) < n
      PROVE  x \in U /\ PU(x) = PA(x)
  <2>1. x \in U
    BY <1>5 DEF n, PA
  <2>2. \A y \in A : <<y, x>> \in order => y \in U
    <3> TAKE y \in A
    <3> HAVE <<y, x>> \in order
    <3>1. x \in X
      OBVIOUS
    <3>2. PA(y) < PA(x)
      BY <3>1, PlacesFollow DEF PA
    <3>3. PA(y) < n
      BY <1>1, <1>2, <1>5, <3>2
    <3> QED
      BY <3>3 DEF n, PA
  <2>3. {y \in A : <<y, x>> \in order} = {y \in U : <<y, x>> \in order}
    BY <2>2
  <2> QED
    BY <2>1, <2>3 DEF PU, PA, PlaceIn
<1>6. ASSUME NEW x \in U, PU(x) < n
      PROVE  PA(x) < n
  <2> SUFFICES ASSUME PA(x) >= n PROVE FALSE
    BY <1>1, <1>2
  <2>1. {y \in A : PlaceIn(A, order, y) < n} \subseteq U
    BY DEF n
  <2>2. x \in A /\ x \in X /\ PlaceIn(A, order, x) >= n
    BY DEF PA
  <2>3. PlaceIn(U, order, x) >= n
    BY <1>1, <2>1, <2>2, BehindTheBeginning
  <2> QED
    BY <1>1, <1>2, <1>6, <2>3 DEF PU
<1>7. Range(u) = Range(a) /\ \A x \in Range(u) : PU(x) = PA(x)
  BY <1>3, <1>4, <1>5, <1>6
<1>8. /\ Len(u) \in Nat /\ Len(a) \in Nat
      /\ u \in [1 .. Len(u) -> U] /\ a \in [1 .. Len(a) -> A]
      /\ Range(u) = {u[k] : k \in 1 .. Len(u)} /\ Range(a) = {a[k] : k \in 1 .. Len(a)}
  <2>1. Len(u) \in Nat /\ Len(a) \in Nat
    BY <1>3, <1>4, LenProperties
  <2>2. u \in [1 .. Len(u) -> U] /\ a \in [1 .. Len(a) -> A]
    BY <1>3, <1>4, LenProperties, ElementOfSeq
  <2>3. Range(u) = {u[k] : k \in 1 .. Len(u)} /\ Range(a) = {a[k] : k \in 1 .. Len(a)}
    BY <1>3, <1>4, RangeEquality
  <2> QED
    BY <2>1, <2>2, <2>3
<1>9. \A k \in 1 .. Len(u) : k \in 1 .. Len(a) /\ u[k] = a[k]
  <2> TAKE k \in 1 .. Len(u)
  <2>1. u[k] \in Range(u) /\ PU(u[k]) = offset + k - 1 /\ u[k] \in U
    BY <1>3, <1>8
  <2>2. PICK j \in 1 .. Len(a) : a[j] = u[k]
    BY <1>7, <1>8, <2>1
  <2>3. PA(u[k]) = offset + j - 1 /\ PA(u[k]) = PU(u[k])
    BY <1>4, <1>7, <2>1, <2>2
  <2>4. j = k
    BY <1>8, <2>1, <2>3
  <2> QED
    BY <2>2, <2>4
<1>10. \A k \in 1 .. Len(a) : k \in 1 .. Len(u)
  <2> TAKE k \in 1 .. Len(a)
  <2>1. a[k] \in Range(u) /\ PA(a[k]) = offset + k - 1
    BY <1>4, <1>7, <1>8
  <2>2. PICK j \in 1 .. Len(u) : u[j] = a[k]
    BY <1>8, <2>1
  <2>3. PU(a[k]) = offset + j - 1 /\ PA(a[k]) = PU(a[k])
    BY <1>3, <1>7, <2>1, <2>2
  <2>4. j = k
    BY <1>8, <2>1, <2>3
  <2> QED
    BY <2>2, <2>4
<1>11. Len(u) = Len(a)
  <2>1. Len(u) \in Nat /\ Len(a) \in Nat
    BY <1>8
  <2>2. Len(u) # 0 => Len(u) \in 1 .. Len(a)
    <3>1. Len(u) # 0 => Len(u) \in 1 .. Len(u)
      BY <2>1
    <3> QED
      BY <1>9, <3>1
  <2>3. Len(a) # 0 => Len(a) \in 1 .. Len(u)
    <3>1. Len(a) # 0 => Len(a) \in 1 .. Len(a)
      BY <2>1
    <3> QED
      BY <1>10, <3>1
  <2> QED
    BY <2>1, <2>2, <2>3
<1>12. u = a
  BY <1>8, <1>9, <1>11
<1> QED
  BY <1>12 DEF u, a

\* The list of everything is one page.
LEMMA OnePage ==
  ASSUME NEW X, NEW order, LinearOrder(order, X), NEW A \in SUBSET X, IsFiniteSet(A),
         NEW n \in Nat, Cardinality(A) <= n
  PROVE  PageOf(InOrder(A, order), 0, n) = InOrder(A, order)
<1> DEFINE ordered == InOrder(A, order)
<1>1. ordered \in Seq(A) /\ Len(ordered) = Cardinality(A) /\ Cardinality(A) \in Nat
  BY ListedInOrder
<1> HIDE DEF ordered
<1>2. PageOf(ordered, 0, n) = SubSeq(ordered, 1, Len(ordered))
  BY <1>1 DEF PageOf
<1>3. SubSeq(ordered, 1, Len(ordered)) = ordered
  BY <1>1
<1> QED
  BY <1>2, <1>3 DEF ordered

LEMMA PagesAreSlices == HeldOK => PageIsSlice
<1> SUFFICES ASSUME HeldOK, NEW q \in Queries, NEW offset \in 0 .. 2 * PageSize, NEW tie \in BOOLEAN,
                    Unique(q), Across(q), q.type = "raw"
             PROVE  QueryVisits(q, offset, PageSize, tie)
                      = PageOf(QueryVisits(q, 0, Cardinality(Entries), tie), offset, PageSize)
  BY DEF PageIsSlice
<1> DEFINE N == Cardinality(Entries)
           order == EntryOrder(q)
           L(c) == ListOf(q, c)
           U == UNION {BeginningOf(q, c, offset, PageSize, tie) : c \in Range(Scopes)}
           W == UNION {BeginningOf(q, c, 0, N, tie) : c \in Range(Scopes)}
           A == UNION {L(c) : c \in Range(Scopes)}
           n == offset + PageSize
<1>1. PageSize \in Nat /\ offset \in Nat /\ N \in Nat /\ n \in Nat
  BY ScopesAreRuns, EntriesAreFinite, FS_CardinalityType
<1>2. Range(Scopes) \subseteq RunCollections
  BY ScopesAreRuns
<1>3. /\ QueryVisits(q, offset, PageSize, tie) = Merged(q, U, offset, PageSize)
      /\ QueryVisits(q, 0, N, tie) = Merged(q, W, 0, N)
  BY DEF QueryVisits, AcrossScopes
<1> HIDE DEF N
<1>4. \A c \in Range(Scopes) :
        /\ BeginningOf(q, c, offset, PageSize, tie) = {e \in L(c) : PlaceIn(L(c), order, e) < n}
        /\ BeginningOf(q, c, 0, N, tie) = {e \in L(c) : PlaceIn(L(c), order, e) < 0 + N}
        /\ L(c) \subseteq Entries
  <2> TAKE c \in Range(Scopes)
  <2>1. c \in RunCollections /\ c \in Collections /\ 0 \in Nat
    BY <1>2 DEF Collections
  <2>2. BeginningOf(q, c, offset, PageSize, tie) = {e \in L(c) : PlaceIn(L(c), order, e) < n}
    BY <1>1, <2>1, BeginningIs
  <2>3. BeginningOf(q, c, 0, N, tie) = {e \in L(c) : PlaceIn(L(c), order, e) < 0 + N}
    BY <1>1, <2>1, BeginningIs
  <2>4. L(c) \subseteq Entries
    BY <2>1, FindsAreExposures, TagsAreEntries DEF ListOf
  <2> QED
    BY <2>2, <2>3, <2>4
<1>5. LinearOrder(order, Entries)
  BY EntriesAreOrdered
<1>6. A \in SUBSET Entries /\ IsFiniteSet(A) /\ Cardinality(A) <= N
  <2>1. A \in SUBSET Entries
    BY <1>4
  <2> HIDE DEF A
  <2> QED
    BY <2>1, EntriesAreFinite, FS_Subset DEF N
<1> HIDE DEF order, L, n
<1>7. W = A
  <2>1. \A c \in Range(Scopes) : \A e \in L(c) : PlaceIn(L(c), order, e) < 0 + N
    <3> TAKE c \in Range(Scopes)
    <3> TAKE e \in L(c)
    <3>1. L(c) \subseteq Entries /\ IsFiniteSet(L(c)) /\ e \in Entries
      BY <1>4, TagsAreEntries
    <3>2. PlaceIn(L(c), order, e) < Cardinality(L(c)) /\ PlaceIn(L(c), order, e) \in Nat
      BY <1>5, <3>1, PlaceBounds DEF LinearOrder
    <3>3. Cardinality(L(c)) <= N /\ Cardinality(L(c)) \in Nat
      BY <3>1, EntriesAreFinite, FS_Subset, FS_CardinalityType DEF N
    <3> QED
      BY <1>1, <3>2, <3>3
  <2>2. \A c \in Range(Scopes) : BeginningOf(q, c, 0, N, tie) = L(c)
    BY <1>4, <2>1
  <2> QED
    BY <2>2
<1>8. U \in SUBSET A
  BY <1>4
<1>9. \A e \in A : PlaceIn(A, order, e) < n => e \in U
  <2> TAKE e \in A
  <2> HAVE PlaceIn(A, order, e) < n
  <2>1. PICK c \in Range(Scopes) : e \in L(c)
    OBVIOUS
  <2>2. L(c) \in SUBSET A
    OBVIOUS
  <2>3. IsFiniteSet(L(c))
    BY <1>4, TagsAreEntries
  <2> HIDE DEF A
  <2>4. PlaceIn(L(c), order, e) <= PlaceIn(A, order, e)
    BY <1>6, <2>2, PlaceGrows
  <2>5. PlaceIn(L(c), order, e) \in Nat /\ PlaceIn(A, order, e) \in Nat
    BY <1>6, <2>3, PlaceBounds
  <2>6. PlaceIn(L(c), order, e) < n
    BY <1>1, <2>4, <2>5
  <2> QED
    BY <1>4, <2>1, <2>6
<1> HIDE DEF U, W, A
<1>10. Merged(q, W, 0, N) = InOrder(A, order)
  <2>1. PageOf(InOrder(A, order), 0, N) = InOrder(A, order)
    BY <1>1, <1>5, <1>6, OnePage
  <2> QED
    BY <1>7, <2>1 DEF Merged, order
<1>11. Merged(q, U, offset, PageSize) = PageOf(InOrder(A, order), offset, PageSize)
  <2>1. \A e \in A : PlaceIn(A, order, e) < offset + PageSize => e \in U
    BY <1>9 DEF n
  <2>2. PageOf(InOrder(U, order), offset, PageSize) = PageOf(InOrder(A, order), offset, PageSize)
    BY <1>1, <1>5, <1>6, <1>8, <2>1, SamePage
  <2> QED
    BY <2>2 DEF Merged, order
<1> QED
  BY <1>3, <1>10, <1>11 DEF N

-----------------------------------------------------------------------------
LEMMA OneWordSays ==
  ASSUME NEW w \in Words, w.kind = "predicate", NEW i \in Ids
  PROVE  ButlerHolds(<<w>>, i) <=> Satisfies(i, w)
<1> DEFINE text == <<w>>
<1>1. Len(text) = 1 /\ text[1] = w /\ text # <<>>
  BY PredicatesAreWords
<1> HIDE DEF text
<1>2. Alternates(text) /\ Spans(text, 1, 1)
  BY <1>1 DEF Alternates, Spans
<1>3. i \in ButlerReads(text)[<<1, 1>>] <=> HoldsIn(text, 1, 1, i)
  BY <1>2, StretchesAreRight DEF FindsRightly
<1>4. HoldsIn(text, 1, 1, i) <=> Satisfies(i, w)
  <2>1. 1 .. 1 = {1}
    OBVIOUS
  <2> QED
    BY <1>1, <2>1 DEF HoldsIn
<1>5. ButlerHolds(text, i) <=> Satisfies(i, w)
  BY <1>1, <1>3, <1>4 DEF ButlerHolds
<1> QED
  BY <1>5 DEF text

LEMMA TwoPredicatesSay ==
  ASSUME NEW v \in Words, v.kind = "predicate", NEW w \in Words, w.kind = "predicate", NEW i \in Ids
  PROVE  ButlerHolds(<<v, Word("and"), w>>, i) <=> Satisfies(i, v) /\ Satisfies(i, w)
<1> DEFINE text == <<v, Word("and"), w>>
<1>1. Len(text) = 3 /\ text[1] = v /\ text[2] = Word("and") /\ text[3] = w /\ text # <<>>
  <2>1. Len(text) = 3 /\ text[1] = v /\ text[2] = Word("and") /\ text[3] = w
    OBVIOUS
  <2>2. Len(<<>>) = 0
    OBVIOUS
  <2> QED
    BY <2>1, <2>2
<1>2. text[2].kind = "and"
  BY <1>1 DEF Word
<1> HIDE DEF text
<1>3. 1 .. 3 = {1, 2, 3}
  OBVIOUS
<1>4. Alternates(text) /\ Spans(text, 1, 3)
  BY <1>1, <1>2, <1>3 DEF Alternates, Spans
<1>5. i \in ButlerReads(text)[<<1, 3>>] <=> HoldsIn(text, 1, 3, i)
  BY <1>4, StretchesAreRight DEF FindsRightly
<1>6. \A j \in 1 .. 3 : text[j].kind # "or"
  BY <1>1, <1>2, <1>3
<1>7. HoldsIn(text, 1, 3, i) <=> \A j \in 1 .. 3 : text[j].kind = "predicate" => Satisfies(i, text[j])
  <2>1. \A j \in 1 .. 3 : \A m \in 1 .. j : text[m].kind # "or"
    <3>1. \A j \in 1 .. 3 : \A m \in 1 .. j : m \in 1 .. 3
      OBVIOUS
    <3> QED
      BY <1>6, <3>1
  <2>2. \A l \in 1 .. 3 : l = 1 \/ text[l - 1].kind # "or"
    <3>1. \A l \in 1 .. 3 : l = 1 \/ l - 1 \in 1 .. 3
      OBVIOUS
    <3> QED
      BY <1>6, <3>1
  <2>3. 1 \in 1 .. 3
    OBVIOUS
  <2> QED
    BY <2>1, <2>2, <2>3 DEF HoldsIn
<1>8. HoldsIn(text, 1, 3, i) <=> Satisfies(i, v) /\ Satisfies(i, w)
  BY <1>1, <1>2, <1>3, <1>7
<1>9. ButlerHolds(text, i) <=> Satisfies(i, v) /\ Satisfies(i, w)
  BY <1>1, <1>5, <1>8 DEF ButlerHolds
<1> QED
  BY <1>9 DEF text

\* A list has as many entries as there are exposures that the Butler finds.
FoundIn(c, type, text) == {i \in Held(CollectionsOf(c, type)) : ButlerHolds(text, i)}

LEMMA ListedFinds ==
  ASSUME HeldOK, NEW c \in RunCollections, NEW type, NEW text \in Seq(Words), NEW postgres \in BOOLEAN
  PROVE  /\ Len(Listed(c, type, text, postgres)) = Cardinality(FoundIn(c, type, text))
         /\ Listed(c, type, text, postgres) = <<>> <=> FoundIn(c, type, text) = {}
<1> DEFINE q == [collection |-> c, type |-> type, where |-> text, latest |-> FALSE,
                 order |-> "exposure", reverse |-> FALSE, postgres |-> postgres]
           S == ScopeFinds(q, c)
           T == FoundIn(c, type, text)
           size == Cardinality(Ids)
           page == Listed(c, type, text, postgres)
<1>1. /\ q.latest = FALSE /\ q.where = text /\ q.type = type /\ q.postgres = postgres
      /\ q.reverse = FALSE /\ q.reverse \in BOOLEAN /\ c \in Collections
  BY DEF Collections
<1>2. page = ScopeVisits(q, c, 0, size, SameTie)
  BY DEF Listed
<1> HIDE DEF q, page
<1>3. WhereText(q, c) = text
  BY <1>1 DEF WhereText
<1>4. S = T
  <2>1. ButlerFinds(q, c) = T
    BY <1>1, <1>3 DEF ButlerFinds, FoundIn
  <2>2. UsesSql(q, c) => SqlFinds(q, c) = ButlerFinds(q, c)
    <3>1. q.where \in Seq(Words)
      BY <1>1
    <3> QED
      BY <1>1, <1>3, <3>1, SqlFindsTheSame DEF UsesSql
  <2> HIDE DEF T
  <2> QED
    BY <2>1, <2>2 DEF ScopeFinds
<1>5. S \subseteq Ids /\ IsFiniteSet(S) /\ Cardinality(S) \in Nat /\ size \in Nat /\ Cardinality(S) <= size
  <2>1. S \subseteq Ids /\ IsFiniteSet(S)
    BY <1>1, FindsAreExposures
  <2> HIDE DEF S
  <2> QED
    BY <2>1, ExposureNumbers, FS_Subset, FS_CardinalityType
<1>6. SameTie \in BOOLEAN
  BY DEF SameTie
<1>7. PageOfScope(page, q, c, 0, size, SameTie)
  <2> HIDE DEF S, size
  <2> QED
    BY <1>1, <1>2, <1>5, <1>6, VisitsOfScope
<1> HIDE DEF T, size
<1>8. /\ page \in Seq(Entries) /\ Len(page) \in Nat /\ Len(page) <= size
      /\ Len(page) = size \/ Cardinality(S) <= Len(page)
      /\ Len(page) <= Cardinality(S) \/ Len(page) = 0
  <2>1. /\ page \in Seq(Entries) /\ Len(page) <= size
        /\ Len(page) = size \/ Cardinality(S) <= 0 + Len(page)
        /\ 0 + Len(page) <= Cardinality(S) \/ Len(page) = 0
    BY <1>7 DEF PageOfScope
  <2>2. Len(page) \in Nat /\ 0 + Len(page) = Len(page)
    BY <2>1, LenProperties
  <2> QED
    BY <2>1, <2>2
<1> HIDE DEF S
<1>9. Len(page) = Cardinality(S)
  BY <1>5, <1>8
<1>10. page = <<>> <=> S = {}
  <2>1. page = <<>> <=> Len(page) = 0
    BY <1>8, EmptySeq
  <2>2. S = {} <=> Cardinality(S) = 0
    BY <1>5, FS_EmptySet
  <2> QED
    BY <1>9, <2>1, <2>2
<1> QED
  BY <1>4, <1>5, <1>9, <1>10 DEF T, page

LEMMA ScopesAreNamed == HeldOK => ScopesAreListed
<1> SUFFICES ASSUME HeldOK, NEW c \in Range(Scopes), NEW i \in Ids, NEW postgres \in BOOLEAN
             PROVE  c \in ExposureDataTypes(i)
                      <=> Listed(c, "raw", <<Predicate("exposure", "=", i)>>, postgres) # <<>>
  BY DEF ScopesAreListed
<1> DEFINE text == <<Predicate("exposure", "=", i)>>
           S == FoundIn(c, "raw", text)
<1>1. c \in RunCollections /\ text \in Seq(Words)
  <2>1. i \in Nat
    BY ExposureNumbers
  <2>2. Predicate("exposure", "=", i) \in Words
    BY <2>1, PredicatesAreWords
  <2> QED
    BY <2>2, ScopesAreRuns, PredicatesAreWords
<1>2. c \in ExposureDataTypes(i) <=> S # {}
  BY DEF ExposureDataTypes, ExposureExists, FoundIn
<1>3. Listed(c, "raw", text, postgres) = <<>> <=> S = {}
  <2> HIDE DEF text
  <2> QED
    BY <1>1, ListedFinds
<1> QED
  BY <1>2, <1>3

\* A day is in the range of its month.
LEMMA DaysAreInMonths ==
  ASSUME NEW day \in Nat, day % 100 # 0
  PROVE  LET range == MonthRange(day \div 10000, (day \div 100) % 100)
         IN  /\ range[1] \in Nat /\ range[2] \in Nat
             /\ range[1] <= day /\ day < range[2]
<1> DEFINE y == day \div 10000
           m == (day \div 100) % 100
           d == day % 100
           range == MonthRange(y, m)
<1>1. y \in Nat /\ m \in 0 .. 99 /\ d \in 1 .. 99 /\ day = y * 10000 + m * 100 + d
  OBVIOUS
<1> HIDE DEF y, m, d
<1>2. /\ range[1] = y * 10000 + m * 100 + 1
      /\ range[2] = IF m = 12 THEN (y + 1) * 10000 + 101 ELSE y * 10000 + (m + 1) * 100 + 1
  BY DEF MonthRange
<1> HIDE DEF range
<1>3. range[1] \in Nat /\ range[2] \in Nat /\ range[1] <= day /\ day < range[2]
  BY <1>1, <1>2
<1> QED
  BY <1>3 DEF range, y, m

LEMMA DaysAreCounted == HeldOK => CountsAreListed
<1> SUFFICES ASSUME HeldOK, NEW c \in RunCollections, NEW type, NEW postgres \in BOOLEAN,
                    type = "raw" \/ ~postgres, NEW i \in Held(CollectionsOf(c, type))
             PROVE  LET day == DayObs[i]
                        counts == DayCounts(c, type, postgres, day \div 10000, (day \div 100) % 100)
                    IN  /\ day \in DOMAIN counts
                        /\ counts[day] = Len(Listed(c, type, <<Predicate("day_obs", "=", day)>>, postgres))
  BY DEF CountsAreListed
<1> DEFINE day == DayObs[i]
           range == MonthRange(day \div 10000, (day \div 100) % 100)
           first == range[1]
           end == range[2]
           counts == DayCounts(c, type, postgres, day \div 10000, (day \div 100) % 100)
           text == <<Predicate("day_obs", "=", day)>>
           H == Held(CollectionsOf(c, type))
           S == {j \in H : DayObs[j] >= first /\ DayObs[j] < end}
<1>1. H \subseteq Ids /\ c \in Collections /\ c # AllCollections /\ i \in Ids
  <2>1. c \in Collections
    BY DEF Collections
  <2> DEFINE q == [type |-> type]
  <2>2. q.type = type
    OBVIOUS
  <2> HIDE DEF q
  <2>3. Held(CollectionsOf(c, q.type)) \subseteq Ids
    BY <2>1, FindsAreExposures
  <2> QED
    BY <2>1, <2>2, <2>3, QueriesAssumption DEF RunCollections
<1>2. /\ \A j \in Ids : DayObs[j] \in Nat /\ Field(j, "day_obs") = DayObs[j]
      /\ day \in Nat /\ day % 100 # 0
  <2>1. \A j \in Ids : DayObs[j] \in Nat /\ DayObs[j] % 100 # 0
    BY QueriesAssumption, ElementOfSeq, LenProperties DEF Ids
  <2> QED
    BY <1>1, <2>1 DEF Field
<1>3. first \in Nat /\ end \in Nat /\ first <= day /\ day < end
  BY <1>2, DaysAreInMonths
<1>4. FoundIn(c, type, text) = {j \in H : DayObs[j] = day}
  <2> DEFINE w == Predicate("day_obs", "=", day)
  <2>1. w \in Words /\ w.kind = "predicate" /\ w.field = "day_obs" /\ w.op = "=" /\ w.value = day
    BY <1>2, PredicatesAreWords DEF Predicate
  <2> HIDE DEF w, day
  <2>2. \A j \in Ids : ButlerHolds(<<w>>, j) <=> Satisfies(j, w)
    BY <2>1, OneWordSays
  <2>3. \A j \in Ids : Satisfies(j, w) <=> DayObs[j] = day
    BY <1>2, <2>1 DEF Satisfies
  <2>4. FoundIn(c, type, <<w>>) = {j \in H : DayObs[j] = day}
    <3> HIDE DEF H
    <3>1. FoundIn(c, type, <<w>>) = {j \in H : ButlerHolds(<<w>>, j)}
      BY DEF FoundIn, H
    <3> QED
      BY <1>1, <2>2, <2>3, <3>1
  <2> QED
    BY <2>4 DEF w
<1>5. Len(Listed(c, type, text, postgres)) = Cardinality({j \in H : DayObs[j] = day})
  <2>1. text \in Seq(Words)
    BY <1>2, PredicatesAreWords
  <2> HIDE DEF text, H, day
  <2> QED
    BY <1>4, <2>1, ListedFinds
<1>6. counts = PerDay(S)
  <2>1. CASE postgres
    <3>1. H = held[c]
      BY <1>1, <2>1 DEF Held, CollectionsOf
    <3>2. counts = SqlDayCounts(c, day \div 10000, (day \div 100) % 100)
      BY <1>1, <2>1 DEF DayCounts
    <3> QED
      BY <3>1, <3>2 DEF SqlDayCounts
  <2>2. CASE ~postgres
    <3> DEFINE v == Predicate("day_obs", ">=", first)
               w == Predicate("day_obs", "<", end)
    <3>1. /\ v \in Words /\ v.kind = "predicate" /\ v.field = "day_obs" /\ v.op = ">=" /\ v.value = first
          /\ w \in Words /\ w.kind = "predicate" /\ w.field = "day_obs" /\ w.op = "<" /\ w.value = end
      <4> HIDE DEF first, end, H, S, counts, text, range, day
      <4>1. v \in Words
        BY <1>3, PredicatesAreWords
      <4>2. w \in Words
        BY <1>3, PredicatesAreWords
      <4>3. v.kind = "predicate" /\ v.field = "day_obs" /\ v.op = ">=" /\ v.value = first
        BY DEF Predicate
      <4>4. w.kind = "predicate" /\ w.field = "day_obs" /\ w.op = "<" /\ w.value = end
        BY DEF Predicate
      <4> QED
        BY <4>1, <4>2, <4>3, <4>4
    <3>2. counts = PerDay(DataIds(c, type, <<v, Word("and"), w>>))
      BY <2>2 DEF DayCounts, ButlerDayCounts
    <3> HIDE DEF v, w
    <3>3. \A j \in Ids : ButlerHolds(<<v, Word("and"), w>>, j) <=> Satisfies(j, v) /\ Satisfies(j, w)
      BY <3>1, TwoPredicatesSay
    <3>4. \A j \in Ids : /\ Satisfies(j, v) <=> DayObs[j] >= first
                         /\ Satisfies(j, w) <=> DayObs[j] < end
      BY <1>2, <3>1 DEF Satisfies
    <3>5. DataIds(c, type, <<v, Word("and"), w>>) = S
      <4> HIDE DEF H, first, end
      <4>1. DataIds(c, type, <<v, Word("and"), w>>) = {j \in H : ButlerHolds(<<v, Word("and"), w>>, j)}
        BY DEF DataIds, H
      <4> QED
        BY <1>1, <3>3, <3>4, <4>1
    <3> QED
      BY <3>2, <3>5
  <2> QED
    BY <2>1, <2>2
<1> HIDE DEF counts, text, H, first, end
<1>7. i \in S /\ {j \in S : DayObs[j] = day} = {j \in H : DayObs[j] = day}
  <2>1. i \in H
    BY DEF H
  <2> QED
    BY <1>3, <2>1
<1>8. day \in DOMAIN counts /\ counts[day] = Cardinality({j \in S : DayObs[j] = day})
  <2> HIDE DEF S
  <2>1. day \in {DayObs[j] : j \in S}
    BY <1>7
  <2> QED
    BY <1>6, <2>1 DEF PerDay
<1>9. day \in DOMAIN counts /\ counts[day] = Len(Listed(c, type, text, postgres))
  BY <1>5, <1>7, <1>8
<1> QED
  BY <1>9 DEF counts, text

\* QueriesInv is invariant: the lists and the pages of any registry and any viewer.
THEOREM ListsAreWhole == QueriesSpec => []QueriesInv
<1>1. QIInv => QueriesInv
  <2> SUFFICES ASSUME QIInv PROVE QueriesInv
    OBVIOUS
  <2>1. HeldOK
    BY DEF QIInv
  <2>2. QueriesTypeOK /\ NoneIsMissed
    BY KeptPagersAreTyped, KeptPagersMissNone
  <2>3. PageIsSlice /\ SqlIsButler /\ CountsAreListed /\ ScopesAreListed
    BY <2>1, PagesAreSlices, SqlReadsRightly, DaysAreCounted, ScopesAreNamed
  <2> QED
    BY <2>2, <2>3 DEF QueriesInv
<1> QED
  BY <1>1, PagersAreKept, PTL
=============================================================================
