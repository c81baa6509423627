------------------------------ MODULE RpcProofs ------------------------------
(***************************************************************************)
(* Rpc implements RpcCall, for any number of calls, processes of the pool, *)
(* values and faults: a process that is killed, the loss of the manager    *)
(* process, connections that break and callers that give up.               *)
(***************************************************************************)
EXTENDS Rpc, SequenceTheorems, TLAPS

-----------------------------------------------------------------------------
(* Sequences. *)

\* What is behind the last item of a sequence, and what is left of its front.
LEMMA ConcatFacts ==
    ASSUME NEW S, NEW s \in Seq(S), NEW t \in Seq(S)
    PROVE  /\ s \o t \in Seq(S) /\ Len(s \o t) = Len(s) + Len(t)
           /\ Len(s) \in Nat /\ Len(t) \in Nat
           /\ \A i \in 1..Len(s) : (s \o t)[i] = s[i]
           /\ \A i \in 1..Len(t) : (s \o t)[Len(s) + i] = t[i]
<1>1. Len(s) \in Nat /\ Len(t) \in Nat
  BY LenProperties
<1>2. /\ s \o t \in Seq(S) /\ Len(s \o t) = Len(s) + Len(t)
      /\ \A i \in 1..(Len(s) + Len(t)) :
            (s \o t)[i] = IF i <= Len(s) THEN s[i] ELSE t[i - Len(s)]
  BY ConcatProperties
<1> DEFINE q == s \o t
<1> HIDE DEF q
<1>3. \A i \in 1..Len(s) : q[i] = s[i]
  BY <1>1, <1>2 DEF q
<1>4. ASSUME NEW i \in 1..Len(t) PROVE q[Len(s) + i] = t[i]
  <2>1. Len(s) + i \in 1..(Len(s) + Len(t)) /\ ~(Len(s) + i <= Len(s)) /\ Len(s) + i - Len(s) = i
    BY <1>1
  <2> QED
    BY <1>2, <2>1 DEF q
<1> QED
  BY <1>1, <1>2, <1>3, <1>4 DEF q

\* The head of a sequence and what is behind it.
LEMMA TailFacts ==
    ASSUME NEW S, NEW s \in Seq(S), s # <<>>
    PROVE  /\ Head(s) = s[1] /\ s[1] \in S /\ Tail(s) \in Seq(S)
           /\ Len(s) \in Nat /\ Len(s) >= 1 /\ Len(Tail(s)) = Len(s) - 1
           /\ \A i \in 1..(Len(s) - 1) : Tail(s)[i] = s[i + 1]
BY HeadTailProperties, LenProperties, EmptySeq

\* A front of a sequence.
LEMMA PrefixFacts ==
    ASSUME NEW S, NEW s \in Seq(S), NEW k \in 0..Len(s)
    PROVE  /\ SubSeq(s, 1, k) \in Seq(S) /\ Len(SubSeq(s, 1, k)) = k
           /\ \A i \in 1..k : SubSeq(s, 1, k)[i] = s[i]
<1>1. Len(s) \in Nat /\ \A i \in 1..Len(s) : s[i] \in S
  BY LenProperties, ElementOfSeq
<1>2. \A i \in 1..k : s[i] \in S
  BY <1>1
<1>3. /\ SubSeq(s, 1, k) \in Seq(S)
      /\ Len(SubSeq(s, 1, k)) = IF 1 <= k THEN k - 1 + 1 ELSE 0
      /\ \A i \in 1..(k - 1 + 1) : SubSeq(s, 1, k)[i] = s[1 + i - 1]
  BY <1>1, <1>2, SubSeqProperties, 1 \in Int, k \in Int
<1> DEFINE q == SubSeq(s, 1, k)
<1> HIDE DEF q
<1>4. Len(q) = k /\ \A i \in 1..k : q[i] = s[i]
  BY <1>1, <1>3 DEF q
<1> QED
  BY <1>3, <1>4 DEF q

\* A sequence of one message.
LEMMA OneMessage ==
    ASSUME NEW S, NEW m \in S
    PROVE  <<m>> \in Seq(S) /\ Len(<<m>>) = 1 /\ <<m>>[1] = m
OBVIOUS

\* A sequence with one more item.
LEMMA AppendFacts ==
    ASSUME NEW S, NEW s \in Seq(S), NEW m \in S
    PROVE  /\ Append(s, m) \in Seq(S) /\ Len(s) \in Nat /\ Len(Append(s, m)) = Len(s) + 1
           /\ \A i \in 1..Len(s) : Append(s, m)[i] = s[i]
           /\ Append(s, m)[Len(s) + 1] = m
BY AppendProperties, LenProperties

-----------------------------------------------------------------------------
(* The messages of one call.  Of n values and how the function ended (b),  *)
(* message number k is a value, the error, or the exit.                    *)

IsMessage(n, b, k, m) ==
    \/ k \in 1..n /\ m.type \in {"yield", "return"} /\ m.value = k
    \/ k = n + 1 /\ b = "error" /\ m.type = "error"
    \/ k = n + 1 /\ b = "ok" /\ m.type = "exit"
    \/ k = n + 2 /\ b = "error" /\ m.type = "exit"

\* What is on the wire w to a caller in state v that has taken t messages (-1 as long
\* as it waits for the type of the response), and an error (e):
\* the next values in their order, and then how the call ends.  An exit that no
\* error precedes means that all is there (m: unless the manager process is lost).
WireOK(w, t, n, b, e, v, m) ==
    /\ \A i \in 1..Len(w) : w[i].type \in {"value", "stream"} => i = 1 /\ v = "validating"
    /\ \A i \in 1..Len(w) :
          w[i].type \in {"yield", "return"} => w[i].value = t + i /\ t + i \in 1..n /\ ~e
    /\ \A i, j \in 1..Len(w) :
          i < j /\ w[i].type \in {"error", "exit"} => w[j].type \in {"error", "exit"}
    /\ m => \A i \in 1..Len(w) :
          w[i].type = "exit" /\ ~e /\ (\A j \in 1..(i - 1) : w[j].type # "error")
              => b = "ok" /\ t + i = n + 1

\* While the server passes on results: the messages on the wire and those in the
\* queue r of the results are the next ones without a gap, and the process (k) will
\* put the ones behind them.
StreamOK(w, r, t, n, b, e, v, k) ==
    /\ v = "validating" => w # <<>> /\ w[1].type \in {"value", "stream"} /\ t = -1
    /\ e \/ t <= n
    /\ e => t = n + 1 /\ b = "error" /\ v # "validating"
    /\ \A i \in 1..Len(w) :
          \/ v = "validating" /\ i = 1
          \/ IsMessage(n, b, t + i, w[i]) /\ w[i].type # "exit"
    /\ \A i \in 1..Len(r) : IsMessage(n, b, t + Len(w) + i, r[i])
    /\ k \in {"queued", "running"} => b = "no" /\ t + Len(w) + Len(r) = n
    /\ k = "leaving" =>
          /\ b \in {"ok", "error"}
          /\ t + Len(w) + Len(r) = n + (IF b = "error" THEN 1 ELSE 0)

Bodies == {"no", "ok", "error"}

\* A connection that breaks leaves a front of what is on the wire.
LEMMA WirePrefix ==
    ASSUME NEW w \in Seq(Messages), NEW p \in 0..Len(w), NEW t \in Int, NEW n \in Nat,
           NEW b \in Bodies, NEW e, NEW v, NEW m, WireOK(w, t, n, b, e, v, m)
    PROVE  WireOK(SubSeq(w, 1, p), t, n, b, e, v, m)
<1>1. /\ Len(SubSeq(w, 1, p)) = p /\ Len(w) \in Nat /\ p \in Nat /\ p <= Len(w)
      /\ \A i \in 1..p : SubSeq(w, 1, p)[i] = w[i] /\ i \in 1..Len(w)
  BY PrefixFacts, LenProperties
<1> DEFINE q == SubSeq(w, 1, p)
<1> HIDE DEF q
<1> USE <1>1 DEF q
<1> QED
  BY DEF WireOK

\* The caller takes the type of the response or a value.
LEMMA WireTake ==
    ASSUME NEW w \in Seq(Messages), w # <<>>, NEW t \in Int, NEW n \in Nat,
           NEW b \in Bodies, NEW e, NEW v, NEW m, WireOK(w, t, n, b, e, v, m),
           w[1].type \notin {"error", "exit"}
    PROVE  WireOK(Tail(w), t + 1, n, b, e, "receiving", m)
<1> DEFINE q == Tail(w)
<1>1. /\ Len(q) = Len(w) - 1 /\ Len(w) \in Nat /\ Len(w) >= 1
      /\ \A i \in 1..(Len(w) - 1) : q[i] = w[i + 1]
  BY TailFacts
<1> HIDE DEF q
<1>2. \A i \in 1..Len(q) : q[i] = w[i + 1] /\ i + 1 \in 1..Len(w) /\ i + 1 # 1
  BY <1>1
<1>3. \A i \in 1..Len(q) : q[i].type \notin {"value", "stream"}
  BY <1>2 DEF WireOK
<1>4. \A i \in 1..Len(q) :
         q[i].type \in {"yield", "return"} => q[i].value = t + 1 + i /\ t + 1 + i \in 1..n /\ ~e
  <2> SUFFICES ASSUME NEW i \in 1..Len(q), q[i].type \in {"yield", "return"}
               PROVE  q[i].value = t + 1 + i /\ t + 1 + i \in 1..n /\ ~e
    OBVIOUS
  <2>1. w[i + 1].value = t + (i + 1) /\ t + (i + 1) \in 1..n /\ ~e
    BY <1>2 DEF WireOK
  <2>2. t + (i + 1) = t + 1 + i
    OBVIOUS
  <2> QED
    BY <1>2, <2>1, <2>2
<1>5. \A i, j \in 1..Len(q) :
         i < j /\ q[i].type \in {"error", "exit"} => q[j].type \in {"error", "exit"}
  <2> SUFFICES ASSUME NEW i \in 1..Len(q), NEW j \in 1..Len(q), i < j,
                      q[i].type \in {"error", "exit"}
               PROVE  q[j].type \in {"error", "exit"}
    OBVIOUS
  <2>1. /\ i + 1 \in 1..Len(w) /\ j + 1 \in 1..Len(w) /\ i + 1 < j + 1
        /\ q[i] = w[i + 1] /\ q[j] = w[j + 1]
    BY <1>2
  <2>2. w[j + 1].type \in {"error", "exit"}
    BY <2>1 DEF WireOK
  <2> QED
    BY <2>1, <2>2
<1>6. ASSUME m, NEW i \in 1..Len(q), q[i].type = "exit", ~e,
             \A j \in 1..(i - 1) : q[j].type # "error"
      PROVE  b = "ok" /\ t + 1 + i = n + 1
  <2>1. ASSUME NEW j \in 1..(i + 1 - 1) PROVE w[j].type # "error"
    <3>1. CASE j = 1
      BY <3>1
    <3>2. CASE j # 1
      <4>1. j - 1 \in 1..(i - 1) /\ j - 1 \in 1..Len(q) /\ j - 1 + 1 = j
        BY <1>1, <3>2
      <4> QED
        BY <1>2, <1>6, <4>1
    <3> QED
      BY <3>1, <3>2
  <2>2. w[i + 1].type = "exit" /\ i + 1 \in 1..Len(w)
    BY <1>2, <1>6
  <2> QED
    BY <1>6, <2>1, <2>2 DEF WireOK
<1> QED
  BY <1>3, <1>4, <1>5, <1>6 DEF WireOK, q

\* The caller takes an error: only an exit or errors can follow.
LEMMA WireTakeError ==
    ASSUME NEW w \in Seq(Messages), w # <<>>, NEW t \in Int, NEW n \in Nat,
           NEW b \in Bodies, NEW e, NEW v, NEW m, WireOK(w, t, n, b, e, v, m),
           w[1].type = "error", NEW u \in Int
    PROVE  WireOK(Tail(w), u, n, b, TRUE, v, m)
<1> DEFINE q == Tail(w)
<1>1. /\ Len(q) = Len(w) - 1 /\ Len(w) \in Nat /\ Len(w) >= 1
      /\ \A i \in 1..(Len(w) - 1) : q[i] = w[i + 1]
  BY TailFacts
<1> HIDE DEF q
<1>2. \A i \in 1..Len(q) : q[i] = w[i + 1] /\ i + 1 \in 1..Len(w) /\ 1 < i + 1 /\ 1 \in 1..Len(w)
  BY <1>1
<1>3. \A i \in 1..Len(q) : q[i].type \in {"error", "exit"}
  BY <1>2 DEF WireOK
<1> QED
  BY <1>3 DEF WireOK, q

\* The server ends the call with an error.
LEMMA WireFail ==
    ASSUME NEW w \in Seq(Messages), NEW t \in Int, NEW n \in Nat,
           NEW b \in Bodies, NEW e, NEW v, NEW m, WireOK(w, t, n, b, e, v, m),
           NEW f \in Seq(Messages), \A i \in 1..Len(f) : f[i].type \in {"error", "exit"},
           m => f # <<>> /\ f[1].type = "error"
    PROVE  WireOK(w \o f, t, n, b, e, v, m)
<1> DEFINE q == w \o f
<1>1. /\ Len(q) = Len(w) + Len(f) /\ Len(w) \in Nat /\ Len(f) \in Nat
      /\ \A i \in 1..Len(w) : q[i] = w[i]
      /\ \A i \in 1..Len(f) : q[Len(w) + i] = f[i]
  BY ConcatFacts
<1> HIDE DEF q
<1>2. ASSUME NEW i \in 1..Len(q)
      PROVE  \/ i \in 1..Len(w) /\ q[i] = w[i]
             \/ i > Len(w) /\ q[i].type \in {"error", "exit"}
  <2>1. CASE i > Len(w)
    <3>1. i - Len(w) \in 1..Len(f) /\ Len(w) + (i - Len(w)) = i
      BY <1>1, <2>1
    <3> QED
      BY <1>1, <2>1, <3>1
  <2> QED
    BY <1>1, <2>1
<1>3. \A i \in 1..Len(q) : q[i].type \in {"value", "stream"} => i = 1 /\ v = "validating"
  BY <1>2 DEF WireOK
<1>4. \A i \in 1..Len(q) :
         q[i].type \in {"yield", "return"} => q[i].value = t + i /\ t + i \in 1..n /\ ~e
  BY <1>2 DEF WireOK
<1>5. \A i, j \in 1..Len(q) :
         i < j /\ q[i].type \in {"error", "exit"} => q[j].type \in {"error", "exit"}
  BY <1>1, <1>2 DEF WireOK
<1>6. ASSUME m, NEW i \in 1..Len(q), q[i].type = "exit", ~e,
             \A j \in 1..(i - 1) : q[j].type # "error"
      PROVE  b = "ok" /\ t + i = n + 1
  <2>1. CASE i <= Len(w)
    <3>1. i \in 1..Len(w) /\ \A j \in 1..(i - 1) : j \in 1..Len(w)
      BY <1>1, <2>1
    <3>2. w[i].type = "exit" /\ \A j \in 1..(i - 1) : w[j].type # "error"
      BY <1>1, <1>6, <3>1
    <3> QED
      BY <1>6, <3>1, <3>2 DEF WireOK
  <2>2. CASE i > Len(w)
    <3>1. 1 \in 1..Len(f) /\ q[Len(w) + 1] = f[1] /\ f[1].type = "error"
      BY <1>1, <1>6, EmptySeq
    <3>2. i # Len(w) + 1
      BY <1>6, <3>1
    <3>3. Len(w) + 1 \in 1..(i - 1)
      BY <1>1, <2>2, <3>2
    <3> QED
      BY <1>6, <3>1, <3>3
  <2> QED
    BY <1>1, <2>1, <2>2
<1> QED
  BY <1>3, <1>4, <1>5, <1>6 DEF WireOK, q

\* The function goes on, or ends.
LEMMA WireGrows ==
    ASSUME NEW w \in Seq(Messages), NEW t \in Int, NEW n \in Nat, NEW n2 \in Nat, n <= n2,
           NEW b \in Bodies, NEW b2 \in Bodies, b = "ok" => b2 = "ok" /\ n2 = n,
           NEW e, NEW v, NEW m, WireOK(w, t, n, b, e, v, m)
    PROVE  WireOK(w, t, n2, b2, e, v, m)
BY DEF WireOK

\* The next message of the results goes to the wire.
LEMMA WireSend ==
    ASSUME NEW w \in Seq(Messages), NEW r \in Seq(Messages), r # <<>>,
           NEW t \in Int, NEW n \in Nat, NEW b \in Bodies, NEW e, NEW v, NEW m, NEW k,
           WireOK(w, t, n, b, e, v, m), StreamOK(w, r, t, n, b, e, v, k)
    PROVE  WireOK(w \o <<Head(r)>>, t, n, b, e, v, m)
<1> DEFINE h == Head(r)  q == w \o <<h>>
<1>1. h = r[1] /\ h \in Messages /\ 1 \in 1..Len(r) /\ Len(w) \in Nat
  BY TailFacts, LenProperties
<1> HIDE DEF h
<1>2. /\ Len(q) = Len(w) + 1 /\ \A i \in 1..Len(w) : q[i] = w[i]
      /\ q[Len(w) + 1] = h
  <2>1. <<h>> \in Seq(Messages) /\ Len(<<h>>) = 1 /\ <<h>>[1] = h
    BY <1>1, OneMessage
  <2> QED
    BY <2>1, ConcatFacts
<1> HIDE DEF q
<1>3. IsMessage(n, b, t + Len(w) + 1, h)
  BY <1>1 DEF StreamOK
<1>4. ASSUME NEW i \in 1..Len(q)
      PROVE  \/ i \in 1..Len(w) /\ q[i] = w[i]
             \/ i = Len(w) + 1 /\ q[i] = h
  <2>1. i \in 1..(Len(w) + 1)
    BY <1>2
  <2>2. CASE i \in 1..Len(w)
    BY <1>2, <2>2
  <2>3. CASE i = Len(w) + 1
    BY <1>2, <2>3
  <2> QED
    BY <1>1, <2>1, <2>2, <2>3
<1>5. \A i \in 1..Len(q) : q[i].type \in {"value", "stream"} => i = 1 /\ v = "validating"
  <2>1. h.type \notin {"value", "stream"}
    BY <1>3 DEF IsMessage
  <2> QED
    BY <1>4, <2>1 DEF WireOK
<1>6. \A i \in 1..Len(q) :
         q[i].type \in {"yield", "return"} => q[i].value = t + i /\ t + i \in 1..n /\ ~e
  <2>1. ASSUME h.type \in {"yield", "return"}
        PROVE  h.value = t + (Len(w) + 1) /\ t + (Len(w) + 1) \in 1..n /\ ~e
    <3>1. t + Len(w) + 1 \in 1..n /\ h.value = t + Len(w) + 1
      BY <1>3, <2>1 DEF IsMessage
    <3>2. t + Len(w) + 1 = t + (Len(w) + 1)
      BY <1>1
    <3>3. ~e
      BY <1>1, <3>1 DEF StreamOK
    <3> QED
      BY <3>1, <3>2, <3>3
  <2> QED
    BY <1>4, <2>1 DEF WireOK
<1>7. \A i, j \in 1..Len(q) :
         i < j /\ q[i].type \in {"error", "exit"} => q[j].type \in {"error", "exit"}
  <2> SUFFICES ASSUME NEW i \in 1..Len(q), NEW j \in 1..Len(q), i < j,
                      q[i].type \in {"error", "exit"}
               PROVE  q[j].type \in {"error", "exit"}
    OBVIOUS
  <2>1. i \in 1..Len(w) /\ q[i] = w[i]
    BY <1>1, <1>2, <1>4
  <2>2. CASE j \in 1..Len(w)
    BY <1>2, <2>1, <2>2 DEF WireOK
  <2>3. CASE j = Len(w) + 1
    <3>1. IsMessage(n, b, t + i, w[i]) /\ w[i].type # "exit"
      BY <2>1 DEF StreamOK
    <3>2. t + i = n + 1 /\ b = "error"
      BY <2>1, <3>1 DEF IsMessage
    <3>3. ~(t + Len(w) + 1 <= n)
      BY <1>1, <2>1, <3>2
    <3>4. h.type \in {"error", "exit"}
      BY <1>3, <3>3 DEF IsMessage
    <3> QED
      BY <1>2, <2>3, <3>4
  <2> QED
    BY <1>4, <2>2, <2>3
<1>8. ASSUME m, NEW i \in 1..Len(q), q[i].type = "exit", ~e,
             \A j \in 1..(i - 1) : q[j].type # "error"
      PROVE  b = "ok" /\ t + i = n + 1
  <2>1. CASE i \in 1..Len(w)
    <3>1. \A j \in 1..(i - 1) : j \in 1..Len(w)
      BY <1>1, <2>1
    <3>2. w[i].type = "exit" /\ \A j \in 1..(i - 1) : w[j].type # "error"
      BY <1>2, <1>8, <2>1, <3>1
    <3> QED
      BY <1>8, <2>1, <3>2 DEF WireOK
  <2>2. CASE i = Len(w) + 1
    <3>1. h.type = "exit" /\ t + Len(w) + 1 = t + i
      BY <1>1, <1>2, <1>8, <2>2
    <3>2. CASE b = "error"
      <4>1. t + Len(w) + 1 = n + 2 /\ t <= n
        BY <1>3, <1>8, <3>1, <3>2 DEF IsMessage, StreamOK
      <4>2. Len(w) \in 1..Len(w) /\ Len(w) \in 1..(i - 1) /\ t + Len(w) = n + 1
        BY <1>1, <2>2, <4>1
      <4>3. ~(v = "validating" /\ Len(w) = 1)
        <5> SUFFICES ASSUME v = "validating", Len(w) = 1 PROVE FALSE
          OBVIOUS
        <5>1. t = -1
          BY DEF StreamOK
        <5>2. t + 1 = n + 1
          BY <4>2
        <5> HIDE DEF q
        <5> QED
          BY <5>1, <5>2
      <4>4. IsMessage(n, b, t + Len(w), w[Len(w)]) /\ w[Len(w)].type # "exit"
        BY <4>2, <4>3 DEF StreamOK
      <4>5. w[Len(w)].type = "error"
        BY <4>2, <4>4 DEF IsMessage
      <4> QED
        BY <1>2, <1>8, <4>2, <4>5
    <3>3. CASE b # "error"
      BY <1>3, <3>1, <3>3 DEF IsMessage
    <3> QED
      BY <3>2, <3>3
  <2> QED
    BY <1>4, <2>1, <2>2
<1> QED
  BY <1>5, <1>6, <1>7, <1>8 DEF WireOK, q, h

\* Nor does that leave a gap.
LEMMA StreamSend ==
    ASSUME NEW w \in Seq(Messages), NEW r \in Seq(Messages), r # <<>>,
           NEW t \in Int, NEW n \in Nat, NEW b \in Bodies, NEW e, NEW v, NEW k,
           StreamOK(w, r, t, n, b, e, v, k), Head(r).type # "exit"
    PROVE  StreamOK(w \o <<Head(r)>>, Tail(r), t, n, b, e, v, k)
<1> DEFINE h == Head(r)  q == w \o <<h>>  s == Tail(r)
<1>1. /\ h = r[1] /\ h \in Messages /\ 1 \in 1..Len(r) /\ Len(w) \in Nat /\ Len(r) \in Nat
      /\ Len(s) = Len(r) - 1 /\ \A i \in 1..(Len(r) - 1) : s[i] = r[i + 1]
  BY TailFacts, LenProperties
<1> HIDE DEF s
<1>2. /\ Len(q) = Len(w) + 1 /\ \A i \in 1..Len(w) : q[i] = w[i]
      /\ q[Len(w) + 1] = h
  <2> HIDE DEF h
  <2>1. <<h>> \in Seq(Messages) /\ Len(<<h>>) = 1 /\ <<h>>[1] = h
    BY <1>1, OneMessage
  <2> QED
    BY <2>1, ConcatFacts
<1> HIDE DEF q, h
<1>3. IsMessage(n, b, t + Len(w) + 1, h) /\ h.type # "exit"
  BY <1>1 DEF StreamOK, h
<1>4. \A i \in 1..Len(q) : \/ v = "validating" /\ i = 1
                           \/ IsMessage(n, b, t + i, q[i]) /\ q[i].type # "exit"
  <2>1. ASSUME NEW i \in 1..Len(w)
        PROVE  \/ v = "validating" /\ i = 1
               \/ IsMessage(n, b, t + i, q[i]) /\ q[i].type # "exit"
    BY <1>2, <2>1 DEF StreamOK
  <2>2. ASSUME NEW i \in {Len(w) + 1} PROVE IsMessage(n, b, t + i, q[i]) /\ q[i].type # "exit"
    <3>1. t + i = t + Len(w) + 1
      BY <1>1, <2>2
    <3> QED
      BY <1>2, <1>3, <2>2, <3>1
  <2>3. \A i \in 1..Len(q) : i \in 1..Len(w) \/ i \in {Len(w) + 1}
    BY <1>1, <1>2
  <2> QED
    BY <2>1, <2>2, <2>3
<1>5. \A i \in 1..Len(s) : IsMessage(n, b, t + Len(q) + i, s[i])
  <2> SUFFICES ASSUME NEW i \in 1..Len(s)
               PROVE  IsMessage(n, b, t + Len(q) + i, s[i])
    OBVIOUS
  <2>1. i + 1 \in 1..Len(r) /\ s[i] = r[i + 1] /\ t + Len(w) + (i + 1) = t + Len(q) + i
    BY <1>1, <1>2
  <2>2. IsMessage(n, b, t + Len(w) + (i + 1), r[i + 1])
    BY <2>1 DEF StreamOK
  <2> QED
    BY <2>1, <2>2
<1>6. t + Len(q) + Len(s) = t + Len(w) + Len(r)
  BY <1>1, <1>2
<1>7. v = "validating" => q # <<>> /\ q[1].type \in {"value", "stream"} /\ t = -1
  <2>1. ASSUME v = "validating" PROVE q # <<>> /\ q[1].type \in {"value", "stream"} /\ t = -1
    <3>1. w # <<>> /\ w[1].type \in {"value", "stream"} /\ t = -1
      BY <2>1 DEF StreamOK
    <3>2. 1 \in 1..Len(w)
      BY <1>1, <3>1, EmptySeq
    <3>3. Len(q) # 0
      BY <1>1, <1>2
    <3> QED
      BY <1>2, <3>1, <3>2, <3>3
  <2> QED
    BY <2>1
<1> QED
  BY <1>4, <1>5, <1>6, <1>7 DEF StreamOK, q, h, s

\* The caller takes the type of the response or a value.
LEMMA StreamTake ==
    ASSUME NEW w \in Seq(Messages), w # <<>>, NEW r \in Seq(Messages),
           NEW t \in Int, NEW n \in Nat, NEW b \in Bodies, NEW e, NEW v, NEW k,
           StreamOK(w, r, t, n, b, e, v, k), w[1].type # "error"
    PROVE  StreamOK(Tail(w), r, t + 1, n, b, e, "receiving", k)
<1> DEFINE q == Tail(w)
<1>1. /\ Len(q) = Len(w) - 1 /\ Len(w) \in Nat /\ Len(w) >= 1 /\ Len(r) \in Nat
      /\ \A i \in 1..(Len(w) - 1) : q[i] = w[i + 1]
  BY TailFacts, LenProperties
<1> HIDE DEF q
<1>2. 1 \in 1..Len(w) /\ t + 1 + Len(q) = t + Len(w)
  BY <1>1
<1>3. ASSUME v # "validating" PROVE ~e /\ t + 1 <= n
  <2>1. IsMessage(n, b, t + 1, w[1]) /\ w[1].type # "exit"
    BY <1>2, <1>3 DEF StreamOK
  <2>2. t + 1 \in 1..n
    BY <2>1 DEF IsMessage
  <2> QED
    BY <2>2 DEF StreamOK
<1>4. ASSUME v = "validating" PROVE ~e /\ t + 1 <= n
  BY <1>4 DEF StreamOK
<1>5. \A i \in 1..Len(q) : IsMessage(n, b, t + 1 + i, q[i]) /\ q[i].type # "exit"
  <2> SUFFICES ASSUME NEW i \in 1..Len(q)
               PROVE  IsMessage(n, b, t + 1 + i, q[i]) /\ q[i].type # "exit"
    OBVIOUS
  <2>1. i + 1 \in 1..Len(w) /\ i + 1 # 1 /\ q[i] = w[i + 1] /\ t + (i + 1) = t + 1 + i
    BY <1>1
  <2>2. IsMessage(n, b, t + (i + 1), w[i + 1]) /\ w[i + 1].type # "exit"
    BY <2>1 DEF StreamOK
  <2> QED
    BY <2>1, <2>2
<1>6. \A i \in 1..Len(r) : IsMessage(n, b, t + 1 + Len(q) + i, r[i])
  BY <1>2 DEF StreamOK
<1> QED
  BY <1>2, <1>3, <1>4, <1>5, <1>6 DEF StreamOK, q

\* The caller takes the error of the function.
LEMMA StreamTakeError ==
    ASSUME NEW w \in Seq(Messages), w # <<>>, NEW r \in Seq(Messages),
           NEW t \in Int, NEW n \in Nat, NEW b \in Bodies, NEW e, NEW k,
           StreamOK(w, r, t, n, b, e, "receiving", k), w[1].type = "error"
    PROVE  ~e /\ StreamOK(Tail(w), r, t + 1, n, b, TRUE, "receiving", k)
<1> DEFINE q == Tail(w)
<1>1. /\ Len(q) = Len(w) - 1 /\ Len(w) \in Nat /\ Len(w) >= 1 /\ Len(r) \in Nat
      /\ \A i \in 1..(Len(w) - 1) : q[i] = w[i + 1]
  BY TailFacts, LenProperties
<1> HIDE DEF q
<1>2. 1 \in 1..Len(w) /\ t + 1 + Len(q) = t + Len(w)
  BY <1>1
<1>3. IsMessage(n, b, t + 1, w[1])
  BY <1>2 DEF StreamOK
<1>4. t + 1 = n + 1 /\ b = "error"
  BY <1>3 DEF IsMessage
<1>5. ~e
  BY <1>4 DEF StreamOK
<1>6. \A i \in 1..Len(q) : IsMessage(n, b, t + 1 + i, q[i]) /\ q[i].type # "exit"
  <2> SUFFICES ASSUME NEW i \in 1..Len(q)
               PROVE  IsMessage(n, b, t + 1 + i, q[i]) /\ q[i].type # "exit"
    OBVIOUS
  <2>1. i + 1 \in 1..Len(w) /\ q[i] = w[i + 1] /\ t + (i + 1) = t + 1 + i
    BY <1>1
  <2>2. IsMessage(n, b, t + (i + 1), w[i + 1]) /\ w[i + 1].type # "exit"
    BY <2>1 DEF StreamOK
  <2> QED
    BY <2>1, <2>2
<1>7. \A i \in 1..Len(r) : IsMessage(n, b, t + 1 + Len(q) + i, r[i])
  BY <1>2 DEF StreamOK
<1> QED
  BY <1>2, <1>4, <1>5, <1>6, <1>7 DEF StreamOK, q

\* The process puts message number n + 1, or behind an error n + 2; a value makes
\* one value more.
LEMMA StreamPut ==
    ASSUME NEW w \in Seq(Messages), NEW r \in Seq(Messages), NEW h \in Messages,
           NEW t \in Int, NEW n \in Nat, NEW b \in Bodies, NEW e, NEW v, NEW k,
           StreamOK(w, r, t, n, b, e, v, k),
           NEW n2 \in Nat, NEW b2 \in Bodies, NEW k2,
           n <= n2, b = "no" \/ (b2 = b /\ n2 = n), n2 = n \/ b2 # "error", e => b2 = b /\ n2 = n,
           IsMessage(n2, b2, t + Len(w) + Len(r) + 1, h),
           k2 \in {"queued", "running"} => b2 = "no" /\ t + Len(w) + Len(r) + 1 = n2,
           k2 = "leaving" =>
               /\ b2 \in {"ok", "error"}
               /\ t + Len(w) + Len(r) + 1 = n2 + (IF b2 = "error" THEN 1 ELSE 0)
    PROVE  StreamOK(w, Append(r, h), t, n2, b2, e, v, k2)
<1> DEFINE q == Append(r, h)
<1>1. /\ Len(w) \in Nat /\ Len(r) \in Nat /\ Len(q) = Len(r) + 1
      /\ \A i \in 1..Len(r) : q[i] = r[i]
      /\ q[Len(r) + 1] = h
  BY AppendFacts, LenProperties
<1> HIDE DEF q
<1>2. ASSUME NEW i \in Int, NEW x, IsMessage(n, b, i, x) PROVE IsMessage(n2, b2, i, x)
  BY <1>2 DEF IsMessage
<1>3. \A i \in 1..Len(w) :
         \/ v = "validating" /\ i = 1
         \/ IsMessage(n2, b2, t + i, w[i]) /\ w[i].type # "exit"
  <2>1. ASSUME NEW i \in 1..Len(w), ~(v = "validating" /\ i = 1)
        PROVE  IsMessage(n, b, t + i, w[i]) /\ w[i].type # "exit"
    BY <2>1 DEF StreamOK
  <2> QED
    BY <1>2, <2>1
<1>4. \A i \in 1..Len(q) : IsMessage(n2, b2, t + Len(w) + i, q[i])
  <2> SUFFICES ASSUME NEW i \in 1..Len(q) PROVE IsMessage(n2, b2, t + Len(w) + i, q[i])
    OBVIOUS
  <2>1. CASE i \in 1..Len(r)
    BY <1>1, <1>2, <2>1 DEF StreamOK
  <2>2. CASE i = Len(r) + 1
    <3>1. t + Len(w) + i = t + Len(w) + Len(r) + 1
      BY <1>1, <2>2
    <3> QED
      BY <1>1, <2>2, <3>1
  <2> QED
    BY <1>1, <2>1, <2>2
<1>5. t + Len(w) + Len(q) = t + Len(w) + Len(r) + 1
  BY <1>1
<1>6. /\ v = "validating" => w # <<>> /\ w[1].type \in {"value", "stream"} /\ t = -1
      /\ e \/ t <= n2
      /\ e => t = n2 + 1 /\ b2 = "error" /\ v # "validating"
  BY DEF StreamOK
<1> QED
  BY <1>3, <1>4, <1>5, <1>6 DEF StreamOK, q

\* The function returns without a value of its own.
LEMMA StreamReturns ==
    ASSUME NEW w \in Seq(Messages), NEW r \in Seq(Messages), NEW t \in Int, NEW n \in Nat,
           NEW e, NEW v, StreamOK(w, r, t, n, "no", e, v, "running")
    PROVE  StreamOK(w, r, t, n, "ok", e, v, "leaving")
<1>1. Len(w) \in Nat /\ Len(r) \in Nat
  BY LenProperties
<1>2. ASSUME NEW i \in Int, NEW x, IsMessage(n, "no", i, x) PROVE IsMessage(n, "ok", i, x)
  BY <1>2 DEF IsMessage
<1>3. ~e
  BY DEF StreamOK
<1>4. \A i \in 1..Len(w) :
         \/ v = "validating" /\ i = 1
         \/ IsMessage(n, "ok", t + i, w[i]) /\ w[i].type # "exit"
  <2>1. ASSUME NEW i \in 1..Len(w), ~(v = "validating" /\ i = 1)
        PROVE  IsMessage(n, "no", t + i, w[i]) /\ w[i].type # "exit"
    BY <2>1 DEF StreamOK
  <2> QED
    BY <1>2, <2>1
<1>5. \A i \in 1..Len(r) : IsMessage(n, "ok", t + Len(w) + i, r[i])
  <2>1. \A i \in 1..Len(r) : IsMessage(n, "no", t + Len(w) + i, r[i])
    BY DEF StreamOK
  <2> QED
    BY <1>1, <1>2, <2>1
<1> QED
  BY <1>1, <1>3, <1>4, <1>5 DEF StreamOK

\* A task that starts, and one that is lost.
LEMMA StreamTask ==
    ASSUME NEW w, NEW r, NEW t, NEW n, NEW b, NEW e, NEW v, NEW k, NEW k2,
           StreamOK(w, r, t, n, b, e, v, k),
           k2 \notin {"queued", "running", "leaving"} \/ (k = "queued" /\ k2 = "running")
    PROVE  StreamOK(w, r, t, n, b, e, v, k2)
BY DEF StreamOK

\* The type of the response is the first message, and nothing else is there yet.
LEMMA FirstMessage ==
    ASSUME NEW h \in Messages, h.type \in {"value", "stream"}, NEW m
    PROVE  /\ WireOK(<<h>>, -1, 0, "no", FALSE, "validating", m)
           /\ StreamOK(<<h>>, <<>>, -1, 0, "no", FALSE, "validating", "queued")
<1> DEFINE q == <<h>>
<1>1. Len(q) = 1 /\ q[1] = h /\ q # <<>> /\ \A i \in 1..Len(q) : i = 1
  OBVIOUS
<1> HIDE DEF q
<1>2. WireOK(q, -1, 0, "no", FALSE, "validating", m)
  BY <1>1 DEF WireOK
<1>3. Len(<<>>) = 0
  OBVIOUS
<1>4. StreamOK(q, <<>>, -1, 0, "no", FALSE, "validating", "queued")
  BY <1>1, <1>3 DEF StreamOK
<1> QED
  BY <1>2, <1>4 DEF q

-----------------------------------------------------------------------------
(* The inductive invariant. *)

\* How many messages the caller has taken, but for the type of the response.
Taken(c) ==
    Len(got[c]) + (IF error[c] THEN 1 ELSE 0) - (IF client[c] = "validating" THEN 1 ELSE 0)

Maps ==
    /\ how \in [Calls -> {"run", "iterate"}] /\ function \in [Calls -> {"value", "stream"}]
    /\ client \in [Calls -> {"idle", "validating", "failing", "receiving", "gone"}]
    /\ outcome \in [Calls -> {"pending", "returned", "raised"}]
    /\ connection \in [Calls -> {"none", "open", "closed", "lost", "left"}]
    /\ error \in [Calls -> BOOLEAN]
    /\ server \in [Calls -> {"none", "setup", "results", "future", "done"}]
    /\ task \in [Calls -> {"none", "queued", "running", "leaving", "finished", "failed",
                           "dead"}]
    /\ body \in [Calls -> Bodies]
    /\ made \in [Calls -> Nat] /\ inputs \in [Calls -> Nat] /\ queue \in [Calls -> Nat]
    /\ got \in [Calls -> Seq(Values)]
    /\ wire \in [Calls -> Seq(Messages)] /\ results \in [Calls -> Seq(Messages)]

Host == poolBroken \in BOOLEAN /\ manager \in BOOLEAN /\ faults \in 0..MaxFaults

\* The two sides of a call and its task go through their states together.
Control(c) ==
    /\ client[c] = "idle" <=> connection[c] = "none"
    /\ client[c] = "idle" <=> server[c] = "none"
    /\ client[c] = "gone" <=> connection[c] = "left"
    /\ client[c] = "gone" <=> outcome[c] # "pending"
    /\ server[c] = "setup" => client[c] \in {"validating", "gone"}
    /\ task[c] \in {"none", "queued", "running"} =>
           body[c] = "no" /\ (function[c] = "value" => made[c] = 0)

\* Nothing of a call is there before the server has its queues.
Fresh(c) ==
    server[c] \in {"none", "setup"} =>
        /\ task[c] = "none" /\ made[c] = 0 /\ queue[c] = 0
        /\ results[c] = <<>> /\ wire[c] = <<>> /\ got[c] = <<>> /\ ~error[c]

\* Items go to consumers only, and a call makes no more values than it may.
Items(c) ==
    /\ made[c] <= MaxYields[c] /\ inputs[c] <= MaxYields[c] /\ queue[c] <= MaxYields[c]
    /\ c \in Consumers => /\ function[c] = "stream"
                          /\ inputs[c] + queue[c] + made[c] <= MaxYields[c]
    /\ c \notin Consumers => inputs[c] = 0 /\ queue[c] = 0

\* The server closes a connection behind an exit.
Exits(c) ==
    (server[c] = "future" /\ connection[c] = "open") \/ connection[c] = "closed" =>
        \E i \in 1..Len(wire[c]) : wire[c][i].type = "exit"

\* The caller got the first values of the function.
Delivered(c) == Len(got[c]) <= made[c] /\ \A i \in 1..Len(got[c]) : got[c][i] = i

Wire(c) ==
    client[c] \in {"validating", "receiving"} =>
        WireOK(wire[c], Taken(c), made[c], body[c], error[c], client[c], manager)

Stream(c) ==
    manager /\ connection[c] = "open" /\ server[c] = "results" =>
        StreamOK(wire[c], results[c], Taken(c), made[c], body[c], error[c], client[c],
                 task[c])

CallOK(c) ==
    Control(c) /\ Fresh(c) /\ Items(c) /\ Exits(c) /\ Delivered(c) /\ Wire(c) /\ Stream(c)

IInv == Maps /\ Host /\ \A c \in Calls : CallOK(c)

\* It says that all variables have their types.
LEMMA TypesHold == IInv => TypeOK
<1> SUFFICES ASSUME IInv PROVE TypeOK
  OBVIOUS
<1>1. \A c \in Calls :
        /\ made[c] \in 0..MaxYields[c]
        /\ inputs[c] \in 0..MaxYields[c] /\ queue[c] \in 0..MaxYields[c]
        /\ c \in Consumers => inputs[c] + queue[c] + made[c] <= MaxYields[c]
  BY MaxYieldsAssumption DEF IInv, Maps, CallOK, Items
<1>2. \A c \in Calls :
        got[c] \in Seq(Values) /\ wire[c] \in Seq(Messages) /\ results[c] \in Seq(Messages)
  BY DEF IInv, Maps
<1> QED
  BY <1>1, <1>2 DEF IInv, Maps, Host, TypeOK, Bodies

\* Nothing has been called.
LEMMA InitIInv == Init => IInv
<1> SUFFICES ASSUME Init PROVE IInv
  OBVIOUS
<1>1. Maps
  <2>1. <<>> \in Seq(Values) /\ <<>> \in Seq(Messages)
    OBVIOUS
  <2> QED
    BY <2>1 DEF Init, Maps, Bodies
<1>2. Host
  <2>1. poolBroken = FALSE /\ manager = TRUE /\ faults = 0
    BY DEF Init
  <2>2. poolBroken \in BOOLEAN /\ manager \in BOOLEAN
    BY <2>1
  <2>3. faults \in 0..MaxFaults
    BY <2>1, MaxFaultsAssumption
  <2> QED
    BY <2>2, <2>3 DEF Host
<1>3. ASSUME NEW c \in Calls PROVE CallOK(c)
  <2>1. Len(got[c]) = 0
    BY DEF Init
  <2>2. Control(c) /\ Fresh(c) /\ Exits(c)
    BY DEF Init, Control, Fresh, Exits
  <2>3. Items(c)
    BY MaxYieldsAssumption, ConsumersAssumption DEF Init, Items
  <2>4. Delivered(c)
    BY <2>1 DEF Init, Delivered
  <2>5. Wire(c) /\ Stream(c)
    BY DEF Init, Wire, Stream
  <2> QED
    BY <2>2, <2>3, <2>4, <2>5 DEF CallOK
<1> QED
  BY <1>1, <1>2, <1>3 DEF IInv

-----------------------------------------------------------------------------
(* Steps of one call leave the others as they are. *)

Same(d) ==
    /\ how'[d] = how[d] /\ client'[d] = client[d] /\ error'[d] = error[d]
    /\ got'[d] = got[d] /\ outcome'[d] = outcome[d]
    /\ connection'[d] = connection[d] /\ wire'[d] = wire[d] /\ inputs'[d] = inputs[d]
    /\ function'[d] = function[d] /\ server'[d] = server[d] /\ task'[d] = task[d]
    /\ body'[d] = body[d] /\ made'[d] = made[d] /\ results'[d] = results[d]
    /\ queue'[d] = queue[d]

\* A call of which nothing changes stays as it should be.
LEMMA SameCall ==
    ASSUME NEW d \in Calls, CallOK(d), Same(d), manager' = manager
    PROVE  CallOK(d)'
<1>1. Taken(d)' = Taken(d)
  BY DEF Taken, Same
<1>2. Control(d)' /\ Fresh(d)' /\ Items(d)' /\ Exits(d)' /\ Delivered(d)'
  BY DEF CallOK, Same, Control, Fresh, Items, Exits, Delivered
<1>3. Wire(d)' /\ Stream(d)'
  BY <1>1 DEF CallOK, Same, Wire, Stream
<1> QED
  BY <1>2, <1>3 DEF CallOK

\* A step of the call c keeps the invariant if it keeps that of c.
LEMMA OneCall ==
    ASSUME IInv, NEW c \in Calls, Maps', Host', manager' = manager, CallOK(c)',
           \A d \in Calls \ {c} : Same(d)
    PROVE  IInv'
<1>1. ASSUME NEW d \in Calls \ {c} PROVE CallOK(d)'
  BY <1>1, SameCall DEF IInv
<1> QED
  BY <1>1 DEF IInv

-----------------------------------------------------------------------------
(* The server. *)

\* What ends a call with an error.
LEMMA EndMessages ==
    ASSUME NEW s \in Seq(Messages)
    PROVE  LET f == s \o <<Message("error"), Message("exit")>> IN
           /\ f \in Seq(Messages) /\ Len(f) = Len(s) + 2 /\ Len(s) \in Nat
           /\ \A i \in 1..Len(s) : f[i] = s[i]
           /\ f[Len(s) + 1].type = "error" /\ f[Len(s) + 2].type = "exit"
           /\ \A i \in 1..Len(f) :
                 \/ i \in 1..Len(s) /\ f[i] = s[i]
                 \/ f[i].type \in {"error", "exit"}
<1> DEFINE e == <<Message("error"), Message("exit")>>  f == s \o e
<1>1. Message("error") \in Messages /\ Message("exit") \in Messages
  BY DEF Message, Messages
<1>2. /\ e \in Seq(Messages) /\ Len(e) = 2 /\ e[1] = Message("error") /\ e[2] = Message("exit")
      /\ 1 \in 1..2 /\ 2 \in 1..2
  BY <1>1
<1> HIDE DEF e
<1>3. /\ f \in Seq(Messages) /\ Len(f) = Len(s) + Len(e) /\ Len(s) \in Nat
      /\ \A i \in 1..Len(s) : f[i] = s[i]
      /\ \A i \in 1..Len(e) : f[Len(s) + i] = e[i]
  <2>1. e \in Seq(Messages)
    BY <1>2
  <2> QED
    BY <2>1, ConcatFacts
<1> HIDE DEF f
<1>4. f[Len(s) + 1] = Message("error") /\ f[Len(s) + 2] = Message("exit")
  BY <1>2, <1>3
<1>5. f[Len(s) + 1].type = "error" /\ f[Len(s) + 2].type = "exit"
  BY <1>4 DEF Message
<1>6. \A i \in 1..Len(f) : i \in 1..Len(s) \/ i = Len(s) + 1 \/ i = Len(s) + 2
  BY <1>2, <1>3
<1> QED
  BY <1>2, <1>3, <1>5, <1>6 DEF f, e

\* The handler ends: behind an exit, unless the connection is gone.
LEMMA CloseStep ==
    ASSUME IInv, NEW c \in Calls, server[c] # "none", Close(c),
           connection[c] = "open" => \E i \in 1..Len(wire[c]) : wire[c][i].type = "exit",
           results' \in [Calls -> Seq(Messages)],
           \A d \in Calls \ {c} : results'[d] = results[d],
           UNCHANGED <<callerVars, wire, inputs, function, task, body, made, queue, hostVars>>
    PROVE  IInv'
<1> USE DEF callerVars, hostVars
<1>1. /\ server' = [server EXCEPT ![c] = "done"] /\ server'[c] = "done"
      /\ connection' = [connection EXCEPT
                            ![c] = IF connection[c] = "open" THEN "closed" ELSE connection[c]]
      /\ connection'[c] = IF connection[c] = "open" THEN "closed" ELSE connection[c]
  BY DEF Close, Goto, IInv, Maps
<1>2. Maps'
  BY <1>1 DEF IInv, Maps
<1>3. Host'
  BY DEF IInv, Host
<1>4. \A d \in Calls \ {c} : Same(d)
  BY <1>1 DEF IInv, Maps, Same
<1>5. CallOK(c)'
  <2>1. CallOK(c) /\ Taken(c)' = Taken(c)
    BY DEF IInv, Taken
  <2>2. Control(c)'
    BY <1>1, <2>1 DEF CallOK, Control
  <2>3. Fresh(c)' /\ Stream(c)'
    BY <1>1 DEF Fresh, Stream
  <2>4. Items(c)' /\ Delivered(c)'
    BY <2>1 DEF CallOK, Items, Delivered
  <2>5. Exits(c)'
    BY <1>1, <2>1 DEF CallOK, Exits
  <2>6. Wire(c)'
    BY <2>1 DEF CallOK, Wire
  <2> QED
    BY <2>2, <2>3, <2>4, <2>5, <2>6 DEF CallOK
<1> QED
  BY <1>2, <1>3, <1>4, <1>5, OneCall

\* The handler fails: the caller is told, unless the connection is gone.
LEMMA FailStep ==
    ASSUME IInv, NEW c \in Calls, server[c] # "none", NEW sent \in Seq(Messages),
           Fail(c, sent),
           client[c] \in {"validating", "receiving"} /\ connection[c] = "open" =>
               WireOK(wire[c] \o (sent \o <<Message("error"), Message("exit")>>), Taken(c),
                      made[c], body[c], error[c], client[c], manager),
           UNCHANGED <<callerVars, inputs, processVars, hostVars>>
    PROVE  IInv'
<1> USE DEF callerVars, processVars, hostVars
<1> DEFINE f == sent \o <<Message("error"), Message("exit")>>
<1>1. f \in Seq(Messages) /\ Len(f) \in Nat /\ Len(f) \in 1..Len(f) /\ f[Len(f)].type = "exit"
  <2>1. /\ f \in Seq(Messages) /\ Len(f) = Len(sent) + 2 /\ Len(sent) \in Nat
        /\ f[Len(sent) + 2].type = "exit"
    BY EndMessages
  <2> HIDE DEF f
  <2> QED
    BY <2>1
<1>2. Sent(c, f) /\ Close(c)
  BY DEF Fail
<1> HIDE DEF f
<1>3. /\ server' = [server EXCEPT ![c] = "done"] /\ server'[c] = "done"
      /\ connection' = [connection EXCEPT
                            ![c] = IF connection[c] = "open" THEN "closed" ELSE connection[c]]
      /\ connection'[c] = IF connection[c] = "open" THEN "closed" ELSE connection[c]
  BY <1>2 DEF Close, Goto, IInv, Maps
<1>4. CASE UNCHANGED wire /\ connection[c] # "open"
  BY <1>2, <1>4, CloseStep DEF IInv, Maps
<1>5. CASE connection[c] = "open" /\ wire' = [wire EXCEPT ![c] = wire[c] \o f]
  <2>1. /\ wire[c] \in Seq(Messages) /\ wire[c] \o f \in Seq(Messages)
        /\ \E i \in 1..Len(wire[c] \o f) : (wire[c] \o f)[i].type = "exit"
    <3>1. wire[c] \in Seq(Messages)
      BY DEF IInv, Maps
    <3>2. /\ wire[c] \o f \in Seq(Messages) /\ Len(wire[c] \o f) = Len(wire[c]) + Len(f)
          /\ Len(wire[c]) \in Nat
          /\ \A i \in 1..Len(f) : (wire[c] \o f)[Len(wire[c]) + i] = f[i]
      BY <1>1, <3>1, ConcatFacts
    <3>3. Len(wire[c]) + Len(f) \in 1..(Len(wire[c]) + Len(f))
      BY <1>1, <3>2
    <3> QED
      BY <1>1, <3>1, <3>2, <3>3
  <2>2. wire'[c] = wire[c] \o f
    BY <1>5 DEF IInv, Maps
  <2>3. Maps'
    BY <1>3, <1>5, <2>1 DEF IInv, Maps
  <2>4. Host'
    BY DEF IInv, Host
  <2>5. \A d \in Calls \ {c} : Same(d)
    BY <1>3, <1>5 DEF IInv, Maps, Same
  <2>6. CallOK(c)'
    <3>1. CallOK(c) /\ Taken(c)' = Taken(c)
      BY DEF IInv, Taken
    <3>2. Control(c)'
      BY <1>3, <3>1 DEF CallOK, Control
    <3>3. Fresh(c)' /\ Stream(c)'
      BY <1>3 DEF Fresh, Stream
    <3>4. Items(c)' /\ Delivered(c)'
      BY <3>1 DEF CallOK, Items, Delivered
    <3>5. Exits(c)'
      BY <2>1, <2>2 DEF Exits
    <3>6. Wire(c)'
      BY <1>5, <2>2, <3>1 DEF Wire, f
    <3> QED
      BY <3>2, <3>3, <3>4, <3>5, <3>6 DEF CallOK
  <2> QED
    BY <2>3, <2>4, <2>5, <2>6, OneCall
<1> QED
  BY <1>2, <1>4, <1>5 DEF Sent

\* The types of the variables of a call.
LEMMA CallTypes ==
    ASSUME IInv, NEW c \in Calls
    PROVE  /\ wire[c] \in Seq(Messages) /\ results[c] \in Seq(Messages)
           /\ got[c] \in Seq(Values) /\ Len(got[c]) \in Nat
           /\ Taken(c) \in Int /\ made[c] \in Nat /\ body[c] \in Bodies
<1>1. got[c] \in Seq(Values)
  BY DEF IInv, Maps
<1>2. Len(got[c]) \in Nat
  BY <1>1, LenProperties
<1> QED
  BY <1>1, <1>2 DEF IInv, Maps, Taken

\* An error behind what is on the wire.
LEMMA WireError ==
    ASSUME IInv, NEW c \in Calls, client[c] \in {"validating", "receiving"},
           NEW sent \in Seq(Messages), sent = <<>> \/ ~manager,
           \A i \in 1..Len(sent) : sent[i].type \in {"error", "exit"}
    PROVE  WireOK(wire[c] \o (sent \o <<Message("error"), Message("exit")>>), Taken(c),
                  made[c], body[c], error[c], client[c], manager)
<1> DEFINE f == sent \o <<Message("error"), Message("exit")>>
<1>1. /\ f \in Seq(Messages) /\ \A i \in 1..Len(f) : f[i].type \in {"error", "exit"}
      /\ Len(f) = Len(sent) + 2 /\ Len(sent) \in Nat /\ f[Len(sent) + 1].type = "error"
  <2>1. /\ f \in Seq(Messages) /\ Len(f) = Len(sent) + 2 /\ Len(sent) \in Nat
        /\ f[Len(sent) + 1].type = "error"
        /\ \A i \in 1..Len(f) :
              (i \in 1..Len(sent) /\ f[i] = sent[i]) \/ f[i].type \in {"error", "exit"}
    BY EndMessages
  <2> HIDE DEF f
  <2> QED
    BY <2>1
<1> HIDE DEF f
<1>2. ASSUME manager PROVE f # <<>> /\ f[1].type = "error"
  <2>1. Len(sent) = 0
    BY <1>2
  <2>2. Len(f) = 2 /\ f[1].type = "error" /\ Len(<<>>) = 0
    BY <1>1, <2>1
  <2> QED
    BY <2>2
<1>3. /\ wire[c] \in Seq(Messages) /\ Taken(c) \in Int /\ made[c] \in Nat
      /\ body[c] \in Bodies
      /\ WireOK(wire[c], Taken(c), made[c], body[c], error[c], client[c], manager)
  BY CallTypes DEF IInv, CallOK, Wire
<1>4. WireOK(wire[c] \o f, Taken(c), made[c], body[c], error[c], client[c], manager)
  BY <1>1, <1>2, <1>3, WireFail
<1> QED
  BY <1>4 DEF f

\* The same without a message in front of it.
LEMMA JustError ==
    ASSUME IInv, NEW c \in Calls, client[c] \in {"validating", "receiving"}
    PROVE  WireOK(wire[c] \o (<<>> \o <<Message("error"), Message("exit")>>), Taken(c),
                  made[c], body[c], error[c], client[c], manager)
<1> DEFINE s == <<>>
<1>1. s \in Seq(Messages) /\ Len(s) = 0 /\ s = <<>>
  OBVIOUS
<1> HIDE DEF s
<1>2. \A i \in 1..Len(s) : s[i].type \in {"error", "exit"}
  BY <1>1
<1>3. WireOK(wire[c] \o (s \o <<Message("error"), Message("exit")>>), Taken(c),
             made[c], body[c], error[c], client[c], manager)
  BY <1>1, <1>2, WireError
<1> QED
  BY <1>1, <1>3

\* The queues of the call are made, its function is submitted.
LEMMA SetupStep ==
    ASSUME IInv, NEW c \in Calls, Setup(c)
    PROVE  IInv'
<1> DEFINE h == [type |-> function[c], value |-> 0]  q == <<h>>
<1>1. h \in Messages /\ h.type \in {"value", "stream"}
  BY DEF IInv, Maps, Messages
<1>2. q \in Seq(Messages) /\ Len(q) = 1 /\ q[1] = h
  BY <1>1, OneMessage
<1>3. /\ server[c] = "setup" /\ client[c] \in {"validating", "gone"}
      /\ task[c] = "none" /\ made[c] = 0 /\ queue[c] = 0 /\ body[c] = "no"
      /\ results[c] = <<>> /\ wire[c] = <<>> /\ got[c] = <<>> /\ error[c] = FALSE
      /\ connection[c] = "open" => client[c] = "validating"
  BY DEF Setup, IInv, Maps, CallOK, Control, Fresh
<1>4. UNCHANGED <<callerVars, inputs, function, body, made, results, queue, hostVars>>
  BY DEF Setup
<1>5. Len(got[c]) = 0
  BY <1>3
<1>6. client[c] = "validating" => Taken(c) = -1
  BY <1>3, <1>5 DEF Taken
<1>7. <<>> \o q = q
  BY <1>2
<1>8. \/ /\ Sent(c, q) /\ task' = [task EXCEPT ![c] = "queued"]
         /\ Goto(c, "results") /\ UNCHANGED connection
      \/ manager /\ Fail(c, q) /\ UNCHANGED task
      \/ ~manager /\ Fail(c, <<>>) /\ UNCHANGED task
      \/ SendRaises(c) /\ Close(c) /\ UNCHANGED task
  BY DEF Setup
<1>9. /\ WireOK(q, -1, 0, "no", FALSE, "validating", manager)
      /\ StreamOK(q, <<>>, -1, 0, "no", FALSE, "validating", "queued")
  BY <1>1, FirstMessage
<1> HIDE DEF q, h
<1>10. CASE /\ Sent(c, q) /\ task' = [task EXCEPT ![c] = "queued"]
            /\ Goto(c, "results") /\ UNCHANGED connection
  <2>1. /\ server' = [server EXCEPT ![c] = "results"] /\ server'[c] = "results"
        /\ task'[c] = "queued"
    BY <1>10 DEF Goto, IInv, Maps
  <2>2. \/ connection[c] = "open" /\ wire' = [wire EXCEPT ![c] = q] /\ wire'[c] = q
        \/ connection[c] # "open" /\ UNCHANGED wire
    BY <1>3, <1>7, <1>10 DEF Sent, IInv, Maps
  <2> USE <1>4 DEF callerVars, hostVars
  <2>3. Maps'
    <3>1. wire' \in [Calls -> Seq(Messages)]
      BY <1>2, <2>2 DEF IInv, Maps
    <3> QED
      BY <1>10, <2>1, <3>1 DEF IInv, Maps
  <2>4. Host'
    BY DEF IInv, Host
  <2>5. \A d \in Calls \ {c} : Same(d)
    BY <1>10, <2>1, <2>2 DEF IInv, Maps, Same
  <2>6. CallOK(c)'
    <3>1. CallOK(c) /\ Taken(c)' = Taken(c)
      BY DEF IInv, Taken
    <3>2. Control(c)'
      BY <1>3, <1>10, <2>1, <3>1 DEF CallOK, Control
    <3>3. Fresh(c)'
      BY <2>1 DEF Fresh
    <3>4. Items(c)' /\ Delivered(c)'
      BY <3>1 DEF CallOK, Items, Delivered
    <3>5. Exits(c)'
      BY <1>10, <2>1, <2>2, <3>1 DEF CallOK, Exits
    <3>6. Wire(c)'
      BY <1>3, <1>6, <1>9, <2>2, <3>1 DEF CallOK, Wire
    <3>7. Stream(c)'
      BY <1>3, <1>6, <1>9, <1>10, <2>1, <2>2, <3>1 DEF Stream
    <3> QED
      BY <3>2, <3>3, <3>4, <3>5, <3>6, <3>7 DEF CallOK
  <2> QED
    BY <2>3, <2>4, <2>5, <2>6, OneCall DEF hostVars
<1>11. CASE manager /\ Fail(c, q) /\ UNCHANGED task
  <2>1. /\ q \o <<Message("error"), Message("exit")>> = q \o (<<>> \o <<Message("error"),
                                                                     Message("exit")>>)
        /\ wire[c] \o (q \o <<Message("error"), Message("exit")>>) =
               q \o <<Message("error"), Message("exit")>>
    <3> DEFINE e == <<Message("error"), Message("exit")>>
    <3>1. e \in Seq(Messages)
      BY DEF Message, Messages
    <3> HIDE DEF e
    <3>2. <<>> \o e = e /\ q \o e \in Seq(Messages)
      BY <1>2, <3>1, ConcatEmptySeq, ConcatProperties
    <3>3. <<>> \o (q \o e) = q \o e
      BY <3>2, ConcatEmptySeq
    <3> QED
      BY <1>3, <3>2, <3>3 DEF e
  <2>2. WireOK(q \o (<<>> \o <<Message("error"), Message("exit")>>), -1, 0, "no", FALSE,
               "validating", manager)
    <3> DEFINE f == <<>> \o <<Message("error"), Message("exit")>>
    <3>1. <<>> \in Seq(Messages) /\ Len(<<>>) = 0
      OBVIOUS
    <3>2. /\ f \in Seq(Messages) /\ Len(f) = 2 /\ f[1].type = "error"
          /\ \A i \in 1..Len(f) : f[i].type \in {"error", "exit"}
      <4>1. LET s == <<>> IN
            /\ f \in Seq(Messages) /\ Len(f) = Len(s) + 2
            /\ f[Len(s) + 1].type = "error"
            /\ \A i \in 1..Len(f) :
                  (i \in 1..Len(s) /\ f[i] = s[i]) \/ f[i].type \in {"error", "exit"}
        BY <3>1, EndMessages
      <4> HIDE DEF f
      <4> QED
        BY <3>1, <4>1
    <3> HIDE DEF f
    <3>3. f # <<>> /\ -1 \in Int /\ 0 \in Nat /\ "no" \in Bodies
      BY <3>1, <3>2 DEF Bodies
    <3>4. WireOK(q \o f, -1, 0, "no", FALSE, "validating", manager)
      BY <1>2, <1>9, <3>2, <3>3, WireFail
    <3> QED
      BY <3>4 DEF f
  <2>3. client[c] \in {"validating", "receiving"} /\ connection[c] = "open" =>
            WireOK(wire[c] \o (q \o <<Message("error"), Message("exit")>>), Taken(c),
                   made[c], body[c], error[c], client[c], manager)
    BY <1>3, <1>6, <2>1, <2>2
  <2> QED
    BY <1>2, <1>3, <1>4, <1>11, <2>3, FailStep DEF processVars
<1>12. CASE ~manager /\ Fail(c, <<>>) /\ UNCHANGED task
  <2>1. <<>> \in Seq(Messages) /\ Len(<<>>) = 0
    OBVIOUS
  <2>2. client[c] \in {"validating", "receiving"} =>
            WireOK(wire[c] \o (<<>> \o <<Message("error"), Message("exit")>>), Taken(c),
                   made[c], body[c], error[c], client[c], manager)
    BY JustError
  <2> QED
    BY <1>3, <1>4, <1>12, <2>1, <2>2, FailStep DEF processVars
<1>13. CASE SendRaises(c) /\ Close(c) /\ UNCHANGED task
  BY <1>3, <1>4, <1>13, CloseStep DEF SendRaises, IInv, Maps
<1> QED
  BY <1>8, <1>10, <1>11, <1>12, <1>13

\* future.result() ends the handler.
LEMMA AwaitFutureStep ==
    ASSUME IInv, NEW c \in Calls, AwaitFuture(c)
    PROVE  IInv'
<1>1. server[c] = "future" /\ UNCHANGED <<callerVars, inputs, processVars, hostVars>>
  BY DEF AwaitFuture
<1>2. CASE Close(c) /\ UNCHANGED wire
  <2>1. connection[c] = "open" => \E i \in 1..Len(wire[c]) : wire[c][i].type = "exit"
    BY <1>1 DEF IInv, CallOK, Exits
  <2> QED
    BY <1>1, <1>2, <2>1, CloseStep DEF processVars, IInv, Maps
<1>3. CASE Fail(c, <<>>)
  <2>1. <<>> \in Seq(Messages) /\ Len(<<>>) = 0
    OBVIOUS
  <2>2. client[c] \in {"validating", "receiving"} =>
            WireOK(wire[c] \o (<<>> \o <<Message("error"), Message("exit")>>), Taken(c),
                   made[c], body[c], error[c], client[c], manager)
    BY JustError
  <2> QED
    BY <1>1, <1>3, <2>1, <2>2, FailStep
<1> QED
  BY <1>2, <1>3 DEF AwaitFuture

\* A message of the results is passed on.
LEMMA PassOnStep ==
    ASSUME IInv, NEW c \in Calls, server[c] = "results", manager, results[c] # <<>>,
           results' = [results EXCEPT ![c] = Tail(@)],
           Sent(c, <<Head(results[c])>>),
           Goto(c, IF Head(results[c]).type = "exit" THEN "future" ELSE "results"),
           UNCHANGED <<callerVars, connection, inputs, function, task, body, made, queue,
                       hostVars>>
    PROVE  IInv'
<1> USE DEF callerVars, hostVars
<1> DEFINE h == Head(results[c])  w == wire[c]  r == results[c]
<1>1. /\ w \in Seq(Messages) /\ r \in Seq(Messages) /\ Taken(c) \in Int /\ made[c] \in Nat
      /\ body[c] \in Bodies /\ r # <<>>
  BY CallTypes
<1>2. h \in Messages /\ Tail(r) \in Seq(Messages)
  BY <1>1, TailFacts
<1>3. /\ w \o <<h>> \in Seq(Messages) /\ Len(w) \in Nat /\ Len(w \o <<h>>) = Len(w) + 1
      /\ (w \o <<h>>)[Len(w) + 1] = h
  <2>1. <<h>> \in Seq(Messages) /\ Len(<<h>>) = 1 /\ <<h>>[1] = h
    BY <1>2, OneMessage
  <2>2. /\ w \o <<h>> \in Seq(Messages) /\ Len(w \o <<h>>) = Len(w) + Len(<<h>>)
        /\ Len(w) \in Nat
        /\ \A i \in 1..Len(<<h>>) : (w \o <<h>>)[Len(w) + i] = <<h>>[i]
    BY <1>1, <2>1, ConcatFacts
  <2>3. 1 \in 1..Len(<<h>>)
    BY <2>1
  <2> QED
    BY <2>1, <2>2, <2>3
<1>4. /\ server'[c] = IF h.type = "exit" THEN "future" ELSE "results"
      /\ server' = [server EXCEPT ![c] = IF h.type = "exit" THEN "future" ELSE "results"]
      /\ results'[c] = Tail(r)
      /\ \/ /\ connection[c] = "open"
            /\ wire' = [wire EXCEPT ![c] = w \o <<h>>] /\ wire'[c] = w \o <<h>>
         \/ connection[c] \in {"lost", "left"} /\ UNCHANGED wire
  BY DEF Goto, Sent, IInv, Maps
<1>5. Maps'
  <2>1. results' \in [Calls -> Seq(Messages)]
    BY <1>2 DEF IInv, Maps
  <2>2. wire' \in [Calls -> Seq(Messages)]
    <3>1. CASE UNCHANGED wire
      BY <3>1 DEF IInv, Maps
    <3>2. CASE wire' = [wire EXCEPT ![c] = w \o <<h>>]
      <4> DEFINE q == w \o <<h>>
      <4> HIDE DEF q
      <4>1. q \in Seq(Messages) /\ wire' = [wire EXCEPT ![c] = q]
        BY <1>3, <3>2 DEF q
      <4> QED
        BY <4>1 DEF IInv, Maps
    <3> QED
      BY <1>4, <3>1, <3>2
  <2> QED
    BY <1>4, <2>1, <2>2 DEF IInv, Maps
<1>6. Host'
  BY DEF IInv, Host
<1>7. \A d \in Calls \ {c} : Same(d)
  BY <1>4 DEF IInv, Maps, Same
<1>8. CallOK(c)'
  <2>1. CallOK(c) /\ Taken(c)' = Taken(c)
    BY DEF IInv, Taken
  <2>2. Control(c)'
    BY <1>4, <2>1 DEF CallOK, Control
  <2>3. Fresh(c)'
    BY <1>4 DEF Fresh
  <2>4. Items(c)' /\ Delivered(c)'
    BY <2>1 DEF CallOK, Items, Delivered
  <2>5. CASE connection[c] \in {"lost", "left"} /\ UNCHANGED wire
    <3>1. Exits(c)' /\ Stream(c)'
      BY <2>5 DEF Exits, Stream
    <3>2. Wire(c)'
      BY <2>1, <2>5 DEF CallOK, Wire
    <3> QED
      BY <2>2, <2>3, <2>4, <3>1, <3>2 DEF CallOK
  <2>6. CASE connection[c] = "open" /\ wire'[c] = w \o <<h>>
    <3>1. StreamOK(w, r, Taken(c), made[c], body[c], error[c], client[c], task[c])
      BY <2>1, <2>6 DEF CallOK, Stream
    <3>2. Exits(c)'
      <4>1. Len(w) + 1 \in 1..Len(w \o <<h>>)
        BY <1>3
      <4> HIDE DEF h, w
      <4>2. h.type = "exit" => \E i \in 1..Len(wire'[c]) : wire'[c][i].type = "exit"
        BY <1>3, <2>6, <4>1
      <4> QED
        BY <1>4, <2>6, <4>2 DEF Exits
    <3>3. Wire(c)'
      <4>1. ASSUME client[c] \in {"validating", "receiving"}
            PROVE  WireOK(w \o <<h>>, Taken(c), made[c], body[c], error[c], client[c], manager)
        <5>1. WireOK(w, Taken(c), made[c], body[c], error[c], client[c], manager)
          BY <2>1, <4>1 DEF CallOK, Wire
        <5> QED
          BY <1>1, <3>1, <5>1, WireSend
      <4> QED
        BY <2>1, <2>6, <4>1 DEF Wire
    <3>4. Stream(c)'
      <4>1. ASSUME h.type # "exit"
            PROVE  StreamOK(w \o <<h>>, Tail(r), Taken(c), made[c], body[c], error[c],
                            client[c], task[c])
        BY <1>1, <3>1, <4>1, StreamSend
      <4> QED
        BY <1>4, <2>1, <2>6, <4>1 DEF Stream
    <3> QED
      BY <2>2, <2>3, <2>4, <3>2, <3>3, <3>4 DEF CallOK
  <2> QED
    BY <1>4, <2>5, <2>6
<1> QED
  BY <1>5, <1>6, <1>7, <1>8, OneCall

\* One round of _handle_rpc_results.
LEMMA HandleResultStep ==
    ASSUME IInv, NEW c \in Calls, HandleResult(c)
    PROVE  IInv'
<1>1. /\ server[c] = "results"
      /\ UNCHANGED <<callerVars, inputs, function, task, body, made, queue, hostVars>>
  BY DEF HandleResult
<1>2. ASSUME manager, results[c] # <<>>, results' = [results EXCEPT ![c] = Tail(@)],
             Sent(c, <<Head(results[c])>>),
             Goto(c, IF Head(results[c]).type = "exit" THEN "future" ELSE "results"),
             UNCHANGED connection
      PROVE  IInv'
  BY <1>1, <1>2, PassOnStep
<1>3. ASSUME results[c] # <<>>, results' = [results EXCEPT ![c] = Tail(@)],
             SendRaises(c), Close(c)
      PROVE  IInv'
  <2>1. results[c] \in Seq(Messages)
    BY CallTypes
  <2>2. Tail(results[c]) \in Seq(Messages)
    BY <1>3, <2>1, TailFacts
  <2>3. results' \in [Calls -> Seq(Messages)] /\ \A d \in Calls \ {c} : results'[d] = results[d]
    BY <1>3, <2>2 DEF IInv, Maps
  <2> QED
    BY <1>1, <1>3, <2>3, CloseStep DEF SendRaises
<1>4. ASSUME ~manager, Fail(c, <<Message("exit")>>), UNCHANGED results
      PROVE  IInv'
  <2> DEFINE m == Message("exit")  s == <<m>>
  <2>1. m \in Messages /\ m.type = "exit"
    BY DEF Message, Messages
  <2>2. s \in Seq(Messages) /\ Len(s) = 1 /\ s[1] = m
    BY <2>1, OneMessage
  <2>3. Fail(c, s)
    BY <1>4
  <2> HIDE DEF s, m
  <2>4. \A i \in 1..Len(s) : s[i].type \in {"error", "exit"}
    BY <2>1, <2>2
  <2>5. client[c] \in {"validating", "receiving"} =>
            WireOK(wire[c] \o (s \o <<Message("error"), Message("exit")>>), Taken(c),
                   made[c], body[c], error[c], client[c], manager)
    BY <1>4, <2>2, <2>4, WireError
  <2> QED
    BY <1>1, <1>4, <2>2, <2>3, <2>5, FailStep DEF processVars
<1> QED
  BY <1>2, <1>3, <1>4 DEF HandleResult

-----------------------------------------------------------------------------
(* The processes. *)

\* What a step of the function of a call has to keep.
LEMMA TaskCall ==
    ASSUME IInv, NEW c \in Calls, Maps', manager' = manager,
           UNCHANGED <<callerVars, connection, wire, function, server>>,
           server[c] \notin {"none", "setup"} \/ Same(c),
           Items(c)', made[c] <= made'[c],
           body[c] = "ok" => body'[c] = "ok" /\ made'[c] = made[c],
           task'[c] \in {"none", "queued", "running"} =>
               body'[c] = "no" /\ (function[c] = "value" => made'[c] = 0),
           manager /\ connection[c] = "open" /\ server[c] = "results" =>
               StreamOK(wire[c], results'[c], Taken(c), made'[c], body'[c], error[c],
                        client[c], task'[c])
    PROVE  CallOK(c)'
<1> USE DEF callerVars
<1>1. CallOK(c) /\ Taken(c)' = Taken(c)
  BY DEF IInv, Taken
<1>2. Control(c)'
  BY <1>1 DEF CallOK, Control
<1>3. Fresh(c)'
  BY <1>1 DEF CallOK, Fresh, Same
<1>4. Exits(c)'
  BY <1>1 DEF CallOK, Exits
<1>5. Delivered(c)'
  <2>1. made[c] \in Nat /\ made'[c] \in Nat /\ Len(got[c]) \in Nat
    BY CallTypes DEF Maps
  <2> QED
    BY <1>1, <2>1 DEF CallOK, Delivered
<1>6. Wire(c)'
  <2>1. /\ wire[c] \in Seq(Messages) /\ Taken(c) \in Int /\ made[c] \in Nat
        /\ made'[c] \in Nat /\ body[c] \in Bodies /\ body'[c] \in Bodies
    BY CallTypes DEF Maps
  <2>2. ASSUME client[c] \in {"validating", "receiving"}
        PROVE  WireOK(wire[c], Taken(c), made'[c], body'[c], error[c], client[c], manager)
    <3>1. WireOK(wire[c], Taken(c), made[c], body[c], error[c], client[c], manager)
      BY <1>1, <2>2 DEF CallOK, Wire
    <3> QED
      BY <2>1, <3>1, WireGrows
  <2> QED
    BY <1>1, <2>2 DEF Wire
<1>7. Stream(c)'
  BY <1>1 DEF Stream
<1> QED
  BY <1>2, <1>3, <1>4, <1>5, <1>6, <1>7 DEF CallOK

\* An item is read from the socket to the queue of the function.
LEMMA DispatchStep ==
    ASSUME IInv, NEW c \in Calls, Dispatch(c)
    PROVE  IInv'
<1>1. /\ UNCHANGED <<callerVars, connection, wire, server, function, task, body, made,
                     results, hostVars>>
      /\ inputs' = [inputs EXCEPT ![c] = @ - 1] /\ inputs[c] > 0
      /\ queue' = [queue EXCEPT ![c] = @ + 1] /\ server[c] = "results"
  BY DEF Dispatch
<1> USE <1>1 DEF callerVars, hostVars
<1>2. Maps'
  BY DEF IInv, Maps
<1>3. Host'
  BY DEF IInv, Host
<1>4. \A d \in Calls \ {c} : Same(d)
  BY DEF IInv, Maps, Same
<1>5. CallOK(c)'
  <2>1. CallOK(c)
    BY DEF IInv
  <2>2. Items(c)'
    <3>1. /\ inputs'[c] = inputs[c] - 1 /\ queue'[c] = queue[c] + 1 /\ made'[c] = made[c]
          /\ inputs[c] \in Nat /\ queue[c] \in Nat /\ made[c] \in Nat /\ MaxYields[c] \in Nat
      BY MaxYieldsAssumption DEF IInv, Maps
    <3> QED
      BY <2>1, <3>1 DEF CallOK, Items
  <2>3. made[c] <= made'[c]
    BY DEF IInv, Maps
  <2>4. StreamOK(wire[c], results'[c], Taken(c), made'[c], body'[c], error[c], client[c],
                 task'[c]) \/ ~(manager /\ connection[c] = "open")
    BY <2>1 DEF CallOK, Stream
  <2> QED
    BY <1>2, <2>1, <2>2, <2>3, <2>4, TaskCall DEF CallOK, Control
<1> QED
  BY <1>2, <1>3, <1>4, <1>5, OneCall

\* The pool starts the function.
LEMMA RunTaskStep ==
    ASSUME IInv, NEW c \in Calls, RunTask(c)
    PROVE  IInv'
<1>1. /\ UNCHANGED <<callerVars, connectionVars, function, body, made, results, queue,
                     server, hostVars>>
      /\ task' = [task EXCEPT ![c] = "running"] /\ task[c] = "queued"
  BY DEF RunTask
<1> USE <1>1 DEF callerVars, connectionVars, hostVars
<1>2. Maps'
  BY DEF IInv, Maps
<1>3. Host'
  BY DEF IInv, Host
<1>4. \A d \in Calls \ {c} : Same(d)
  BY DEF IInv, Maps, Same
<1>5. CallOK(c)'
  <2>1. CallOK(c) /\ task'[c] = "running"
    BY DEF IInv, Maps
  <2>2. Items(c)'
    BY <2>1 DEF CallOK, Items
  <2>3. made[c] <= made'[c]
    BY DEF IInv, Maps
  <2>4. manager /\ connection[c] = "open" /\ server[c] = "results" =>
            StreamOK(wire[c], results'[c], Taken(c), made'[c], body'[c], error[c], client[c],
                     "running")
    BY <2>1, StreamTask DEF CallOK, Stream
  <2> QED
    BY <1>2, <2>1, <2>2, <2>3, <2>4, TaskCall DEF CallOK, Control, Fresh
<1> QED
  BY <1>2, <1>3, <1>4, <1>5, OneCall

\* A put of the process puts its message behind those of the queue.
LEMMA PutFacts ==
    ASSUME IInv, NEW c \in Calls, NEW m \in Messages, Put(c, m)
    PROVE  /\ results' \in [Calls -> Seq(Messages)] /\ results'[c] = Append(results[c], m)
           /\ \A d \in Calls \ {c} : results'[d] = results[d]
<1> DEFINE q == Append(results[c], m)
<1>1. results[c] \in Seq(Messages)
  BY CallTypes
<1>2. q \in Seq(Messages)
  BY <1>1, AppendFacts
<1>3. results' = [results EXCEPT ![c] = q]
  BY DEF Put
<1> HIDE DEF q
<1>4. /\ results' \in [Calls -> Seq(Messages)] /\ results'[c] = q
      /\ \A d \in Calls \ {c} : results'[d] = results[d]
  BY <1>2, <1>3 DEF IInv, Maps
<1> QED
  BY <1>4 DEF q

\* A task that runs has put all that was made, and nothing else.
LEMMA RunningCall ==
    ASSUME IInv, NEW c \in Calls, task[c] = "running"
    PROVE  /\ body[c] = "no"
           /\ function[c] = "value" => made[c] = 0
           /\ server[c] \notin {"none", "setup"}
           /\ made[c] \in Nat /\ made[c] <= MaxYields[c] /\ MaxYields[c] \in Nat
BY CallTypes, MaxYieldsAssumption DEF IInv, CallOK, Control, Fresh, Items

\* The function yields a value.
LEMMA YieldStep ==
    ASSUME IInv, NEW c \in Calls, Yield(c)
    PROVE  IInv'
<1> DEFINE n == made[c] + 1  m == [type |-> "yield", value |-> n]
<1>1. /\ UNCHANGED <<callerVars, connectionVars, function, task, body, server, hostVars>>
      /\ task[c] = "running" /\ function[c] = "stream" /\ manager /\ made[c] < MaxYields[c]
      /\ c \in Consumers => queue[c] > 0
      /\ queue' = [queue EXCEPT ![c] = IF c \in Consumers THEN @ - 1 ELSE @]
      /\ made' = [made EXCEPT ![c] = @ + 1] /\ Put(c, [type |-> "yield", value |-> made'[c]])
  BY DEF Yield
<1> USE DEF callerVars, connectionVars, hostVars
<1>2. /\ body[c] = "no" /\ server[c] \notin {"none", "setup"} /\ CallOK(c)
      /\ made[c] \in Nat /\ n \in Nat /\ n <= MaxYields[c] /\ n \in 1..MaxYields[c]
      /\ made'[c] = n
  <2>1. /\ body[c] = "no" /\ server[c] \notin {"none", "setup"} /\ CallOK(c)
        /\ made[c] \in Nat /\ MaxYields[c] \in Nat
    BY <1>1, RunningCall DEF IInv
  <2>2. made'[c] = n
    BY <1>1 DEF IInv, Maps
  <2> QED
    BY <1>1, <2>1, <2>2
<1>3. n \in Values /\ m \in Messages
  BY <1>2 DEF Values, Messages
<1>4. /\ results' \in [Calls -> Seq(Messages)] /\ results'[c] = Append(results[c], m)
      /\ \A d \in Calls \ {c} : results'[d] = results[d]
  BY <1>1, <1>2, <1>3, PutFacts
<1>5. made' \in [Calls -> Nat] /\ queue' \in [Calls -> Nat]
  BY <1>1 DEF IInv, Maps
<1>6. Maps'
  BY <1>1, <1>4, <1>5 DEF IInv, Maps
<1>7. Host'
  BY <1>1 DEF IInv, Host
<1>8. \A d \in Calls \ {c} : Same(d)
  BY <1>1, <1>4 DEF IInv, Maps, Same
<1>9. CallOK(c)'
  <2>1. Items(c)'
    <3>1. /\ queue'[c] = IF c \in Consumers THEN queue[c] - 1 ELSE queue[c]
          /\ inputs'[c] = inputs[c] /\ function'[c] = function[c]
          /\ inputs[c] \in Nat /\ queue[c] \in Nat /\ MaxYields[c] \in Nat
      BY <1>1, MaxYieldsAssumption DEF IInv, Maps
    <3> HIDE DEF m
    <3> QED
      BY <1>1, <1>2, <3>1 DEF CallOK, Items
  <2>2. ASSUME manager, connection[c] = "open", server[c] = "results"
        PROVE  StreamOK(wire[c], Append(results[c], m), Taken(c), n, body[c], error[c],
                        client[c], task[c])
    <3>1. StreamOK(wire[c], results[c], Taken(c), made[c], body[c], error[c], client[c],
                   task[c])
      BY <1>2, <2>2 DEF CallOK, Stream
    <3>2. Taken(c) + Len(wire[c]) + Len(results[c]) = made[c] /\ ~error[c]
      BY <1>1, <1>2, <3>1 DEF StreamOK
    <3>3. Taken(c) + Len(wire[c]) + Len(results[c]) + 1 = n /\ made[c] <= n
      BY <1>2, <3>2
    <3>4. IsMessage(n, body[c], n, m)
      BY <1>2 DEF IsMessage
    <3>5. /\ wire[c] \in Seq(Messages) /\ results[c] \in Seq(Messages)
          /\ Taken(c) \in Int /\ body[c] \in Bodies
      BY CallTypes
    <3> HIDE DEF m, n
    <3> QED
      BY <1>1, <1>2, <1>3, <3>1, <3>2, <3>3, <3>4, <3>5, StreamPut
  <2> HIDE DEF m, n
  <2>3. made[c] <= made'[c]
    BY <1>2 DEF n
  <2> QED
    BY <1>1, <1>2, <1>4, <1>6, <2>1, <2>2, <2>3, TaskCall
<1> QED
  BY <1>1, <1>6, <1>7, <1>8, <1>9, OneCall

\* The function returns.
LEMMA FinishStep ==
    ASSUME IInv, NEW c \in Calls, Finish(c)
    PROVE  IInv'
<1> DEFINE m == [type |-> "return", value |-> 1]
<1>1. /\ UNCHANGED <<callerVars, connectionVars, function, queue, server, hostVars>>
      /\ task[c] = "running" /\ manager
      /\ body' = [body EXCEPT ![c] = "ok"] /\ task' = [task EXCEPT ![c] = "leaving"]
      /\ \/ /\ function[c] = "value"
            /\ made' = [made EXCEPT ![c] = 1] /\ Put(c, m)
         \/ function[c] # "value" /\ UNCHANGED <<made, results>>
  BY DEF Finish
<1> USE DEF callerVars, connectionVars, hostVars
<1>2. /\ body[c] = "no" /\ server[c] \notin {"none", "setup"} /\ CallOK(c)
      /\ function[c] = "value" => made[c] = 0
      /\ made[c] \in Nat /\ MaxYields[c] \in Nat \ {0}
      /\ body'[c] = "ok" /\ task'[c] = "leaving"
  <2>1. body'[c] = "ok" /\ task'[c] = "leaving"
    BY <1>1 DEF IInv, Maps
  <2> QED
    BY <1>1, <2>1, RunningCall, MaxYieldsAssumption DEF IInv
<1>3. 1 \in Values /\ m \in Messages
  <2>1. 1 \in 1..MaxYields[c]
    BY <1>2
  <2>2. 1 \in Values
    BY <2>1 DEF Values
  <2> QED
    BY <2>2 DEF Messages
<1>4. /\ results' \in [Calls -> Seq(Messages)]
      /\ \A d \in Calls \ {c} : results'[d] = results[d]
      /\ function[c] = "value" => results'[c] = Append(results[c], m)
  BY <1>1, <1>3, PutFacts DEF IInv, Maps
<1>5. /\ made' \in [Calls -> Nat] /\ \A d \in Calls \ {c} : made'[d] = made[d]
      /\ function[c] = "value" => made'[c] = 1
  BY <1>1 DEF IInv, Maps
<1>6. body' \in [Calls -> Bodies]
  BY <1>1 DEF IInv, Maps, Bodies
<1>7. Maps'
  BY <1>1, <1>4, <1>5, <1>6 DEF IInv, Maps
<1>8. Host'
  BY <1>1 DEF IInv, Host
<1>9. \A d \in Calls \ {c} : Same(d)
  BY <1>1, <1>4, <1>5 DEF IInv, Maps, Same
<1>10. CallOK(c)'
  <2>1. Items(c)'
    <3>1. CASE function[c] = "value"
      <4>1. /\ made'[c] = 1 /\ 1 <= MaxYields[c] /\ inputs'[c] = inputs[c]
            /\ queue'[c] = queue[c] /\ function'[c] = function[c]
        BY <1>1, <1>2, <1>5, <3>1
      <4> QED
        BY <1>2, <3>1, <4>1 DEF CallOK, Items
    <3>2. CASE function[c] # "value"
      BY <1>1, <1>2, <3>2 DEF CallOK, Items
    <3> QED
      BY <3>1, <3>2
  <2>2. made[c] <= made'[c]
    BY <1>1, <1>2, <1>5
  <2>3. ASSUME manager, connection[c] = "open", server[c] = "results"
        PROVE  StreamOK(wire[c], results'[c], Taken(c), made'[c], body'[c], error[c],
                        client[c], task'[c])
    <3>1. StreamOK(wire[c], results[c], Taken(c), made[c], "no", error[c], client[c],
                   "running")
      BY <1>1, <1>2, <2>3 DEF CallOK, Stream
    <3>2. Taken(c) + Len(wire[c]) + Len(results[c]) = made[c] /\ ~error[c]
      BY <3>1 DEF StreamOK
    <3>3. /\ wire[c] \in Seq(Messages) /\ results[c] \in Seq(Messages)
          /\ Taken(c) \in Int
      BY CallTypes
    <3>4. CASE function[c] = "value"
      <4>1. Taken(c) + Len(wire[c]) + Len(results[c]) + 1 = 1
        BY <1>2, <3>2, <3>4
      <4>2. /\ IsMessage(1, "ok", Taken(c) + Len(wire[c]) + Len(results[c]) + 1, m)
            /\ Taken(c) + Len(wire[c]) + Len(results[c]) + 1 =
                   1 + (IF "ok" = "error" THEN 1 ELSE 0)
        BY <4>1 DEF IsMessage
      <4>3. 1 \in Nat /\ "no" \in Bodies /\ "ok" \in Bodies /\ made[c] <= 1
        BY <1>2, <3>4 DEF Bodies
      <4> HIDE DEF m
      <4>4. StreamOK(wire[c], Append(results[c], m), Taken(c), 1, "ok", error[c], client[c],
                     "leaving")
        BY <1>2, <1>3, <3>1, <3>2, <3>3, <4>2, <4>3, StreamPut
      <4> QED
        BY <1>2, <1>4, <1>5, <3>4, <4>4
    <3>5. CASE function[c] # "value"
      <4>1. StreamOK(wire[c], results[c], Taken(c), made[c], "ok", error[c], client[c],
                     "leaving")
        BY <1>2, <3>1, <3>3, StreamReturns
      <4> QED
        BY <1>1, <1>2, <3>5, <4>1
    <3> QED
      BY <3>4, <3>5
  <2> HIDE DEF m
  <2> QED
    BY <1>1, <1>2, <1>7, <2>1, <2>2, <2>3, TaskCall
<1> QED
  BY <1>1, <1>7, <1>8, <1>9, <1>10, OneCall

\* The function raises.
LEMMA ThrowStep ==
    ASSUME IInv, NEW c \in Calls, Throw(c)
    PROVE  IInv'
<1> DEFINE m == Message("error")
<1>1. /\ UNCHANGED <<callerVars, connectionVars, function, made, queue, server, hostVars>>
      /\ task[c] = "running" /\ manager /\ Put(c, m)
      /\ body' = [body EXCEPT ![c] = "error"] /\ task' = [task EXCEPT ![c] = "leaving"]
  BY DEF Throw
<1> USE DEF callerVars, connectionVars, hostVars
<1>2. /\ body[c] = "no" /\ server[c] \notin {"none", "setup"} /\ CallOK(c)
      /\ made[c] \in Nat /\ body'[c] = "error" /\ task'[c] = "leaving"
  <2>1. body'[c] = "error" /\ task'[c] = "leaving"
    BY <1>1 DEF IInv, Maps
  <2> QED
    BY <1>1, <2>1, RunningCall DEF IInv
<1>3. m \in Messages /\ m.type = "error"
  BY DEF Message, Messages
<1>4. /\ results' \in [Calls -> Seq(Messages)] /\ results'[c] = Append(results[c], m)
      /\ \A d \in Calls \ {c} : results'[d] = results[d]
  BY <1>1, <1>3, PutFacts
<1> HIDE DEF m
<1>5. body' \in [Calls -> Bodies]
  BY <1>1 DEF IInv, Maps, Bodies
<1>6. Maps'
  BY <1>1, <1>4, <1>5 DEF IInv, Maps
<1>7. Host'
  BY <1>1 DEF IInv, Host
<1>8. \A d \in Calls \ {c} : Same(d)
  BY <1>1, <1>4 DEF IInv, Maps, Same
<1>9. CallOK(c)'
  <2>1. Items(c)'
    BY <1>1, <1>2 DEF CallOK, Items
  <2>2. made[c] <= made'[c]
    BY <1>1, <1>2
  <2>3. ASSUME manager, connection[c] = "open", server[c] = "results"
        PROVE  StreamOK(wire[c], Append(results[c], m), Taken(c), made[c], "error", error[c],
                        client[c], "leaving")
    <3>1. StreamOK(wire[c], results[c], Taken(c), made[c], "no", error[c], client[c],
                   "running")
      BY <1>1, <1>2, <2>3 DEF CallOK, Stream
    <3>2. Taken(c) + Len(wire[c]) + Len(results[c]) = made[c] /\ ~error[c]
      BY <3>1 DEF StreamOK
    <3>3. /\ wire[c] \in Seq(Messages) /\ results[c] \in Seq(Messages)
          /\ Taken(c) \in Int
      BY CallTypes
    <3>4. Taken(c) + Len(wire[c]) + Len(results[c]) + 1 = made[c] + 1
      BY <3>2
    <3>5. IsMessage(made[c], "error", made[c] + 1, m)
      BY <1>3 DEF IsMessage
    <3>6. "no" \in Bodies /\ "error" \in Bodies /\ made[c] <= made[c]
      BY <1>2 DEF Bodies
    <3> QED
      BY <1>2, <1>3, <3>1, <3>2, <3>3, <3>4, <3>5, <3>6, StreamPut
  <2> QED
    BY <1>1, <1>2, <1>4, <1>6, <2>1, <2>2, <2>3, TaskCall
<1> QED
  BY <1>1, <1>6, <1>7, <1>8, <1>9, OneCall

\* The process puts Exit.
LEMMA PutExitStep ==
    ASSUME IInv, NEW c \in Calls, PutExit(c)
    PROVE  IInv'
<1> DEFINE m == Message("exit")
<1>1. /\ UNCHANGED <<callerVars, connectionVars, function, body, made, queue, server,
                     hostVars>>
      /\ task[c] = "leaving" /\ manager /\ Put(c, m)
      /\ task' = [task EXCEPT ![c] = "finished"]
  BY DEF PutExit
<1> USE DEF callerVars, connectionVars, hostVars
<1>2. /\ CallOK(c) /\ made[c] \in Nat /\ body[c] \in Bodies /\ task'[c] = "finished"
      /\ server[c] \notin {"none", "setup"}
  BY <1>1 DEF IInv, Maps, CallOK, Fresh
<1>3. m \in Messages /\ m.type = "exit"
  BY DEF Message, Messages
<1>4. /\ results' \in [Calls -> Seq(Messages)] /\ results'[c] = Append(results[c], m)
      /\ \A d \in Calls \ {c} : results'[d] = results[d]
  BY <1>1, <1>3, PutFacts
<1> HIDE DEF m
<1>5. Maps'
  BY <1>1, <1>4 DEF IInv, Maps
<1>6. Host'
  BY <1>1 DEF IInv, Host
<1>7. \A d \in Calls \ {c} : Same(d)
  BY <1>1, <1>4 DEF IInv, Maps, Same
<1>8. CallOK(c)'
  <2>1. Items(c)'
    BY <1>1, <1>2 DEF CallOK, Items
  <2>2. made[c] <= made'[c]
    BY <1>1, <1>2
  <2>3. ASSUME manager, connection[c] = "open", server[c] = "results"
        PROVE  StreamOK(wire[c], Append(results[c], m), Taken(c), made[c], body[c], error[c],
                        client[c], "finished")
    <3>1. StreamOK(wire[c], results[c], Taken(c), made[c], body[c], error[c], client[c],
                   "leaving")
      BY <1>1, <1>2, <2>3 DEF CallOK, Stream
    <3>2. /\ body[c] \in {"ok", "error"}
          /\ Taken(c) + Len(wire[c]) + Len(results[c]) =
                 made[c] + (IF body[c] = "error" THEN 1 ELSE 0)
      BY <3>1 DEF StreamOK
    <3>3. /\ wire[c] \in Seq(Messages) /\ results[c] \in Seq(Messages)
          /\ Taken(c) \in Int
      BY CallTypes
    <3>4. IsMessage(made[c], body[c], Taken(c) + Len(wire[c]) + Len(results[c]) + 1, m)
      <4>1. CASE body[c] = "ok"
        BY <1>2, <1>3, <3>2, <4>1 DEF IsMessage
      <4>2. CASE body[c] = "error"
        BY <1>2, <1>3, <3>2, <4>2 DEF IsMessage
      <4> QED
        BY <3>2, <4>1, <4>2
    <3>5. made[c] <= made[c]
      BY <1>2
    <3> QED
      BY <1>2, <1>3, <3>1, <3>3, <3>4, <3>5, StreamPut
  <2> QED
    BY <1>1, <1>2, <1>4, <1>5, <2>1, <2>2, <2>3, TaskCall
<1> QED
  BY <1>1, <1>5, <1>6, <1>7, <1>8, OneCall

\* A put raises.
LEMMA PutRaisesStep ==
    ASSUME IInv, NEW c \in Calls, PutRaises(c)
    PROVE  IInv'
<1>1. /\ UNCHANGED <<callerVars, connectionVars, function, body, made, results, queue,
                     server, hostVars>>
      /\ task[c] \in {"running", "leaving"} /\ ~manager
      /\ task' = [task EXCEPT ![c] = "failed"]
  BY DEF PutRaises
<1> USE DEF callerVars, connectionVars, hostVars
<1>2. /\ CallOK(c) /\ made[c] \in Nat /\ task'[c] = "failed"
      /\ server[c] \notin {"none", "setup"}
  BY <1>1 DEF IInv, Maps, CallOK, Fresh
<1>3. Maps'
  BY <1>1 DEF IInv, Maps
<1>4. Host'
  BY <1>1 DEF IInv, Host
<1>5. \A d \in Calls \ {c} : Same(d)
  BY <1>1 DEF IInv, Maps, Same
<1>6. Items(c)' /\ made[c] <= made'[c]
  BY <1>1, <1>2 DEF CallOK, Items
<1>7. CallOK(c)'
  BY <1>1, <1>2, <1>3, <1>6, TaskCall
<1> QED
  BY <1>1, <1>3, <1>4, <1>5, <1>7, OneCall

-----------------------------------------------------------------------------
(* The caller. *)

\* The call is made.
LEMMA ConnectStep ==
    ASSUME IInv, NEW c \in Calls, Connect(c)
    PROVE  IInv'
<1>1. /\ client[c] = "idle" /\ client' = [client EXCEPT ![c] = "validating"]
      /\ connection' = [connection EXCEPT ![c] = "open"]
      /\ inputs' = [inputs EXCEPT ![c] = IF c \in Consumers THEN MaxYields[c] ELSE 0]
      /\ server' = [server EXCEPT ![c] = "setup"]
      /\ UNCHANGED <<how, error, got, outcome, wire, processVars, hostVars>>
  BY DEF Connect, Goto
<1> USE DEF processVars, hostVars
<1>2. /\ client'[c] = "validating" /\ connection'[c] = "open" /\ server'[c] = "setup"
      /\ inputs'[c] = IF c \in Consumers THEN MaxYields[c] ELSE 0
      /\ MaxYields[c] \in Nat /\ CallOK(c)
  BY <1>1, MaxYieldsAssumption DEF IInv, Maps
<1>3. Maps'
  <2>1. inputs' \in [Calls -> Nat]
    BY <1>1, <1>2 DEF IInv, Maps
  <2> QED
    BY <1>1, <2>1 DEF IInv, Maps
<1>4. Host'
  BY <1>1 DEF IInv, Host
<1>5. \A d \in Calls \ {c} : Same(d)
  BY <1>1 DEF IInv, Maps, Same
<1>6. CallOK(c)'
  <2>1. /\ server[c] = "none" /\ made[c] = 0 /\ queue[c] = 0 /\ wire[c] = <<>>
        /\ outcome[c] = "pending"
    BY <1>1, <1>2 DEF CallOK, Control, Fresh, IInv, Maps
  <2>2. Control(c)' /\ Fresh(c)'
    BY <1>1, <1>2, <2>1 DEF CallOK, Control, Fresh
  <2>3. Items(c)'
    BY <1>1, <1>2, <2>1 DEF CallOK, Items
  <2>4. Exits(c)' /\ Stream(c)'
    BY <1>2 DEF Exits, Stream
  <2>5. Delivered(c)'
    BY <1>1, <1>2 DEF CallOK, Delivered
  <2>6. Wire(c)'
    <3>1. Len(wire'[c]) = 0
      BY <1>1, <2>1
    <3> QED
      BY <3>1 DEF Wire, WireOK
  <2> QED
    BY <2>2, <2>3, <2>4, <2>5, <2>6 DEF CallOK
<1> QED
  BY <1>1, <1>3, <1>4, <1>5, <1>6, OneCall

\* A call ends for its caller.
LEMMA LeaveStep ==
    ASSUME IInv, NEW c \in Calls, client[c] \in {"validating", "failing", "receiving"},
           NEW r \in {"returned", "raised"}, Leave(c, r), Host',
           UNCHANGED <<how, got, processVars, server, manager>>
    PROVE  IInv'
<1> USE DEF processVars
<1>1. /\ outcome' = [outcome EXCEPT ![c] = r] /\ client' = [client EXCEPT ![c] = "gone"]
      /\ error' = [error EXCEPT ![c] = FALSE]
      /\ connection' = [connection EXCEPT ![c] = "left"]
      /\ wire' = [wire EXCEPT ![c] = <<>>] /\ inputs' = [inputs EXCEPT ![c] = 0]
  BY DEF Leave
<1>2. /\ outcome'[c] = r /\ client'[c] = "gone" /\ error'[c] = FALSE /\ wire'[c] = <<>>
      /\ connection'[c] = "left" /\ inputs'[c] = 0
      /\ CallOK(c) /\ MaxYields[c] \in Nat /\ inputs[c] \in Nat /\ queue[c] \in Nat
      /\ made[c] \in Nat
  BY <1>1, MaxYieldsAssumption DEF IInv, Maps
<1>3. Maps'
  <2>1. <<>> \in Seq(Messages)
    OBVIOUS
  <2>2. wire' \in [Calls -> Seq(Messages)] /\ inputs' \in [Calls -> Nat]
    BY <1>1, <2>1 DEF IInv, Maps
  <2>3. error' \in [Calls -> BOOLEAN]
    BY <1>1 DEF IInv, Maps
  <2> QED
    BY <1>1, <2>2, <2>3 DEF IInv, Maps
<1>4. \A d \in Calls \ {c} : Same(d)
  BY <1>1 DEF IInv, Maps, Same
<1>5. CallOK(c)'
  <2>1. Control(c)' /\ Fresh(c)'
    BY <1>2 DEF CallOK, Control, Fresh
  <2>2. Items(c)'
    BY <1>2 DEF CallOK, Items
  <2>3. Exits(c)' /\ Stream(c)' /\ Wire(c)'
    BY <1>2 DEF Exits, Stream, Wire
  <2>4. Delivered(c)'
    BY <1>2 DEF CallOK, Delivered
  <2> QED
    BY <2>1, <2>2, <2>3, <2>4 DEF CallOK
<1> QED
  BY <1>3, <1>4, <1>5, OneCall

\* What the caller may do with the next message.
LEMMA ReceiveCases ==
    ASSUME IInv, NEW c \in Calls, Receive(c)
    PROVE  LET m == Head(wire[c]) IN
           /\ wire[c] # <<>> /\ UNCHANGED <<how, processVars, server, hostVars>>
           /\ \/ /\ client[c] = "validating" /\ m.type = "error"
                 /\ client' = [client EXCEPT ![c] = "failing"]
                 /\ Read(c) /\ UNCHANGED <<got, error, outcome, connection>>
              \/ /\ client[c] = "validating" /\ m.type \in {"value", "stream"}
                 /\ client' = [client EXCEPT ![c] = "receiving"]
                 /\ Read(c) /\ UNCHANGED <<got, error, outcome, connection>>
              \/ /\ client[c] = "receiving" /\ m.type \in {"yield", "return"}
                 /\ got' = [got EXCEPT ![c] = Append(@, m.value)]
                 /\ Read(c) /\ UNCHANGED <<client, error, outcome, connection>>
              \/ /\ client[c] = "receiving" /\ m.type = "error"
                 /\ error' = [error EXCEPT ![c] = TRUE]
                 /\ Read(c) /\ UNCHANGED <<client, got, outcome, connection>>
              \/ /\ client[c] = "receiving" /\ m.type = "exit"
                 /\ Conclude(c) /\ UNCHANGED got
              \/ /\ client[c] \in {"validating", "failing"}
                 /\ Leave(c, "raised") /\ UNCHANGED got
<1> DEFINE m == Head(wire[c])
<1>1. /\ wire[c] # <<>> /\ UNCHANGED <<how, processVars, server, hostVars>>
      /\ \/ Validate(c, m.type)
         \/ ReceiveResult(c, m)
         \/ /\ client[c] = "failing" /\ Leave(c, "raised") /\ UNCHANGED got
  BY DEF Receive
<1>2. /\ m \in Messages /\ m = wire[c][1] /\ 1 \in 1..Len(wire[c])
  BY <1>1, CallTypes, TailFacts
<1>3. CASE Validate(c, m.type)
  <2>1. Expected(c) \in {"value", "stream"}
    BY DEF Expected
  <2>2. CASE m.type = "error"
    BY <1>1, <1>3, <2>1, <2>2 DEF Validate
  <2>3. CASE m.type = Expected(c)
    BY <1>1, <1>3, <2>1, <2>3 DEF Validate
  <2>4. CASE m.type # "error" /\ m.type # Expected(c)
    BY <1>1, <1>3, <2>4 DEF Validate
  <2> QED
    BY <2>2, <2>3, <2>4
<1>4. CASE ReceiveResult(c, m)
  <2>1. client[c] = "receiving"
    BY <1>4 DEF ReceiveResult
  <2>2. m.type \notin {"value", "stream"}
    BY <1>2, <2>1 DEF IInv, CallOK, Wire, WireOK
  <2>3. m.type \in {"yield", "return", "error", "exit"}
    BY <1>2, <2>2 DEF Messages
  <2>4. CASE m.type \in {"yield", "return"}
    BY <1>1, <1>4, <2>1, <2>4 DEF ReceiveResult
  <2>5. CASE m.type = "error"
    BY <1>1, <1>4, <2>1, <2>5 DEF ReceiveResult
  <2>6. CASE m.type = "exit"
    BY <1>1, <1>4, <2>1, <2>6 DEF ReceiveResult
  <2> QED
    BY <2>3, <2>4, <2>5, <2>6
<1>5. CASE client[c] = "failing" /\ Leave(c, "raised") /\ UNCHANGED got
  BY <1>1, <1>5
<1> QED
  BY <1>1, <1>3, <1>4, <1>5

\* What taking a message, which is no exit, has to keep.
LEMMA ReadCall ==
    ASSUME IInv, NEW c \in Calls, wire[c] # <<>>, Head(wire[c]).type # "exit",
           client[c] \in {"validating", "receiving"},
           client'[c] \in {"validating", "receiving", "failing"},
           UNCHANGED <<how, outcome, connection, inputs, processVars, server, hostVars>>,
           wire'[c] = Tail(wire[c]), Delivered(c)',
           client'[c] \in {"validating", "receiving"} =>
               WireOK(Tail(wire[c]), Taken(c)', made[c], body[c], error'[c], client'[c],
                      manager),
           manager /\ connection[c] = "open" /\ server[c] = "results" =>
               StreamOK(Tail(wire[c]), results[c], Taken(c)', made[c], body[c], error'[c],
                        client'[c], task[c])
    PROVE  CallOK(c)'
<1> USE DEF processVars, hostVars
<1>1. CallOK(c) /\ server[c] \notin {"none", "setup"}
  BY DEF IInv, CallOK, Fresh
<1>2. Control(c)'
  BY <1>1 DEF CallOK, Control
<1>3. Fresh(c)'
  BY <1>1 DEF Fresh
<1>4. Items(c)'
  BY <1>1 DEF CallOK, Items
<1>5. Exits(c)'
  <2>1. ASSUME NEW i \in 1..Len(wire[c]), wire[c][i].type = "exit"
        PROVE  \E j \in 1..Len(wire'[c]) : wire'[c][j].type = "exit"
    <3>1. wire[c] \in Seq(Messages)
      BY CallTypes
    <3>2. /\ Head(wire[c]) = wire[c][1] /\ Len(wire[c]) \in Nat
          /\ Len(Tail(wire[c])) = Len(wire[c]) - 1
          /\ \A k \in 1..(Len(wire[c]) - 1) : Tail(wire[c])[k] = wire[c][k + 1]
      BY <3>1, TailFacts
    <3>3. i # 1
      BY <2>1, <3>2
    <3>4. i - 1 \in 1..(Len(wire[c]) - 1) /\ i - 1 + 1 = i
      BY <3>2, <3>3
    <3>5. Tail(wire[c])[i - 1] = wire[c][i]
      BY <3>2, <3>4
    <3> QED
      BY <2>1, <3>2, <3>4, <3>5
  <2> QED
    BY <1>1, <2>1 DEF CallOK, Exits
<1>6. Wire(c)' /\ Stream(c)'
  BY DEF Wire, Stream
<1> QED
  BY <1>2, <1>3, <1>4, <1>5, <1>6 DEF CallOK

\* The next value is the one that the caller waits for.
LEMMA ValueFacts ==
    ASSUME IInv, NEW c \in Calls, wire[c] # <<>>, client[c] = "receiving",
           Head(wire[c]).type \in {"yield", "return"}
    PROVE  /\ Taken(c) = Len(got[c]) /\ ~error[c]
           /\ Head(wire[c]).value = Taken(c) + 1 /\ Taken(c) + 1 \in 1..made[c]
<1>1. /\ Head(wire[c]) = wire[c][1] /\ 1 \in 1..Len(wire[c]) /\ Len(got[c]) \in Nat
      /\ Taken(c) \in Int
  BY CallTypes, TailFacts
<1>2. WireOK(wire[c], Taken(c), made[c], body[c], error[c], client[c], manager)
  BY DEF IInv, CallOK, Wire
<1>3. /\ Head(wire[c]).value = Taken(c) + 1 /\ Taken(c) + 1 \in 1..made[c] /\ ~error[c]
  BY <1>1, <1>2 DEF WireOK
<1>4. Taken(c) = Len(got[c])
  BY <1>1, <1>3 DEF Taken
<1> QED
  BY <1>3, <1>4

\* An exit without an error means that the function returned and that all is there.
LEMMA ExitFacts ==
    ASSUME IInv, NEW c \in Calls, wire[c] # <<>>, client[c] = "receiving",
           Head(wire[c]).type = "exit", ~error[c], manager
    PROVE  body[c] = "ok" /\ Len(got[c]) = made[c]
<1>1. /\ Head(wire[c]) = wire[c][1] /\ 1 \in 1..Len(wire[c]) /\ Len(got[c]) \in Nat
      /\ Taken(c) \in Int /\ made[c] \in Nat
  BY CallTypes, TailFacts
<1>2. WireOK(wire[c], Taken(c), made[c], body[c], error[c], client[c], manager)
  BY DEF IInv, CallOK, Wire
<1>3. \A j \in 1..(1 - 1) : wire[c][j].type # "error"
  OBVIOUS
<1>4. body[c] = "ok" /\ Taken(c) + 1 = made[c] + 1
  BY <1>1, <1>2, <1>3 DEF WireOK
<1>5. Taken(c) = Len(got[c])
  BY <1>1 DEF Taken
<1> QED
  BY <1>1, <1>4, <1>5

\* The caller takes a message.
LEMMA ReceiveStep ==
    ASSUME IInv, NEW c \in Calls, Receive(c)
    PROVE  IInv'
<1> DEFINE w == wire[c]  m == Head(wire[c])
<1>1. wire[c] # <<>> /\ UNCHANGED <<how, processVars, server, hostVars>>
  BY ReceiveCases
<1>2. /\ w \in Seq(Messages) /\ results[c] \in Seq(Messages) /\ Taken(c) \in Int
      /\ made[c] \in Nat /\ body[c] \in Bodies /\ CallOK(c)
      /\ got[c] \in Seq(Values) /\ Len(got[c]) \in Nat
  BY CallTypes DEF IInv
<1>3. m = w[1] /\ m \in Messages /\ Tail(w) \in Seq(Messages) /\ 1 \in 1..Len(w)
  BY <1>1, <1>2, TailFacts
<1>4. Host'
  BY <1>1 DEF IInv, Host, hostVars
<1>5. ASSUME Read(c), UNCHANGED <<outcome, connection>>
      PROVE  /\ wire'[c] = Tail(w) /\ wire' \in [Calls -> Seq(Messages)]
             /\ UNCHANGED inputs /\ \A d \in Calls \ {c} : wire'[d] = wire[d]
  BY <1>3, <1>5 DEF Read, IInv, Maps
<1>6. CASE /\ client[c] = "validating" /\ m.type = "error"
           /\ client' = [client EXCEPT ![c] = "failing"]
           /\ Read(c) /\ UNCHANGED <<got, error, outcome, connection>>
  <2>1. Maps' /\ client'[c] = "failing"
    BY <1>1, <1>5, <1>6 DEF IInv, Maps, processVars
  <2>2. \A d \in Calls \ {c} : Same(d)
    BY <1>1, <1>5, <1>6 DEF IInv, Maps, Same, processVars
  <2>3. ~(manager /\ connection[c] = "open" /\ server[c] = "results")
    <3>1. StreamOK(w, results[c], Taken(c), made[c], body[c], error[c], client[c], task[c])
            => m.type \in {"value", "stream"}
      BY <1>3, <1>6 DEF StreamOK
    <3> QED
      BY <1>2, <1>6, <3>1 DEF CallOK, Stream
  <2>4. Delivered(c)'
    BY <1>1, <1>2, <1>6 DEF CallOK, Delivered, processVars
  <2>5. CallOK(c)'
    BY <1>1, <1>5, <1>6, <2>1, <2>3, <2>4, ReadCall
  <2> QED
    BY <1>1, <1>4, <2>1, <2>2, <2>5, OneCall DEF hostVars
<1>7. CASE /\ client[c] = "validating" /\ m.type \in {"value", "stream"}
           /\ client' = [client EXCEPT ![c] = "receiving"]
           /\ Read(c) /\ UNCHANGED <<got, error, outcome, connection>>
  <2>1. Maps' /\ client'[c] = "receiving"
    BY <1>1, <1>5, <1>7 DEF IInv, Maps, processVars
  <2>2. \A d \in Calls \ {c} : Same(d)
    BY <1>1, <1>5, <1>7 DEF IInv, Maps, Same, processVars
  <2>3. Taken(c)' = Taken(c) + 1
    <3>1. got'[c] = got[c] /\ error'[c] = error[c] /\ client[c] = "validating"
      BY <1>7
    <3>2. CASE error[c]
      BY <1>2, <2>1, <3>1, <3>2 DEF Taken
    <3>3. CASE ~error[c]
      BY <1>2, <2>1, <3>1, <3>3 DEF Taken
    <3> QED
      BY <3>2, <3>3
  <2>4. Delivered(c)'
    BY <1>1, <1>2, <1>7 DEF CallOK, Delivered, processVars
  <2>5. WireOK(Tail(w), Taken(c) + 1, made[c], body[c], error[c], "receiving", manager)
    <3>1. WireOK(w, Taken(c), made[c], body[c], error[c], client[c], manager)
      BY <1>2, <1>7 DEF CallOK, Wire
    <3> QED
      BY <1>1, <1>2, <1>3, <1>7, <3>1, WireTake
  <2>6. ASSUME manager, connection[c] = "open", server[c] = "results"
        PROVE  StreamOK(Tail(w), results[c], Taken(c) + 1, made[c], body[c], error[c],
                        "receiving", task[c])
    <3>1. StreamOK(w, results[c], Taken(c), made[c], body[c], error[c], client[c], task[c])
      BY <1>2, <2>6 DEF CallOK, Stream
    <3> QED
      BY <1>1, <1>2, <1>3, <1>7, <3>1, StreamTake
  <2>7. CallOK(c)'
    BY <1>1, <1>5, <1>7, <2>1, <2>3, <2>4, <2>5, <2>6, ReadCall
  <2> QED
    BY <1>1, <1>4, <2>1, <2>2, <2>7, OneCall DEF hostVars
<1>8. CASE /\ client[c] = "receiving" /\ m.type \in {"yield", "return"}
           /\ got' = [got EXCEPT ![c] = Append(@, m.value)]
           /\ Read(c) /\ UNCHANGED <<client, error, outcome, connection>>
  <2>1. WireOK(w, Taken(c), made[c], body[c], error[c], client[c], manager)
    BY <1>2, <1>8 DEF CallOK, Wire
  <2>2. m.value = Taken(c) + 1 /\ Taken(c) + 1 \in 1..made[c] /\ ~error[c]
    BY <1>1, <1>8, ValueFacts
  <2>3. Taken(c) = Len(got[c])
    BY <1>1, <1>8, ValueFacts
  <2>4. m.value \in Values
    <3>1. made[c] <= MaxYields[c] /\ MaxYields[c] \in Nat
      BY <1>2, MaxYieldsAssumption DEF CallOK, Items
    <3>2. m.value \in 1..MaxYields[c]
      BY <1>2, <2>2, <3>1
    <3> QED
      BY <3>2 DEF Values
  <2> DEFINE q == Append(got[c], m.value)
  <2>5. /\ q \in Seq(Values) /\ Len(q) = Len(got[c]) + 1
        /\ \A i \in 1..Len(got[c]) : q[i] = got[c][i]
        /\ q[Len(got[c]) + 1] = m.value
    BY <1>2, <2>4, AppendFacts
  <2>6. got' = [got EXCEPT ![c] = q]
    BY <1>8
  <2> HIDE DEF q
  <2>7. got' \in [Calls -> Seq(Values)] /\ got'[c] = q
    BY <2>5, <2>6 DEF IInv, Maps
  <2>8. Maps'
    BY <1>1, <1>5, <1>8, <2>7 DEF IInv, Maps, processVars
  <2>9. \A d \in Calls \ {c} : Same(d)
    BY <1>1, <1>5, <1>8, <2>6 DEF IInv, Maps, Same, processVars
  <2>10. Taken(c)' = Taken(c) + 1 /\ client'[c] = "receiving" /\ error'[c] = error[c]
    <3>1. client'[c] = "receiving" /\ error'[c] = error[c] /\ Len(got'[c]) = Len(got[c]) + 1
      BY <1>8, <2>5, <2>7
    <3>2. Taken(c)' = Len(got'[c])
      BY <1>2, <2>2, <2>5, <2>7, <3>1 DEF Taken
    <3> QED
      BY <2>3, <3>1, <3>2
  <2>11. Delivered(c)'
    <3>1. made'[c] = made[c] /\ Len(got[c]) + 1 <= made[c]
      BY <1>1, <1>2, <2>2, <2>3 DEF processVars
    <3>2. ASSUME NEW i \in 1..Len(q) PROVE q[i] = i
      <4>1. CASE i \in 1..Len(got[c])
        BY <1>2, <2>5, <4>1 DEF CallOK, Delivered
      <4>2. CASE i = Len(got[c]) + 1
        BY <2>2, <2>3, <2>5, <4>2
      <4> QED
        BY <1>2, <2>5, <4>1, <4>2
    <3> QED
      BY <2>5, <2>7, <3>1, <3>2 DEF Delivered
  <2>12. WireOK(Tail(w), Taken(c) + 1, made[c], body[c], error[c], "receiving", manager)
    BY <1>1, <1>2, <1>3, <1>8, <2>1, WireTake
  <2>13. ASSUME manager, connection[c] = "open", server[c] = "results"
         PROVE  StreamOK(Tail(w), results[c], Taken(c) + 1, made[c], body[c], error[c],
                         "receiving", task[c])
    <3>1. StreamOK(w, results[c], Taken(c), made[c], body[c], error[c], client[c], task[c])
      BY <1>2, <2>13 DEF CallOK, Stream
    <3> QED
      BY <1>1, <1>2, <1>3, <1>8, <3>1, StreamTake
  <2>14. CallOK(c)'
    BY <1>1, <1>5, <1>8, <2>10, <2>11, <2>12, <2>13, ReadCall
  <2> QED
    BY <1>1, <1>4, <2>8, <2>9, <2>14, OneCall DEF hostVars
<1>9. CASE /\ client[c] = "receiving" /\ m.type = "error"
           /\ error' = [error EXCEPT ![c] = TRUE]
           /\ Read(c) /\ UNCHANGED <<client, got, outcome, connection>>
  <2>1. WireOK(w, Taken(c), made[c], body[c], error[c], client[c], manager)
    BY <1>2, <1>9 DEF CallOK, Wire
  <2>2. error'[c] = TRUE /\ error' \in [Calls -> BOOLEAN] /\ client'[c] = "receiving"
    BY <1>9 DEF IInv, Maps
  <2>3. Maps'
    BY <1>1, <1>5, <1>9, <2>2 DEF IInv, Maps, processVars
  <2>4. \A d \in Calls \ {c} : Same(d)
    BY <1>1, <1>5, <1>9 DEF IInv, Maps, Same, processVars
  <2>5. Taken(c)' \in Int /\ (~error[c] => Taken(c)' = Taken(c) + 1)
    <3>1. got'[c] = got[c] /\ client[c] = "receiving" /\ client'[c] = "receiving"
      BY <1>9
    <3>2. Taken(c)' = Len(got[c]) + 1
      BY <1>2, <2>2, <3>1 DEF Taken
    <3>3. ~error[c] => Taken(c) = Len(got[c])
      BY <1>2, <3>1 DEF Taken
    <3> QED
      BY <1>2, <3>2, <3>3
  <2>6. Delivered(c)'
    BY <1>1, <1>2, <1>9 DEF CallOK, Delivered, processVars
  <2>7. WireOK(Tail(w), Taken(c)', made[c], body[c], TRUE, client[c], manager)
    BY <1>1, <1>2, <1>3, <1>9, <2>1, <2>5, WireTakeError
  <2>8. ASSUME manager, connection[c] = "open", server[c] = "results"
        PROVE  StreamOK(Tail(w), results[c], Taken(c)', made[c], body[c], TRUE,
                        "receiving", task[c])
    <3>1. StreamOK(w, results[c], Taken(c), made[c], body[c], error[c], "receiving", task[c])
      BY <1>2, <1>9, <2>8 DEF CallOK, Stream
    <3>2. ~error[c] /\ StreamOK(Tail(w), results[c], Taken(c) + 1, made[c], body[c], TRUE,
                                "receiving", task[c])
      BY <1>1, <1>2, <1>3, <1>9, <3>1, StreamTakeError
    <3> QED
      BY <2>5, <3>2
  <2>9. CallOK(c)'
    BY <1>1, <1>5, <1>9, <2>2, <2>6, <2>7, <2>8, ReadCall
  <2> QED
    BY <1>1, <1>4, <2>3, <2>4, <2>9, OneCall DEF hostVars
<1>10. CASE client[c] = "receiving" /\ Conclude(c) /\ UNCHANGED got
  BY <1>1, <1>4, <1>10, LeaveStep DEF Conclude, hostVars
<1>11. CASE /\ client[c] \in {"validating", "failing"}
            /\ Leave(c, "raised") /\ UNCHANGED got
  BY <1>1, <1>4, <1>11, LeaveStep DEF hostVars
<1> QED
  BY <1>6, <1>7, <1>8, <1>9, <1>10, <1>11, ReceiveCases

\* Nothing more comes: a connection that the server closed has an exit left, so that
\* this is the end of a broken one.
LEMMA EndOfMessagesCases ==
    ASSUME IInv, NEW c \in Calls, EndOfMessages(c)
    PROVE  /\ client[c] \in {"validating", "failing", "receiving"} /\ Leave(c, "raised")
           /\ UNCHANGED <<how, got, processVars, server, hostVars>>
<1>1. connection[c] = "closed" => wire[c] # <<>>
  <2>1. Len(<<>>) = 0
    OBVIOUS
  <2> QED
    BY <2>1 DEF IInv, CallOK, Exits
<1> QED
  BY <1>1 DEF EndOfMessages

\* The messages of a broken connection end.
LEMMA EndOfMessagesStep ==
    ASSUME IInv, NEW c \in Calls, EndOfMessages(c)
    PROVE  IInv'
<1>1. Host'
  BY EndOfMessagesCases DEF IInv, Host, hostVars
<1> QED
  BY <1>1, EndOfMessagesCases, LeaveStep DEF hostVars

-----------------------------------------------------------------------------
(* Faults. *)

\* The number of faults stays in its bounds.
LEMMA FaultFacts == ASSUME Host, Fault PROVE faults' \in 0..MaxFaults
BY MaxFaultsAssumption DEF Host, Fault

\* A caller gives up.
LEMMA GiveUpStep ==
    ASSUME IInv, NEW c \in Calls, GiveUp(c)
    PROVE  IInv'
<1>1. Host'
  BY FaultFacts DEF GiveUp, IInv, Host
<1> QED
  BY <1>1, LeaveStep DEF GiveUp

\* A connection breaks.
LEMMA DisconnectStep ==
    ASSUME IInv, NEW c \in Calls, Disconnect(c)
    PROVE  IInv'
<1>1. PICK n \in 0..Len(wire[c]) :
         /\ Fault /\ connection[c] = "open"
         /\ connection' = [connection EXCEPT ![c] = "lost"]
         /\ wire' = [wire EXCEPT ![c] = SubSeq(@, 1, n)]
         /\ inputs' = [inputs EXCEPT ![c] = 0]
         /\ UNCHANGED <<callerVars, processVars, server, poolBroken, manager>>
  BY DEF Disconnect
<1> USE DEF callerVars, processVars
<1> DEFINE q == SubSeq(wire[c], 1, n)
<1>2. /\ wire[c] \in Seq(Messages) /\ CallOK(c)
      /\ Taken(c) \in Int /\ made[c] \in Nat /\ body[c] \in Bodies
      /\ inputs[c] \in Nat /\ queue[c] \in Nat /\ MaxYields[c] \in Nat
  BY CallTypes, MaxYieldsAssumption DEF IInv, Maps
<1>3. q \in Seq(Messages) /\ Len(q) = n
  BY <1>2, PrefixFacts
<1>4. wire' = [wire EXCEPT ![c] = q]
  BY <1>1
<1>5. ASSUME client[c] \in {"validating", "receiving"}
      PROVE  WireOK(q, Taken(c), made[c], body[c], error[c], client[c], manager)
  <2>1. WireOK(wire[c], Taken(c), made[c], body[c], error[c], client[c], manager)
    BY <1>2, <1>5 DEF CallOK, Wire
  <2> QED
    BY <1>2, <2>1, WirePrefix
<1>6. wire[c] = <<>> => q = <<>>
  <2>1. ASSUME wire[c] = <<>> PROVE Len(q) = 0
    BY <1>3, <2>1
  <2> HIDE DEF q
  <2> QED
    BY <1>3, <2>1
<1> HIDE DEF q
<1>7. wire'[c] = q /\ connection'[c] = "lost" /\ inputs'[c] = 0 /\ Taken(c)' = Taken(c)
  BY <1>1, <1>4 DEF IInv, Maps, Taken
<1>8. Maps'
  <2>1. wire' \in [Calls -> Seq(Messages)] /\ inputs' \in [Calls -> Nat]
    BY <1>1, <1>3, <1>4 DEF IInv, Maps
  <2> QED
    BY <1>1, <2>1 DEF IInv, Maps
<1>9. Host'
  BY <1>1, FaultFacts DEF IInv, Host
<1>10. \A d \in Calls \ {c} : Same(d)
  BY <1>1, <1>4 DEF IInv, Maps, Same
<1>11. CallOK(c)'
  <2>1. Control(c)' /\ Fresh(c)'
    BY <1>1, <1>2, <1>6, <1>7 DEF CallOK, Control, Fresh
  <2>2. Items(c)'
    BY <1>1, <1>2, <1>7 DEF CallOK, Items
  <2>3. Exits(c)' /\ Stream(c)'
    BY <1>7 DEF Exits, Stream
  <2>4. Delivered(c)'
    BY <1>1, <1>2 DEF CallOK, Delivered
  <2>5. Wire(c)'
    BY <1>1, <1>5, <1>7 DEF Wire
  <2> QED
    BY <2>1, <2>2, <2>3, <2>4, <2>5 DEF CallOK
<1> QED
  BY <1>1, <1>8, <1>9, <1>10, <1>11, OneCall

\* A process of the pool is killed.
LEMMA KillStep == ASSUME IInv, Kill PROVE IInv'
<1>1. /\ Fault /\ UNCHANGED <<callerVars, connectionVars, function, body, made, results,
                              queue, server, manager>>
      /\ poolBroken' = TRUE /\ task' = [c \in Calls |-> task'[c]]
      /\ \A c \in Calls :
            \/ task'[c] = task[c]
            \/ task'[c] = "dead" /\ task[c] # "none"
  BY DEF Kill
<1> USE DEF callerVars, connectionVars
<1>2. \A c \in Calls : task'[c] \in {"none", "queued", "running", "leaving", "finished",
                                     "failed", "dead"}
  BY <1>1 DEF IInv, Maps
<1>3. Maps'
  BY <1>1, <1>2 DEF IInv, Maps
<1>4. Host'
  BY <1>1, FaultFacts DEF IInv, Host
<1>5. ASSUME NEW c \in Calls PROVE CallOK(c)'
  <2>1. CallOK(c) /\ made[c] \in Nat
    BY CallTypes DEF IInv
  <2>2. Items(c)' /\ made[c] <= made'[c]
    BY <1>1, <2>1 DEF CallOK, Items
  <2>3. server[c] \notin {"none", "setup"} \/ Same(c)
    BY <1>1, <2>1 DEF CallOK, Fresh, Same
  <2>4. ASSUME manager, connection[c] = "open", server[c] = "results"
        PROVE  StreamOK(wire[c], results[c], Taken(c), made[c], body[c], error[c], client[c],
                        task'[c])
    <3>1. StreamOK(wire[c], results[c], Taken(c), made[c], body[c], error[c], client[c],
                   task[c])
      BY <2>1, <2>4 DEF CallOK, Stream
    <3> QED
      BY <1>1, <3>1, StreamTask
  <2>5. task'[c] \in {"none", "queued", "running"} =>
            body'[c] = "no" /\ (function[c] = "value" => made'[c] = 0)
    BY <1>1, <2>1 DEF CallOK, Control
  <2> QED
    BY <1>1, <1>3, <2>2, <2>3, <2>4, <2>5, TaskCall
<1> QED
  BY <1>3, <1>4, <1>5 DEF IInv

\* The manager process is lost with its queues.
LEMMA LoseManagerStep == ASSUME IInv, LoseManager PROVE IInv'
<1>1. /\ Fault /\ manager' = FALSE
      /\ results' = [c \in Calls |-> <<>>] /\ queue' = [c \in Calls |-> 0]
      /\ UNCHANGED <<callerVars, connectionVars, function, task, body, made, server,
                     poolBroken>>
  BY DEF LoseManager
<1> USE DEF callerVars, connectionVars
<1>2. Maps'
  <2>1. <<>> \in Seq(Messages)
    OBVIOUS
  <2>2. results' \in [Calls -> Seq(Messages)] /\ queue' \in [Calls -> Nat]
    BY <1>1, <2>1
  <2> QED
    BY <1>1, <2>2 DEF IInv, Maps
<1>3. Host'
  BY <1>1, FaultFacts DEF IInv, Host
<1>4. ASSUME NEW c \in Calls PROVE CallOK(c)'
  <2>1. /\ CallOK(c) /\ Taken(c)' = Taken(c) /\ results'[c] = <<>> /\ queue'[c] = 0
        /\ inputs[c] \in Nat /\ queue[c] \in Nat /\ made[c] \in Nat /\ MaxYields[c] \in Nat
    BY <1>1, MaxYieldsAssumption DEF IInv, Maps, Taken
  <2>2. Control(c)' /\ Fresh(c)' /\ Exits(c)'
    BY <1>1, <2>1 DEF CallOK, Control, Fresh, Exits
  <2>3. Items(c)'
    BY <1>1, <2>1 DEF CallOK, Items
  <2>4. Delivered(c)'
    BY <1>1, <2>1 DEF CallOK, Delivered
  <2>5. Stream(c)'
    BY <1>1 DEF Stream
  <2>6. Wire(c)'
    <3>1. ASSUME client[c] \in {"validating", "receiving"}
          PROVE  WireOK(wire[c], Taken(c), made[c], body[c], error[c], client[c], FALSE)
      BY <2>1, <3>1 DEF CallOK, Wire, WireOK
    <3> QED
      BY <1>1, <2>1, <3>1 DEF Wire
  <2> QED
    BY <2>2, <2>3, <2>4, <2>5, <2>6 DEF CallOK
<1> QED
  BY <1>2, <1>3, <1>4 DEF IInv

-----------------------------------------------------------------------------
(* Every step keeps the invariant. *)

\* A stutter.
LEMMA UnchangedIInv == ASSUME IInv, UNCHANGED vars PROVE IInv'
<1> USE DEF vars, callerVars, connectionVars, processVars, hostVars
<1>1. Maps' /\ Host' /\ manager' = manager
  BY DEF IInv, Maps, Host
<1>2. ASSUME NEW c \in Calls PROVE CallOK(c)'
  <2>1. Same(c)
    BY DEF Same
  <2> QED
    BY <1>1, <2>1, SameCall DEF IInv
<1> QED
  BY <1>1, <1>2 DEF IInv

\* Every step keeps the invariant.
LEMMA StepIInv == IInv /\ [Next]_vars => IInv'
<1> SUFFICES ASSUME IInv, [Next]_vars PROVE IInv'
  OBVIOUS
<1>1. ASSUME NEW c \in Calls, Connect(c) PROVE IInv'
  BY <1>1, ConnectStep
<1>2. ASSUME NEW c \in Calls, Receive(c) PROVE IInv'
  BY <1>2, ReceiveStep
<1>3. ASSUME NEW c \in Calls, EndOfMessages(c) PROVE IInv'
  BY <1>3, EndOfMessagesStep
<1>4. ASSUME NEW c \in Calls, Setup(c) PROVE IInv'
  BY <1>4, SetupStep
<1>5. ASSUME NEW c \in Calls, HandleResult(c) PROVE IInv'
  BY <1>5, HandleResultStep
<1>6. ASSUME NEW c \in Calls, AwaitFuture(c) PROVE IInv'
  BY <1>6, AwaitFutureStep
<1>7. ASSUME NEW c \in Calls, Dispatch(c) PROVE IInv'
  BY <1>7, DispatchStep
<1>8. ASSUME NEW c \in Calls, RunTask(c) PROVE IInv'
  BY <1>8, RunTaskStep
<1>9. ASSUME NEW c \in Calls, Finish(c) PROVE IInv'
  BY <1>9, FinishStep
<1>10. ASSUME NEW c \in Calls, Throw(c) PROVE IInv'
  BY <1>10, ThrowStep
<1>11. ASSUME NEW c \in Calls, PutExit(c) PROVE IInv'
  BY <1>11, PutExitStep
<1>12. ASSUME NEW c \in Calls, PutRaises(c) PROVE IInv'
  BY <1>12, PutRaisesStep
<1>13. ASSUME NEW c \in Calls, Yield(c) PROVE IInv'
  BY <1>13, YieldStep
<1>14. ASSUME NEW c \in Calls, Disconnect(c) PROVE IInv'
  BY <1>14, DisconnectStep
<1>15. ASSUME NEW c \in Calls, GiveUp(c) PROVE IInv'
  BY <1>15, GiveUpStep
<1>16. ASSUME Kill PROVE IInv'
  BY <1>16, KillStep
<1>17. ASSUME LoseManager PROVE IInv'
  BY <1>17, LoseManagerStep
<1>18. ASSUME UNCHANGED vars PROVE IInv'
  BY <1>18, UnchangedIInv
<1> QED
  BY <1>1, <1>2, <1>3, <1>4, <1>5, <1>6, <1>7, <1>8, <1>9, <1>10, <1>11, <1>12, <1>13,
     <1>14, <1>15, <1>16, <1>17, <1>18 DEF Next, CallerStep, ServerStep, ProcessStep

\* The inductive invariant holds in every reachable state.
THEOREM InductiveInvariant == Spec => []IInv
BY InitIInv, StepIInv, PTL DEF Spec

\* Every state of the calls has its types: no call makes more values than it may, and
\* an item of an RpcQueue is in one place only.
THEOREM TypeCorrect == Spec => []TypeOK
BY InductiveInvariant, TypesHold, PTL

-----------------------------------------------------------------------------
(* The refinement of RpcCall. *)

\* What a function has produced when it made n values.
Numbers(n) == [i \in 1..n |-> i]

\* They are one to n, and one more value is n + 1.
LEMMA NumbersFacts ==
    ASSUME NEW n \in Nat
    PROVE  /\ Numbers(n) \in Seq(Nat) /\ Len(Numbers(n)) = n
           /\ \A i \in 1..n : Numbers(n)[i] = i
           /\ Append(Numbers(n), n + 1) = Numbers(n + 1)
<1>1. \A k \in Nat : /\ Numbers(k) \in Seq(Nat) /\ Len(Numbers(k)) = k
                     /\ \A i \in 1..k : Numbers(k)[i] = i
  BY DEF Numbers
<1> DEFINE p == Append(Numbers(n), n + 1)  q == Numbers(n + 1)
<1>2. /\ p \in Seq(Nat) /\ Len(p) = n + 1 /\ \A i \in 1..n : p[i] = i
      /\ p[n + 1] = n + 1
  <2> DEFINE s == Numbers(n)
  <2>1. n + 1 \in Nat /\ s \in Seq(Nat) /\ Len(s) = n /\ \A i \in 1..n : s[i] = i
    BY <1>1
  <2> HIDE DEF s
  <2>2. /\ Append(s, n + 1) \in Seq(Nat) /\ Len(Append(s, n + 1)) = Len(s) + 1
        /\ \A i \in 1..Len(s) : Append(s, n + 1)[i] = s[i]
        /\ Append(s, n + 1)[Len(s) + 1] = n + 1
    BY <2>1, AppendFacts
  <2> QED
    BY <2>1, <2>2 DEF s
<1>3. q \in Seq(Nat) /\ Len(q) = n + 1 /\ \A i \in 1..(n + 1) : q[i] = i
  BY <1>1
<1> HIDE DEF p, q
<1>4. \A i \in 1..Len(p) : p[i] = q[i]
  BY <1>2, <1>3
<1>5. p = q
  BY <1>2, <1>3, <1>4, SeqEqual
<1> QED
  BY <1>1, <1>5 DEF p, q

\* A caller that got as many values as were made got these.
LEMMA AllDelivered ==
    ASSUME IInv, NEW c \in Calls, Len(got[c]) = made[c]
    PROVE  got[c] = Numbers(made[c])
<1>1. got[c] \in Seq(Values) /\ made[c] \in Nat /\ Values \subseteq Nat
  BY CallTypes, MaxYieldsAssumption DEF Values
<1> DEFINE q == Numbers(made[c])
<1>2. Len(got[c]) = made[c] /\ \A i \in 1..made[c] : got[c][i] = i /\ i \in Values
  <2>1. \A i \in 1..made[c] : got[c][i] \in Values
    BY <1>1, ElementOfSeq
  <2> QED
    BY <2>1 DEF IInv, CallOK, Delivered
<1>3. q \in Seq(Values) /\ Len(q) = made[c] /\ \A i \in 1..made[c] : q[i] = i
  BY <1>1, <1>2 DEF Numbers
<1> HIDE DEF q
<1>4. \A i \in 1..Len(got[c]) : got[c][i] = q[i]
  BY <1>2, <1>3
<1>5. got[c] = q
  BY <1>1, <1>2, <1>3, <1>4, SeqEqual
<1> QED
  BY <1>5 DEF q

\* What all functions have produced.
Promised == [c \in Calls |-> [i \in 1..made[c] |-> i]]

\* A function makes one more value.
LEMMA OneMore ==
    ASSUME IInv, NEW c \in Calls, made' = [made EXCEPT ![c] = made[c] + 1],
           made[c] + 1 <= MaxYields[c]
    PROVE  \E v \in Values : Promised' = [Promised EXCEPT ![c] = Append(@, v)]
<1>1. made \in [Calls -> Nat] /\ MaxYields[c] \in Nat
  BY MaxYieldsAssumption DEF IInv, Maps
<1>2. made[c] + 1 \in Values
  <2>1. made[c] + 1 \in 1..MaxYields[c]
    BY <1>1
  <2> QED
    BY <2>1 DEF Values
<1>3. Promised = [d \in Calls |-> Numbers(made[d])]
  BY DEF Promised, Numbers
<1>4. Promised' = [d \in Calls |-> Numbers(made'[d])]
  BY DEF Promised, Numbers
<1>5. Append(Numbers(made[c]), made[c] + 1) = Numbers(made[c] + 1)
  BY <1>1, NumbersFacts
<1>6. Promised' = [Promised EXCEPT ![c] = Append(@, made[c] + 1)]
  BY <1>1, <1>3, <1>4, <1>5
<1> QED
  BY <1>2, <1>6

\* Nothing has been produced.
LEMMA AbstractInit == Init => Abstract!Init
<1> SUFFICES ASSUME Init PROVE Abstract!Init
  OBVIOUS
<1>1. [i \in 1..0 |-> i] = <<>>
  <2>1. Numbers(0) \in Seq(Nat) /\ Len(Numbers(0)) = 0
    BY NumbersFacts
  <2>2. Numbers(0) = <<>>
    BY <2>1, EmptySeq
  <2> QED
    BY <2>2 DEF Numbers
<1>2. [c \in Calls |-> [i \in 1..made[c] |-> i]] = [c \in Calls |-> <<>>]
  <2>1. \A c \in Calls : made[c] = 0
    BY DEF Init
  <2> QED
    BY <1>1, <2>1
<1> QED
  BY <1>2 DEF Init, Abstract!Init

\* A step that leaves the values, the outcomes and the manager process alone.
LEMMA Stutter ==
    ASSUME UNCHANGED <<made, got, body, outcome, manager>>
    PROVE  UNCHANGED Abstract!vars
BY DEF Abstract!vars

\* A call that ends with an exception raises.
LEMMA LeaveRaises ==
    ASSUME IInv, NEW c \in Calls, client[c] \in {"validating", "failing", "receiving"},
           Leave(c, "raised"), UNCHANGED <<made, got, body, manager>>
    PROVE  Abstract!Raise(c)
<1>1. outcome[c] = "pending"
  BY DEF IInv, CallOK, Control, Maps
<1> QED
  BY <1>1 DEF Leave, Abstract!Raise

\* A function that yields produces its next value.
LEMMA YieldProduces ==
    ASSUME IInv, NEW c \in Calls, Yield(c)
    PROVE  Abstract!Produce(c) /\ UNCHANGED body
<1>1. /\ body[c] = "no" /\ made[c] \in Nat /\ MaxYields[c] \in Nat /\ made[c] < MaxYields[c]
      /\ made' = [made EXCEPT ![c] = made[c] + 1]
      /\ UNCHANGED <<got, body, outcome, manager>>
  BY RunningCall DEF Yield, callerVars, hostVars
<1>2. made[c] + 1 <= MaxYields[c]
  BY <1>1
<1>3. \E v \in Values : Promised' = [Promised EXCEPT ![c] = Append(@, v)]
  BY <1>1, <1>2, OneMore
<1> QED
  BY <1>1, <1>3 DEF Abstract!Produce, Promised

\* A function that returns produces its value and ends; a generator ends.
LEMMA FinishEnds ==
    ASSUME IInv, NEW c \in Calls, Finish(c)
    PROVE  \/ Abstract!Produce(c) /\ Abstract!End(c)
           \/ Abstract!End(c) /\ UNCHANGED Promised
<1>1. /\ body[c] = "no"
      /\ function[c] = "value" => made[c] = 0
      /\ MaxYields[c] \in Nat \ {0}
      /\ body' = [body EXCEPT ![c] = "ok"]
      /\ UNCHANGED <<got, outcome, manager>>
  BY RunningCall, MaxYieldsAssumption DEF Finish, callerVars, hostVars
<1>2. Abstract!End(c)
  BY <1>1 DEF Abstract!End
<1>3. CASE function[c] = "value"
  <2>1. made' = [made EXCEPT ![c] = made[c] + 1] /\ made[c] + 1 <= MaxYields[c]
    BY <1>1, <1>3 DEF Finish
  <2>2. \E v \in Values : Promised' = [Promised EXCEPT ![c] = Append(@, v)]
    BY <2>1, OneMore
  <2>3. Abstract!Produce(c)
    BY <1>1, <2>2 DEF Abstract!Produce, Promised
  <2> QED
    BY <1>2, <2>3
<1>4. CASE function[c] # "value"
  <2>1. UNCHANGED made
    BY <1>4 DEF Finish
  <2> QED
    BY <1>2, <2>1 DEF Promised
<1> QED
  BY <1>3, <1>4

\* A function that raises ends.
LEMMA ThrowEnds ==
    ASSUME IInv, NEW c \in Calls, Throw(c)
    PROVE  Abstract!End(c) /\ UNCHANGED Promised
<1>1. /\ body[c] = "no" /\ body' = [body EXCEPT ![c] = "error"]
      /\ UNCHANGED <<made, got, outcome, manager>>
  BY RunningCall DEF Throw, callerVars, hostVars
<1> QED
  BY <1>1 DEF Abstract!End, Promised

\* The next value is delivered.
LEMMA ValueDelivers ==
    ASSUME IInv, NEW c \in Calls, wire[c] # <<>>, client[c] = "receiving",
           Head(wire[c]).type \in {"yield", "return"},
           got' = [got EXCEPT ![c] = Append(@, Head(wire[c]).value)],
           UNCHANGED <<made, body, outcome, manager>>
    PROVE  Abstract!Deliver(c)
<1>1. outcome[c] = "pending"
  BY DEF IInv, CallOK, Control, Maps
<1>2. /\ Head(wire[c]).value = Len(got[c]) + 1 /\ Len(got[c]) + 1 \in 1..made[c]
      /\ Len(got[c]) \in Nat /\ made[c] \in Nat
  BY ValueFacts, CallTypes
<1>3. /\ Promised[c] = Numbers(made[c]) /\ Len(Promised[c]) = made[c]
      /\ Promised[c][Len(got[c]) + 1] = Len(got[c]) + 1
  <2>1. Promised[c] = Numbers(made[c])
    BY DEF Promised, Numbers
  <2> QED
    BY <1>2, <2>1, NumbersFacts
<1>4. Len(got[c]) < Len(Promised[c])
  BY <1>2, <1>3
<1>5. got' = [got EXCEPT ![c] = Append(@, Promised[c][Len(@) + 1])]
  BY <1>2, <1>3
<1>6. UNCHANGED Promised
  BY DEF Promised
<1> QED
  BY <1>1, <1>4, <1>5, <1>6 DEF Abstract!Deliver, Promised

\* A call that returns has delivered all values, unless the manager process is lost.
LEMMA ConcludeEnds ==
    ASSUME IInv, NEW c \in Calls, wire[c] # <<>>, client[c] = "receiving",
           Head(wire[c]).type = "exit", Conclude(c), UNCHANGED <<made, got, body, manager>>
    PROVE  Abstract!Return(c) \/ Abstract!Raise(c)
<1>1. outcome[c] = "pending"
  BY DEF IInv, CallOK, Control, Maps
<1>2. CASE Leave(c, "raised")
  BY <1>2, LeaveRaises
<1>3. CASE ~error[c] /\ Leave(c, "returned")
  <2>1. outcome' = [outcome EXCEPT ![c] = "returned"]
    BY <1>3 DEF Leave
  <2>2. ASSUME manager PROVE body[c] = "ok" /\ got[c] = Promised[c]
    <3>1. body[c] = "ok" /\ Len(got[c]) = made[c]
      BY <1>3, <2>2, ExitFacts
    <3>2. got[c] = Numbers(made[c])
      BY <3>1, AllDelivered
    <3> QED
      BY <3>1, <3>2 DEF Promised, Numbers
  <2>3. UNCHANGED Promised
    BY DEF Promised
  <2> QED
    BY <1>1, <2>1, <2>2, <2>3 DEF Abstract!Return, Promised
<1> QED
  BY <1>2, <1>3 DEF Conclude

\* Taking a message delivers a value, ends the call or changes nothing of its promise.
LEMMA ReceiveImplements ==
    ASSUME IInv, NEW c \in Calls, Receive(c)
    PROVE  \/ Abstract!Deliver(c) \/ Abstract!Return(c) \/ Abstract!Raise(c)
           \/ UNCHANGED Abstract!vars
<1> DEFINE m == Head(wire[c])
<1> HIDE DEF m
<1>1. wire[c] # <<>> /\ UNCHANGED <<made, body, manager>>
  BY ReceiveCases DEF processVars, hostVars
<1>2. CASE UNCHANGED <<got, outcome>>
  BY <1>1, <1>2, Stutter
<1>3. CASE /\ client[c] = "receiving" /\ m.type \in {"yield", "return"}
           /\ got' = [got EXCEPT ![c] = Append(@, m.value)] /\ UNCHANGED outcome
  BY <1>1, <1>3, ValueDelivers DEF m
<1>4. CASE /\ client[c] = "receiving" /\ m.type = "exit"
           /\ Conclude(c) /\ UNCHANGED got
  BY <1>1, <1>4, ConcludeEnds DEF m
<1>5. CASE /\ client[c] \in {"validating", "failing"}
           /\ Leave(c, "raised") /\ UNCHANGED got
  BY <1>1, <1>5, LeaveRaises
<1> QED
  BY <1>2, <1>3, <1>4, <1>5, ReceiveCases DEF m

\* Every step is one of RpcCall or a stutter.
LEMMA AbstractStep == IInv /\ [Next]_vars => [Abstract!Next]_(Abstract!vars)
<1> SUFFICES ASSUME IInv, [Next]_vars PROVE [Abstract!Next]_(Abstract!vars)
  OBVIOUS
<1> USE DEF callerVars, connectionVars, processVars, hostVars
<1>1. ASSUME NEW c \in Calls, Connect(c) PROVE UNCHANGED Abstract!vars
  BY <1>1, Stutter DEF Connect
<1>2. ASSUME NEW c \in Calls, Receive(c) PROVE [Abstract!Next]_(Abstract!vars)
  BY <1>2, ReceiveImplements DEF Abstract!Next
<1>3. ASSUME NEW c \in Calls, EndOfMessages(c) PROVE Abstract!Next
  <2>1. Abstract!Raise(c)
    BY <1>3, EndOfMessagesCases, LeaveRaises
  <2> QED
    BY <2>1 DEF Abstract!Next
<1>4. ASSUME NEW c \in Calls, ServerStep(c) PROVE UNCHANGED Abstract!vars
  <2>1. UNCHANGED <<made, got, body, outcome, manager>>
    BY <1>4 DEF ServerStep, Setup, HandleResult, AwaitFuture, Dispatch
  <2> QED
    BY <2>1, Stutter
<1>5. ASSUME NEW c \in Calls, RunTask(c) \/ PutExit(c) \/ PutRaises(c)
      PROVE  UNCHANGED Abstract!vars
  <2>1. UNCHANGED <<made, got, body, outcome, manager>>
    BY <1>5 DEF RunTask, PutExit, PutRaises
  <2> QED
    BY <2>1, Stutter
<1>6. ASSUME NEW c \in Calls, Finish(c) PROVE Abstract!Next
  BY <1>6, FinishEnds DEF Abstract!Next, Promised
<1>7. ASSUME NEW c \in Calls, Throw(c) PROVE Abstract!Next
  BY <1>7, ThrowEnds DEF Abstract!Next, Promised
<1>8. ASSUME NEW c \in Calls, Yield(c) PROVE Abstract!Next
  BY <1>8, YieldProduces DEF Abstract!Next
<1>9. ASSUME NEW c \in Calls, Disconnect(c) PROVE UNCHANGED Abstract!vars
  BY <1>9, Stutter DEF Disconnect
<1>10. ASSUME NEW c \in Calls, GiveUp(c) PROVE Abstract!Next
  <2>1. Abstract!Raise(c)
    BY <1>10, LeaveRaises DEF GiveUp
  <2> QED
    BY <2>1 DEF Abstract!Next
<1>11. ASSUME Kill PROVE UNCHANGED Abstract!vars
  BY <1>11, Stutter DEF Kill
<1>12. ASSUME LoseManager PROVE Abstract!Next
  BY <1>12 DEF LoseManager, Abstract!Next, Abstract!Lose
<1>13. ASSUME UNCHANGED vars PROVE UNCHANGED Abstract!vars
  BY <1>13, Stutter DEF vars
<1> QED
  BY <1>1, <1>2, <1>3, <1>4, <1>5, <1>6, <1>7, <1>8, <1>9, <1>10, <1>11, <1>12, <1>13
     DEF Next, CallerStep, ProcessStep

\* rpc keeps the promise of RpcCall: the values of a remote function reach its caller
\* in order, none twice and none skipped, and a call that ends without an exception
\* has delivered all of them, unless the process that holds the queues is lost.
THEOREM KeepsPromise == Spec => ImplementsRpcCall
<1>1. IInv /\ [Next]_vars => [Abstract!Next]_(Abstract!vars)
  BY AbstractStep
<1> QED
  BY <1>1, AbstractInit, InductiveInvariant, PTL DEF Spec, ImplementsRpcCall, Abstract!Spec
=============================================================================
