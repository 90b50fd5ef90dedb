-------------------------- MODULE AccountingProofs --------------------------
(***************************************************************************)
(* Proofs about the usage sink, the books and the shutdown, for every      *)
(* number of requests and every size of the channel, the batches and the   *)
(* audit ring.  The sink inside keeps the invariant shown first for the    *)
(* sink by itself.                                                         *)
(***************************************************************************)
EXTENDS Accounting, FiniteSetTheorems, TLAPS

-----------------------------------------------------------------------------
(* The sink by itself *)

\* s is strictly increasing.
Increasing(s) == \A i, j \in 1 .. Len(s) : i < j => s[i] < s[j]

\* Every element of s is smaller than every element of t.
Below(s, t) == \A i \in 1 .. Len(s) : \A j \in 1 .. Len(t) : s[i] < t[j]

\* Every element of s is smaller than n.
Under(s, n) == \A i \in 1 .. Len(s) : s[i] < n

-----------------------------------------------------------------------------
(* Facts about sequences of event numbers *)

\* What appending an element does to the order.
LEMMA AppendOrder ==
  ASSUME NEW s \in Seq(Nat), NEW x \in Nat
  PROVE  /\ Append(s, x) \in Seq(Nat) /\ Len(Append(s, x)) = Len(s) + 1
         /\ \A i \in 1 .. Len(s) : Append(s, x)[i] = s[i]
         /\ Append(s, x)[Len(s) + 1] = x
         /\ Increasing(s) /\ Under(s, x) => Increasing(Append(s, x))
         /\ \A t \in Seq(Nat) : Below(t, s) /\ Under(t, x) => Below(t, Append(s, x))
         /\ \A t \in Seq(Nat) : Below(s, t) /\ (\A j \in 1 .. Len(t) : x < t[j]) => Below(Append(s, x), t)
         /\ \A n \in Nat : Under(s, n) /\ x < n => Under(Append(s, x), n)
<1>1. /\ Append(s, x) \in Seq(Nat) /\ Len(Append(s, x)) = Len(s) + 1
      /\ \A i \in 1 .. Len(s) : Append(s, x)[i] = s[i]
      /\ Append(s, x)[Len(s) + 1] = x
      /\ Len(s) \in Nat
  OBVIOUS
<1>2. \A i \in 1 .. Len(s) : s[i] \in Nat
  OBVIOUS
<1> DEFINE a == Append(s, x)
<1> HIDE DEF a
<1>3. \A i \in 1 .. Len(a) : (i \in 1 .. Len(s) /\ a[i] = s[i]) \/ (i = Len(s) + 1 /\ a[i] = x)
  <2> SUFFICES ASSUME NEW i \in 1 .. Len(a)
               PROVE  (i \in 1 .. Len(s) /\ a[i] = s[i]) \/ (i = Len(s) + 1 /\ a[i] = x)
    OBVIOUS
  <2>1. /\ Len(a) = Len(s) + 1 /\ Len(s) \in Nat
        /\ \A k \in 1 .. Len(s) : a[k] = s[k]
        /\ a[Len(s) + 1] = x
    BY <1>1, Zenon DEF a
  <2>2. i \in 1 .. Len(s) \/ i = Len(s) + 1
    BY <2>1
  <2> QED
    BY <2>1, <2>2
<1>4. Increasing(s) /\ Under(s, x) => Increasing(a)
  <2> SUFFICES ASSUME Increasing(s), Under(s, x),
                      NEW i \in 1 .. Len(a), NEW j \in 1 .. Len(a), i < j
               PROVE  a[i] < a[j]
    BY DEF Increasing
  <2>1. Len(a) = Len(s) + 1 /\ Len(s) \in Nat
    BY <1>1 DEF a
  <2>2. i \in 1 .. Len(s) /\ a[i] = s[i]
    BY <1>3, <2>1
  <2>3. CASE j \in 1 .. Len(s) /\ a[j] = s[j]
    BY <2>2, <2>3 DEF Increasing
  <2>4. CASE j = Len(s) + 1 /\ a[j] = x
    BY <2>2, <2>4 DEF Under
  <2> QED
    BY <1>3, <2>3, <2>4
<1>5. \A t \in Seq(Nat) : Below(t, s) /\ Under(t, x) => Below(t, a)
  BY <1>3 DEF Below, Under
<1>6. \A t \in Seq(Nat) : Below(s, t) /\ (\A j \in 1 .. Len(t) : x < t[j]) => Below(a, t)
  BY <1>3 DEF Below
<1>7. \A n \in Nat : Under(s, n) /\ x < n => Under(a, n)
  BY <1>3 DEF Under
<1> QED
  BY <1>1, <1>4, <1>5, <1>6, <1>7 DEF a

\* A larger bound is a bound.
LEMMA UnderNext == \A s \in Seq(Nat), n \in Nat : Under(s, n) => Under(s, n + 1)
<1> SUFFICES ASSUME NEW s \in Seq(Nat), NEW n \in Nat, Under(s, n), NEW i \in 1 .. Len(s)
             PROVE  s[i] < n + 1
  BY DEF Under
<1>1. s[i] \in Nat /\ s[i] < n
  BY DEF Under
<1> QED
  BY <1>1

\* What taking the first element off does to the order.
LEMMA TailOrder ==
  ASSUME NEW s \in Seq(Nat), s # <<>>
  PROVE  /\ Head(s) \in Nat /\ Tail(s) \in Seq(Nat) /\ Len(Tail(s)) = Len(s) - 1 /\ Len(s) \in Nat \ {0}
         /\ Head(s) = s[1]
         /\ \A i \in 1 .. Len(Tail(s)) : Tail(s)[i] = s[i + 1] /\ i + 1 \in 1 .. Len(s)
         /\ Increasing(s) => /\ Increasing(Tail(s))
                             /\ \A j \in 1 .. Len(Tail(s)) : Head(s) < Tail(s)[j]
         /\ \A t \in Seq(Nat) : Below(t, s) => Below(t, Tail(s)) /\ Under(t, Head(s))
         /\ \A n \in Nat : Under(s, n) => Under(Tail(s), n) /\ Head(s) < n
<1>1. /\ Head(s) \in Nat /\ Tail(s) \in Seq(Nat) /\ Len(Tail(s)) = Len(s) - 1
      /\ Len(s) \in Nat \ {0} /\ Head(s) = s[1]
      /\ \A i \in 1 .. Len(Tail(s)) : Tail(s)[i] = s[i + 1]
  OBVIOUS
<1> DEFINE t == Tail(s)
           h == Head(s)
<1> HIDE DEF t, h
<1>2. /\ h = s[1] /\ 1 \in 1 .. Len(s) /\ Len(s) \in Nat /\ Len(t) = Len(s) - 1
      /\ \A i \in 1 .. Len(t) : t[i] = s[i + 1] /\ i + 1 \in 1 .. Len(s)
  BY <1>1 DEF t, h
<1>3. Increasing(s) => Increasing(t) /\ \A j \in 1 .. Len(t) : h < t[j]
  <2> SUFFICES ASSUME Increasing(s) PROVE Increasing(t) /\ \A j \in 1 .. Len(t) : h < t[j]
    OBVIOUS
  <2>1. ASSUME NEW i \in 1 .. Len(t), NEW j \in 1 .. Len(t), i < j PROVE t[i] < t[j]
    <3>1. /\ i + 1 \in 1 .. Len(s) /\ j + 1 \in 1 .. Len(s) /\ i + 1 < j + 1
          /\ t[i] = s[i + 1] /\ t[j] = s[j + 1]
      BY <1>2, <2>1
    <3> QED
      BY <3>1 DEF Increasing
  <2>2. ASSUME NEW j \in 1 .. Len(t) PROVE h < t[j]
    <3>1. 1 < j + 1 /\ j + 1 \in 1 .. Len(s) /\ t[j] = s[j + 1] /\ 1 \in 1 .. Len(s) /\ h = s[1]
      BY <1>2
    <3> QED
      BY <3>1 DEF Increasing
  <2> QED
    BY <2>1, <2>2 DEF Increasing
<1>4. \A u \in Seq(Nat) : Below(u, s) => Below(u, t) /\ Under(u, h)
  BY <1>2 DEF Below, Under
<1>5. \A n \in Nat : Under(s, n) => Under(t, n) /\ h < n
  BY <1>2 DEF Under
<1> QED
  BY <1>1, <1>2, <1>3, <1>4, <1>5 DEF t, h

\* What concatenation does to the order.
LEMMA ConcatOrder ==
  ASSUME NEW s \in Seq(Nat), NEW u \in Seq(Nat)
  PROVE  /\ s \o u \in Seq(Nat) /\ Len(s \o u) = Len(s) + Len(u)
         /\ \A i \in 1 .. Len(s \o u) : \/ i \in 1 .. Len(s) /\ (s \o u)[i] = s[i]
                                        \/ /\ i - Len(s) \in 1 .. Len(u)
                                           /\ (s \o u)[i] = u[i - Len(s)]
         /\ Increasing(s) /\ Increasing(u) /\ Below(s, u) => Increasing(s \o u)
         /\ \A t \in Seq(Nat) : Below(s, t) /\ Below(u, t) => Below(s \o u, t)
         /\ \A n \in Nat : Under(s, n) /\ Under(u, n) => Under(s \o u, n)
<1>1. /\ s \o u \in Seq(Nat) /\ Len(s \o u) = Len(s) + Len(u)
      /\ Len(s) \in Nat /\ Len(u) \in Nat
      /\ \A i \in 1 .. Len(s) : (s \o u)[i] = s[i]
      /\ \A i \in Len(s) + 1 .. Len(s) + Len(u) : (s \o u)[i] = u[i - Len(s)]
  OBVIOUS
<1> DEFINE c == s \o u
<1> HIDE DEF c
<1>2. \A i \in 1 .. Len(c) : \/ i \in 1 .. Len(s) /\ c[i] = s[i]
                             \/ i \notin 1 .. Len(s) /\ i - Len(s) \in 1 .. Len(u) /\ c[i] = u[i - Len(s)]
  BY <1>1 DEF c
<1>3. Increasing(s) /\ Increasing(u) /\ Below(s, u) => Increasing(c)
  <2> SUFFICES ASSUME Increasing(s), Increasing(u), Below(s, u),
                      NEW i \in 1 .. Len(c), NEW j \in 1 .. Len(c), i < j
               PROVE  c[i] < c[j]
    BY DEF Increasing
  <2>1. CASE i \in 1 .. Len(s) /\ j \in 1 .. Len(s)
    BY <1>1, <1>2, <2>1 DEF Increasing
  <2>2. CASE i \in 1 .. Len(s) /\ j \notin 1 .. Len(s)
    BY <1>1, <1>2, <2>2 DEF Below
  <2>3. CASE i \notin 1 .. Len(s)
    <3>1. j \notin 1 .. Len(s)
      BY <1>1, <2>3
    <3>2. /\ c[i] = u[i - Len(s)] /\ i - Len(s) \in 1 .. Len(u)
          /\ c[j] = u[j - Len(s)] /\ j - Len(s) \in 1 .. Len(u)
      BY <1>2, <2>3, <3>1
    <3>3. i - Len(s) < j - Len(s)
      BY <1>1
    <3> QED
      BY <3>2, <3>3 DEF Increasing
  <2> QED
    BY <2>1, <2>2, <2>3
<1>4. \A t \in Seq(Nat) : Below(s, t) /\ Below(u, t) => Below(c, t)
  BY <1>2 DEF Below
<1>5. \A n \in Nat : Under(s, n) /\ Under(u, n) => Under(c, n)
  BY <1>2 DEF Under
<1> QED
  BY <1>1, <1>2, <1>3, <1>4, <1>5 DEF c

-----------------------------------------------------------------------------
(* The invariant *)

\* The stages of the pipeline follow each other: what is stored is older than
\* the batch, the batch older than the channel, and all of it older than the
\* next event.  StoredOnceInOrder is the same fact about their concatenation.
Pipeline == /\ Increasing(stored) /\ Increasing(batch) /\ Increasing(ch)
            /\ Below(stored, batch) /\ Below(stored, ch) /\ Below(batch, ch)
            /\ Under(stored, next) /\ Under(batch, next) /\ Under(ch, next)

\* What Close noted, and that only Close sends the worker to its drain loop.
Closing == /\ closedAt <= next
           /\ worker \in {"drain", "last_flush", "done"} => stop

IInv == TypeOK /\ Conserved /\ Pipeline /\ DrainedOnClose /\ Closing

\* Taking an event moves it from the channel to the batch and keeps the order.
LEMMA TakeStep ==
  ASSUME TypeOK, Pipeline, Take
  PROVE  /\ ch' \in Seq(Nat) /\ batch' \in Seq(Nat)
         /\ Len(ch') = Len(ch) - 1 /\ Len(batch') = Len(batch) + 1
         /\ Len(ch) \in Nat \ {0} /\ Len(batch) \in Nat
         /\ Increasing(batch') /\ Increasing(ch')
         /\ Below(stored, batch') /\ Below(stored, ch') /\ Below(batch', ch')
         /\ Under(batch', next) /\ Under(ch', next)
<1> DEFINE h == Head(ch)
           t == Tail(ch)
<1>0. /\ ch \in Seq(Nat) /\ batch \in Seq(Nat) /\ stored \in Seq(Nat) /\ next \in Nat
      /\ ch # <<>> /\ ch' = t /\ batch' = Append(batch, h)
  BY DEF TypeOK, Take
<1>1. /\ h \in Nat /\ t \in Seq(Nat) /\ Len(t) = Len(ch) - 1 /\ Len(ch) \in Nat \ {0}
      /\ Increasing(t) /\ \A j \in 1 .. Len(t) : h < t[j]
      /\ Below(stored, t) /\ Under(stored, h)
      /\ Below(batch, t) /\ Under(batch, h)
      /\ Under(t, next) /\ h < next
  BY <1>0, TailOrder DEF Pipeline
<1> HIDE DEF h, t
<1>2. Len(batch) \in Nat
  BY <1>0
<1>3. /\ Append(batch, h) \in Seq(Nat) /\ Len(Append(batch, h)) = Len(batch) + 1
      /\ Increasing(Append(batch, h))
      /\ Below(stored, Append(batch, h)) /\ Below(Append(batch, h), t)
      /\ Under(Append(batch, h), next)
  BY <1>0, <1>1, AppendOrder DEF Pipeline
<1> QED
  BY <1>0, <1>1, <1>2, <1>3

\* A new event goes to the end of the channel or is counted as dropped.
LEMMA EnqueueStep == IInv /\ Enqueue => IInv'
<1> SUFFICES ASSUME IInv, Enqueue PROVE IInv'
  OBVIOUS
<1>0. /\ ch \in Seq(Nat) /\ batch \in Seq(Nat) /\ stored \in Seq(Nat)
      /\ next \in Nat \ {0} /\ dropped \in Nat /\ discarded \in Nat /\ closedAt \in Nat
      /\ Len(ch) \in Nat /\ Len(batch) \in Nat /\ Len(stored) \in Nat
      /\ BufferSize \in Nat
  BY SinkAssumption DEF IInv, TypeOK
<1>1. /\ next' = next + 1 /\ batch' = batch /\ worker' = worker /\ stop' = stop
      /\ stored' = stored /\ discarded' = discarded /\ closedAt' = closedAt
  BY DEF Enqueue
<1>2. Under(stored, next + 1) /\ Under(batch, next + 1) /\ Under(ch, next + 1)
  BY <1>0, UnderNext DEF IInv, Pipeline
<1>3. CASE Len(ch) < BufferSize /\ ch' = Append(ch, next) /\ UNCHANGED dropped
  <2>1. /\ ch' \in Seq(Nat) /\ Len(ch') = Len(ch) + 1 /\ Increasing(ch')
        /\ Below(stored, ch') /\ Below(batch, ch') /\ Under(ch', next + 1)
        /\ \A i \in 1 .. Len(ch) : ch'[i] = ch[i]
        /\ ch'[Len(ch) + 1] = next
    BY <1>0, <1>2, <1>3, AppendOrder DEF IInv, Pipeline
  <2>2. TypeOK'
    BY <1>0, <1>1, <1>3, <2>1 DEF IInv, TypeOK
  <2>3. Conserved'
    BY <1>0, <1>1, <1>3, <2>1 DEF IInv, Conserved
  <2>4. Pipeline'
    BY <1>1, <1>2, <2>1 DEF IInv, Pipeline
  <2>5. DrainedOnClose'
    <3>1. DOMAIN ch' = 1 .. Len(ch) + 1 /\ DOMAIN ch = 1 .. Len(ch)
      BY <1>0, <2>1
    <3>2. next >= closedAt
      BY <1>0 DEF IInv, Closing
    <3> SUFFICES ASSUME worker \in {"last_flush", "done"}, NEW i \in 1 .. Len(ch) + 1
                 PROVE  ch'[i] >= closedAt
      BY <1>1, <3>1 DEF DrainedOnClose
    <3>3. CASE i \in 1 .. Len(ch)
      <4>1. ch[i] >= closedAt
        BY <3>1, <3>3 DEF IInv, DrainedOnClose
      <4> QED
        BY <2>1, <3>3, <4>1
    <3>4. CASE i = Len(ch) + 1
      BY <2>1, <3>2, <3>4
    <3> QED
      BY <1>0, <3>3, <3>4
  <2>6. Closing'
    BY <1>0, <1>1 DEF IInv, Closing
  <2> QED
    BY <2>2, <2>3, <2>4, <2>5, <2>6 DEF IInv
<1>4. CASE Len(ch) >= BufferSize /\ dropped' = dropped + 1 /\ UNCHANGED ch
  <2>1. TypeOK'
    BY <1>0, <1>1, <1>4 DEF IInv, TypeOK
  <2>2. Conserved'
    BY <1>0, <1>1, <1>4 DEF IInv, Conserved
  <2>3. Pipeline'
    BY <1>1, <1>2, <1>4 DEF IInv, Pipeline
  <2>4. DrainedOnClose'
    BY <1>1, <1>4 DEF IInv, DrainedOnClose
  <2>5. Closing'
    BY <1>0, <1>1 DEF IInv, Closing
  <2> QED
    BY <2>1, <2>2, <2>3, <2>4, <2>5 DEF IInv
<1> QED
  BY <1>3, <1>4 DEF Enqueue

\* Moving an event from the channel to the batch, in the loop or on closing.
LEMMA MoveStep == IInv /\ (Receive \/ Drain) => IInv'
<1> SUFFICES ASSUME IInv, Receive \/ Drain PROVE IInv'
  OBVIOUS
<1>0. TypeOK /\ Pipeline /\ Take
  BY DEF IInv, Receive, Drain
<1>1. /\ stop' = stop /\ dropped' = dropped /\ next' = next /\ stored' = stored
      /\ discarded' = discarded /\ closedAt' = closedAt
      /\ worker' \in {"select", "flush", "drain"}
      /\ worker' = "drain" => worker = "drain"
  BY DEF Receive, Drain
<1>2. /\ ch' \in Seq(Nat) /\ batch' \in Seq(Nat)
      /\ Len(ch') = Len(ch) - 1 /\ Len(batch') = Len(batch) + 1
      /\ Len(ch) \in Nat \ {0} /\ Len(batch) \in Nat
      /\ Increasing(batch') /\ Increasing(ch')
      /\ Below(stored, batch') /\ Below(stored, ch') /\ Below(batch', ch')
      /\ Under(batch', next) /\ Under(ch', next)
  BY <1>0, TakeStep
<1>3. TypeOK'
  BY <1>0, <1>1, <1>2, SinkAssumption DEF TypeOK
<1>4. Conserved'
  <2>1. Len(stored) \in Nat /\ dropped \in Nat /\ discarded \in Nat /\ next \in Nat
    BY <1>0 DEF TypeOK
  <2> QED
    BY <1>1, <1>2, <2>1 DEF IInv, Conserved
<1>5. Pipeline'
  BY <1>0, <1>1, <1>2 DEF Pipeline
<1>6. DrainedOnClose'
  BY <1>1 DEF DrainedOnClose
<1>7. Closing'
  BY <1>1 DEF IInv, Closing
<1> QED
  BY <1>3, <1>4, <1>5, <1>6, <1>7 DEF IInv

\* The worker only changes its mind: ticker, stop channel, channel empty.
LEMMA TurnStep == IInv /\ (Tick \/ NoticeStop \/ DrainEnds) => IInv'
<1> SUFFICES ASSUME IInv, Tick \/ NoticeStop \/ DrainEnds PROVE IInv'
  OBVIOUS
<1>1. /\ stop' = stop /\ dropped' = dropped /\ next' = next /\ stored' = stored /\ batch' = batch
      /\ discarded' = discarded /\ closedAt' = closedAt /\ ch' = ch
      /\ worker' \in {"flush", "drain", "last_flush"}
      /\ worker' = "last_flush" => ch = <<>>
      /\ worker' = "flush" \/ worker = "drain" \/ stop
  BY DEF Tick, NoticeStop, DrainEnds
<1>2. TypeOK' /\ Conserved' /\ Pipeline' /\ Closing'
  BY <1>1 DEF IInv, TypeOK, Conserved, Pipeline, Closing
<1>3. DrainedOnClose'
  <2>1. CASE worker' = "last_flush"
    BY <1>1, <2>1 DEF DrainedOnClose
  <2>2. CASE worker' # "last_flush"
    BY <1>1, <2>2 DEF DrainedOnClose
  <2> QED
    BY <2>1, <2>2
<1> QED
  BY <1>2, <1>3 DEF IInv

\* A flush empties the batch, into the database or into the count of losses.
LEMMA FlushStep == IInv /\ Flush => IInv'
<1> SUFFICES ASSUME IInv, Flush PROVE IInv'
  OBVIOUS
<1>0. /\ ch \in Seq(Nat) /\ batch \in Seq(Nat) /\ stored \in Seq(Nat)
      /\ next \in Nat \ {0} /\ dropped \in Nat /\ discarded \in Nat
      /\ Len(ch) \in Nat /\ Len(batch) \in Nat /\ Len(stored) \in Nat
  BY DEF IInv, TypeOK
<1>1. /\ ch' = ch /\ batch' = <<>> /\ stop' = stop /\ dropped' = dropped /\ next' = next
      /\ closedAt' = closedAt /\ worker \in {"flush", "last_flush"}
      /\ worker' = IF worker = "flush" THEN "select" ELSE "done"
  BY DEF Flush, FlushOk, FlushFails, AfterFlush
<1>2. Len(batch') = 0 /\ batch' \in Seq(Nat) /\ worker' \in {"select", "done"}
  BY <1>1
<1>3. /\ Increasing(batch') /\ Below(batch', ch) /\ Under(batch', next)
      /\ \A s \in Seq(Nat) : Below(s, batch')
  BY <1>2 DEF Increasing, Below, Under
<1>4. DrainedOnClose' /\ Closing'
  BY <1>1 DEF IInv, DrainedOnClose, Closing
<1>5. CASE FlushOk
  <2>1. stored' = stored \o batch /\ discarded' = discarded
    BY <1>5 DEF FlushOk
  <2>2. /\ stored' \in Seq(Nat) /\ Len(stored') = Len(stored) + Len(batch)
        /\ Increasing(stored') /\ Below(stored', ch) /\ Under(stored', next)
    BY <1>0, <2>1, ConcatOrder DEF IInv, Pipeline
  <2>3. TypeOK'
    BY <1>0, <1>1, <1>2, <2>1, <2>2 DEF IInv, TypeOK
  <2>4. Conserved'
    BY <1>0, <1>1, <1>2, <2>1, <2>2 DEF IInv, Conserved
  <2>5. Pipeline'
    BY <1>1, <1>3, <2>2 DEF IInv, Pipeline
  <2> QED
    BY <1>4, <2>3, <2>4, <2>5 DEF IInv
<1>6. CASE FlushFails
  <2>1. stored' = stored /\ discarded' = discarded + Len(batch)
    BY <1>6 DEF FlushFails
  <2>2. TypeOK'
    BY <1>0, <1>1, <1>2, <2>1 DEF IInv, TypeOK
  <2>3. Conserved'
    BY <1>0, <1>1, <1>2, <2>1 DEF IInv, Conserved
  <2>4. Pipeline'
    BY <1>0, <1>1, <1>3, <2>1 DEF IInv, Pipeline
  <2> QED
    BY <1>4, <2>2, <2>3, <2>4 DEF IInv
<1> QED
  BY <1>5, <1>6 DEF Flush

\* Close only notes where the stream of events stands; the worker cannot be
\* past its drain loop at that moment, because only Close lets it go there.
LEMMA CloseStep == IInv /\ Close => IInv'
<1> SUFFICES ASSUME IInv, Close PROVE IInv'
  OBVIOUS
<1>0. worker \notin {"last_flush", "done"}
  BY DEF IInv, Closing, Close
<1>1. /\ stop' = TRUE /\ dropped' = dropped /\ next' = next /\ stored' = stored /\ batch' = batch
      /\ discarded' = discarded /\ closedAt' = next /\ ch' = ch /\ worker' = worker
  BY DEF Close
<1>2. TypeOK'
  BY <1>1 DEF IInv, TypeOK
<1>3. Conserved' /\ Pipeline'
  BY <1>1 DEF IInv, Conserved, Pipeline
<1>4. DrainedOnClose'
  BY <1>0, <1>1 DEF DrainedOnClose
<1>5. Closing'
  BY <1>1 DEF IInv, TypeOK, Closing
<1> QED
  BY <1>2, <1>3, <1>4, <1>5 DEF IInv

-----------------------------------------------------------------------------
(* The theorems *)

\* The sink starts with the invariant.
LEMMA SinkInit == Init => IInv
<1> SUFFICES ASSUME Init PROVE IInv
  OBVIOUS
<1>1. /\ Len(ch) = 0 /\ Len(batch) = 0 /\ Len(stored) = 0
      /\ ch \in Seq(Nat) /\ batch \in Seq(Nat) /\ stored \in Seq(Nat)
  BY DEF Init
<1>2. TypeOK
  <2>1. Len(ch) <= BufferSize
    BY <1>1, SinkAssumption
  <2>2. stop \in BOOLEAN
    BY Zenon DEF Init
  <2> QED
    BY <1>1, <2>1, <2>2 DEF Init, TypeOK
<1>3. Conserved
  BY <1>1 DEF Init, Conserved
<1>4. Pipeline
  BY <1>1 DEF Pipeline, Increasing, Below, Under
<1>5. DrainedOnClose /\ Closing
  BY DEF Init, DrainedOnClose, Closing
<1> QED
  BY <1>2, <1>3, <1>4, <1>5 DEF IInv

\* Every step of the sink preserves it.
LEMMA SinkNext == IInv /\ [Next]_vars => IInv'
<1> SUFFICES ASSUME IInv, [Next]_vars PROVE IInv'
  OBVIOUS
<1>1. CASE UNCHANGED vars
  <2>1. /\ ch' = ch /\ batch' = batch /\ worker' = worker /\ stop' = stop /\ dropped' = dropped
        /\ next' = next /\ stored' = stored /\ discarded' = discarded /\ closedAt' = closedAt
    BY <1>1 DEF vars
  <2>2. TypeOK' /\ Conserved'
    BY <2>1 DEF IInv, TypeOK, Conserved
  <2>3. Pipeline' /\ DrainedOnClose' /\ Closing'
    BY <2>1 DEF IInv, Pipeline, DrainedOnClose, Closing
  <2> QED
    BY <2>2, <2>3 DEF IInv
<1> QED
  BY <1>1, EnqueueStep, CloseStep, MoveStep, TurnStep, FlushStep DEF Next, Work

\* The invariant holds in every reachable state of the sink.
THEOREM Invariance == Spec => []IInv
BY SinkInit, SinkNext, PTL DEF Spec

\* The variables of the sink keep their types and the channel its capacity.
THEOREM TypeCorrect == Spec => []TypeOK
<1>1. IInv => TypeOK
  BY DEF IInv
<1> QED
  BY <1>1, Invariance, PTL

\* No event is lost without being counted, in any interleaving of handlers,
\* worker, failing flushes and Close.
THEOREM ConservedSafe == Spec => []Conserved
<1>1. IInv => Conserved
  BY DEF IInv
<1> QED
  BY <1>1, Invariance, PTL

\* The database receives events in order and none of them twice.
THEOREM StoredOnceInOrderSafe == Spec => []StoredOnceInOrder
<1>1. ASSUME IInv PROVE StoredOnceInOrder
  <2>0. stored \in Seq(Nat) /\ batch \in Seq(Nat) /\ ch \in Seq(Nat)
    BY <1>1 DEF IInv, TypeOK
  <2> DEFINE sb == stored \o batch
             pipeline == sb \o ch
  <2>1. sb \in Seq(Nat) /\ Increasing(sb) /\ Below(sb, ch)
    BY <1>1, <2>0, ConcatOrder DEF IInv, Pipeline
  <2> HIDE DEF sb
  <2>2. pipeline \in Seq(Nat) /\ Increasing(pipeline)
    BY <1>1, <2>0, <2>1, ConcatOrder DEF IInv, Pipeline
  <2> HIDE DEF pipeline
  <2>3. \A i, j \in DOMAIN pipeline : i < j => pipeline[i] < pipeline[j]
    BY <2>2 DEF Increasing
  <2> QED
    BY <2>3 DEF StoredOnceInOrder, sb, pipeline
<1> QED
  BY <1>1, Invariance, PTL

\* Nothing reported before Close is left behind when the worker is gone.
THEOREM DrainedOnCloseSafe == Spec => []DrainedOnClose
<1>1. IInv => DrainedOnClose
  BY DEF IInv
<1> QED
  BY <1>1, Invariance, PTL

-----------------------------------------------------------------------------
(* The books *)

Tracked == {q \in Records : handler[q] = "tracked"}

\* The variables that Accounting adds to the sink, but for the audit ring.
AccountTypes ==
  /\ handler \in [Records -> {"idle", "serving", "audited", "tracked", "done"}]
  /\ usage \in Nat
  /\ server \in {"up", "shutdown", "closing", "exited"}

\* How far main is and what the sink has been told.
MainAndSink ==
  /\ server \in {"up", "shutdown"} => ~stop
  /\ server = "exited" => worker = "done"
  /\ worker = "done" => batch = <<>>

\* Once Close was called without a timeout, no handler is left to report.
NoLateHandler ==
  server \in {"closing", "exited"} /\ ~timedOut =>
    /\ closedAt = next
    /\ \A q \in Records : handler[q] \in {"idle", "done"}

\* The tracker is ahead of the sink by the handlers between the two.
TrackerAhead == usage = next - 1 + Cardinality(Tracked)

AccountingInv == /\ IInv
                 /\ AccountTypes
                 /\ MainAndSink
                 /\ NoLateHandler
                 /\ TrackerAhead

\* Every step of Accounting is a step of the sink or leaves it alone.
LEMMA SimulatesSink == [AccountingNext]_allVars => [Next]_vars
BY DEF AccountingNext, allVars, Accept, AuditUnserved, AuditServed, Track, Charge, Signal,
       ShutdownReturns, ShutdownTimesOut, Exit, SinkWorks, Next

\* The requests between tracker and sink are finitely many.
LEMMA TrackedFinite == IsFiniteSet(Tracked) /\ Cardinality(Tracked) \in Nat
<1>1. Tracked \in SUBSET Records
  BY DEF Tracked
<1> QED
  BY <1>1, AccountingAssumption, FS_Subset, FS_CardinalityType

\* The invariant holds when the process starts.
LEMMA AccountingInitInv == AccountingInit => AccountingInv
<1> SUFFICES ASSUME AccountingInit PROVE AccountingInv
  OBVIOUS
<1>1. IInv
  BY SinkInit DEF AccountingInit
<1>2. AccountTypes /\ NoLateHandler
  BY DEF AccountingInit, AccountTypes, NoLateHandler
<1>3. MainAndSink
  BY Zenon DEF AccountingInit, Init, MainAndSink
<1>4. TrackerAhead
  <2>1. Tracked = {}
    BY DEF AccountingInit, Tracked
  <2> QED
    BY <2>1, FS_EmptySet DEF AccountingInit, Init, TrackerAhead
<1> QED
  BY <1>1, <1>2, <1>3, <1>4 DEF AccountingInv

\* A handler's step that leaves sink and main alone, and does not enter or
\* leave the part between tracker and sink.
LEMMA HandlerStep ==
  ASSUME AccountingInv, AccountingInv!1',
         NEW q \in Records, NEW from, NEW to \in {"serving", "audited", "done"},
         Step(q, from, to), from \in {"idle", "serving"},
         from = "idle" => server = "up",
         UNCHANGED <<vars, usage, server, timedOut>>
  PROVE  AccountingInv'
<1>1. /\ next' = next /\ worker' = worker /\ stop' = stop /\ batch' = batch /\ closedAt' = closedAt
      /\ usage' = usage /\ server' = server /\ timedOut' = timedOut
  BY DEF vars
<1>2. /\ handler' = [handler EXCEPT ![q] = to]
      /\ handler[q] = from
  BY DEF Step
<1>3. AccountTypes'
  BY <1>1, <1>2 DEF AccountingInv, AccountTypes
<1>4. MainAndSink'
  BY <1>1 DEF AccountingInv, MainAndSink
<1>5. NoLateHandler'
  <2> SUFFICES ASSUME server \in {"closing", "exited"}, ~timedOut PROVE FALSE
    BY <1>1, <1>2 DEF AccountingInv, AccountTypes, NoLateHandler
  <2>1. handler[q] \in {"idle", "done"}
    BY DEF AccountingInv, NoLateHandler
  <2> QED
    BY <1>2, <2>1
<1>6. Tracked' = Tracked
  BY <1>2 DEF AccountingInv, AccountTypes, Tracked
<1>7. TrackerAhead'
  BY <1>1, <1>6 DEF AccountingInv, TrackerAhead
<1> QED
  BY <1>3, <1>4, <1>5, <1>7 DEF AccountingInv

\* Every step preserves the invariant.
LEMMA AccountingNextInv == AccountingInv /\ [AccountingNext]_allVars => AccountingInv'
<1> SUFFICES ASSUME AccountingInv, [AccountingNext]_allVars PROVE AccountingInv'
  OBVIOUS
<1>0. IInv'
  BY SimulatesSink, SinkNext DEF AccountingInv
<1>t. next \in Nat \ {0} /\ usage \in Nat
  BY DEF AccountingInv, IInv, TypeOK, AccountTypes
<1>1. ASSUME NEW q \in Records, Accept(q) \/ AuditUnserved(q) \/ AuditServed(q) PROVE AccountingInv'
  BY <1>0, <1>1, HandlerStep DEF Accept, AuditUnserved, AuditServed, Step
<1>2. ASSUME NEW q \in Records, Track(q) PROVE AccountingInv'
  <2>1. /\ next' = next /\ worker' = worker /\ stop' = stop /\ batch' = batch /\ closedAt' = closedAt
        /\ usage' = usage + 1 /\ server' = server /\ timedOut' = timedOut
        /\ handler[q] = "audited" /\ handler' = [handler EXCEPT ![q] = "tracked"]
    BY <1>2 DEF Track, Step, vars
  <2>2. AccountTypes'
    BY <1>t, <2>1 DEF AccountingInv, AccountTypes
  <2>3. MainAndSink'
    BY <2>1 DEF AccountingInv, MainAndSink
  <2>4. NoLateHandler'
    BY <2>1 DEF AccountingInv, NoLateHandler
  <2>5. Tracked' = Tracked \cup {q} /\ q \notin Tracked
    BY <2>1 DEF AccountingInv, AccountTypes, Tracked
  <2>6. Cardinality(Tracked') = Cardinality(Tracked) + 1
    BY <2>5, TrackedFinite, FS_AddElement
  <2>7. TrackerAhead'
    BY <1>t, <2>1, <2>6, TrackedFinite DEF AccountingInv, TrackerAhead
  <2> QED
    BY <1>0, <2>2, <2>3, <2>4, <2>7 DEF AccountingInv
<1>3. ASSUME NEW q \in Records, Charge(q) PROVE AccountingInv'
  <2>1. /\ next' = next + 1 /\ worker' = worker /\ stop' = stop /\ batch' = batch /\ closedAt' = closedAt
        /\ usage' = usage /\ server' = server /\ timedOut' = timedOut
        /\ handler[q] = "tracked" /\ handler' = [handler EXCEPT ![q] = "done"]
    BY <1>3 DEF Charge, Step, Enqueue
  <2>2. AccountTypes'
    BY <2>1 DEF AccountingInv, AccountTypes
  <2>3. MainAndSink'
    BY <2>1 DEF AccountingInv, MainAndSink
  <2>4. NoLateHandler'
    BY <2>1 DEF AccountingInv, NoLateHandler
  <2>5. Tracked' = Tracked \ {q} /\ q \in Tracked
    BY <2>1 DEF AccountingInv, AccountTypes, Tracked
  <2>6. Cardinality(Tracked') = Cardinality(Tracked) - 1
    BY <2>5, TrackedFinite, FS_RemoveElement
  <2>7. TrackerAhead'
    BY <1>t, <2>1, <2>6, TrackedFinite DEF AccountingInv, TrackerAhead
  <2> QED
    BY <1>0, <2>2, <2>3, <2>4, <2>7 DEF AccountingInv
<1>4. CASE Signal
  <2>1. /\ next' = next /\ worker' = worker /\ stop' = stop /\ batch' = batch /\ closedAt' = closedAt
        /\ usage' = usage /\ server = "up" /\ server' = "shutdown" /\ timedOut' = timedOut
        /\ handler' = handler
    BY <1>4 DEF Signal, vars
  <2>2. AccountTypes' /\ MainAndSink' /\ NoLateHandler'
    BY <2>1 DEF AccountingInv, AccountTypes, MainAndSink, NoLateHandler
  <2>3. TrackerAhead'
    BY <2>1 DEF AccountingInv, TrackerAhead, Tracked
  <2> QED
    BY <1>0, <2>2, <2>3 DEF AccountingInv
<1>5. CASE ShutdownReturns \/ ShutdownTimesOut
  <2>1. /\ next' = next /\ worker' = worker /\ batch' = batch /\ closedAt' = next
        /\ usage' = usage /\ server' = "closing" /\ handler' = handler
        /\ server = "shutdown"
    BY <1>5 DEF ShutdownReturns, ShutdownTimesOut, Close
  <2>2. AccountTypes' /\ MainAndSink'
    BY <2>1 DEF AccountingInv, AccountTypes, MainAndSink
  <2>3. timedOut' \/ Active = {}
    BY <1>5 DEF ShutdownReturns, ShutdownTimesOut, HandlersDone
  <2>4. NoLateHandler'
    BY <2>1, <2>3 DEF AccountingInv, AccountTypes, NoLateHandler, Active
  <2>5. TrackerAhead'
    BY <2>1 DEF AccountingInv, TrackerAhead, Tracked
  <2> QED
    BY <1>0, <2>2, <2>4, <2>5 DEF AccountingInv
<1>6. CASE Exit
  <2>1. /\ next' = next /\ worker' = worker /\ stop' = stop /\ batch' = batch /\ closedAt' = closedAt
        /\ usage' = usage /\ server = "closing" /\ server' = "exited" /\ timedOut' = timedOut
        /\ handler' = handler /\ worker = "done"
    BY <1>6 DEF Exit, vars
  <2>2. AccountTypes' /\ MainAndSink' /\ NoLateHandler'
    BY <2>1 DEF AccountingInv, AccountTypes, MainAndSink, NoLateHandler
  <2>3. TrackerAhead'
    BY <2>1 DEF AccountingInv, TrackerAhead, Tracked
  <2> QED
    BY <1>0, <2>2, <2>3 DEF AccountingInv
<1>7. CASE SinkWorks
  <2>1. /\ next' = next /\ stop' = stop /\ closedAt' = closedAt
        /\ usage' = usage /\ server' = server /\ timedOut' = timedOut
        /\ handler' = handler /\ server # "exited"
    BY <1>7 DEF SinkWorks, Work, Receive, Tick, NoticeStop, Drain, DrainEnds, Flush, FlushOk, FlushFails, accountVars
  <2>2. worker' = "done" => batch' = <<>>
    BY <1>7 DEF SinkWorks, Work, Receive, Tick, NoticeStop, Drain, DrainEnds, Flush, FlushOk, FlushFails
  <2>3. AccountTypes' /\ MainAndSink' /\ NoLateHandler'
    BY <2>1, <2>2 DEF AccountingInv, AccountTypes, MainAndSink, NoLateHandler
  <2>4. TrackerAhead'
    BY <2>1 DEF AccountingInv, TrackerAhead, Tracked
  <2> QED
    BY <1>0, <2>3, <2>4 DEF AccountingInv
<1>8. CASE UNCHANGED allVars
  <2>1. /\ next' = next /\ worker' = worker /\ stop' = stop /\ batch' = batch /\ closedAt' = closedAt
        /\ usage' = usage /\ server' = server /\ timedOut' = timedOut /\ handler' = handler
    BY <1>8 DEF allVars, vars, accountVars
  <2>2. AccountTypes' /\ MainAndSink' /\ NoLateHandler'
    BY <2>1 DEF AccountingInv, AccountTypes, MainAndSink, NoLateHandler
  <2>3. TrackerAhead'
    BY <2>1 DEF AccountingInv, TrackerAhead, Tracked
  <2> QED
    BY <1>0, <2>2, <2>3 DEF AccountingInv
<1> QED
  BY <1>1, <1>2, <1>3, <1>4, <1>5, <1>6, <1>7, <1>8 DEF AccountingNext

\* The invariant holds throughout the life of the process.
THEOREM AccountingInvariance == AccountingSpec => []AccountingInv
BY AccountingInitInv, AccountingNextInv, PTL DEF AccountingSpec

\* A shutdown that does not time out leaves no usage in memory, and every
\* request that the tracker has counted is stored, dropped or discarded.
THEOREM NothingLeftAtExitSafe == AccountingSpec => []NothingLeftAtExit
<1>1. ASSUME AccountingInv PROVE NothingLeftAtExit
  <2> SUFFICES ASSUME server = "exited", ~timedOut
               PROVE  /\ ch = <<>> /\ batch = <<>>
                      /\ usage = Len(stored) + dropped + discarded
    BY DEF NothingLeftAtExit
  <2>1. worker = "done" /\ batch = <<>> /\ closedAt = next
    BY <1>1 DEF AccountingInv, MainAndSink, NoLateHandler
  <2>2. ch \in Seq(Nat) /\ Len(ch) \in Nat /\ next \in Nat
    BY <1>1 DEF AccountingInv, IInv, TypeOK
  <2>3. \A i \in 1 .. Len(ch) : ch[i] >= next /\ ch[i] < next
    BY <1>1, <2>1, <2>2 DEF AccountingInv, IInv, DrainedOnClose, Pipeline, Under
  <2>4. Len(ch) = 0
    BY <2>2, <2>3
  <2>5. ch = <<>>
    BY <2>2, <2>4
  <2>6. Tracked = {}
    BY <1>1 DEF AccountingInv, NoLateHandler, Tracked
  <2>7. usage = next - 1
    BY <1>1, <2>2, <2>6, FS_EmptySet DEF AccountingInv, TrackerAhead
  <2>8. next - 1 = Len(stored) + Len(batch) + Len(ch) + dropped + discarded
    BY <1>1 DEF AccountingInv, IInv, Conserved
  <2>9. Len(batch) = 0 /\ Len(stored) \in Nat /\ dropped \in Nat /\ discarded \in Nat
    BY <1>1, <2>1 DEF AccountingInv, IInv, TypeOK
  <2> QED
    BY <2>1, <2>4, <2>5, <2>7, <2>8, <2>9
<1> QED
  BY <1>1, AccountingInvariance, PTL

-----------------------------------------------------------------------------
(* The audit trail next to the other books *)

Audited == {q \in Records : handler[q] = "audited"}

\* Every request that was charged, or will be, is in the log; log only grows,
\* so the tracker can catch up with it but not overtake it.
TrailAhead == /\ log \in Seq(Records)
              /\ usage + Cardinality(Audited) <= Len(log)

\* The requests between the audit trail and the tracker are finitely many.
LEMMA AuditedFinite == IsFiniteSet(Audited) /\ Cardinality(Audited) \in Nat
<1>1. Audited \in SUBSET Records
  BY DEF Audited
<1> QED
  BY <1>1, AccountingAssumption, FS_Subset, FS_CardinalityType

\* Every step keeps the trail ahead of the tracker.
LEMMA TrailAheadStep == AccountingInv /\ TrailAhead /\ [AccountingNext]_allVars => TrailAhead'
<1> SUFFICES ASSUME AccountingInv, TrailAhead, [AccountingNext]_allVars PROVE TrailAhead'
  OBVIOUS
<1>0. /\ handler \in [Records -> {"idle", "serving", "audited", "tracked", "done"}] /\ usage \in Nat
      /\ log \in Seq(Records) /\ Len(log) \in Nat /\ Cardinality(Audited) \in Nat
      /\ usage + Cardinality(Audited) <= Len(log)
  BY AuditedFinite DEF AccountingInv, AccountTypes, TrailAhead
<1>1. ASSUME Audited' = Audited, log' = log, usage' = usage PROVE TrailAhead'
  BY <1>0, <1>1 DEF TrailAhead
<1>2. ASSUME NEW q \in Records, Accept(q) \/ Charge(q) PROVE TrailAhead'
  <2>1. Audited' = Audited
    BY <1>0, <1>2 DEF Accept, Charge, Step, Audited
  <2> QED
    BY <1>1, <1>2, <2>1 DEF Accept, Charge, trailVars
<1>3. ASSUME NEW q \in Records, AuditUnserved(q) PROVE TrailAhead'
  <2>1. Audited' = Audited /\ log' = Append(log, q) /\ usage' = usage
    BY <1>0, <1>3 DEF AuditUnserved, Step, Audited, Record
  <2>2. log' \in Seq(Records) /\ Len(log') = Len(log) + 1
    BY <1>0, <2>1
  <2> QED
    BY <1>0, <2>1, <2>2 DEF TrailAhead
<1>4. ASSUME NEW q \in Records, AuditServed(q) PROVE TrailAhead'
  <2>1. Audited' = Audited \cup {q} /\ q \notin Audited /\ log' = Append(log, q) /\ usage' = usage
    BY <1>0, <1>4 DEF AuditServed, Step, Audited, Record
  <2>2. log' \in Seq(Records) /\ Len(log') = Len(log) + 1
    BY <1>0, <2>1
  <2>3. Cardinality(Audited') = Cardinality(Audited) + 1
    BY <2>1, AuditedFinite, FS_AddElement
  <2> QED
    BY <1>0, <2>1, <2>2, <2>3 DEF TrailAhead
<1>5. ASSUME NEW q \in Records, Track(q) PROVE TrailAhead'
  <2>1. Audited' = Audited \ {q} /\ q \in Audited /\ log' = log /\ usage' = usage + 1
    BY <1>0, <1>5 DEF Track, Step, Audited, trailVars
  <2>2. Cardinality(Audited') = Cardinality(Audited) - 1
    BY <2>1, AuditedFinite, FS_RemoveElement
  <2> QED
    BY <1>0, <2>1, <2>2 DEF TrailAhead
<1>6. CASE Signal \/ ShutdownReturns \/ ShutdownTimesOut \/ Exit \/ SinkWorks \/ UNCHANGED allVars
  <2>1. handler' = handler /\ log' = log /\ usage' = usage
    BY <1>6 DEF Signal, ShutdownReturns, ShutdownTimesOut, Exit, SinkWorks, allVars, trailVars, accountVars
  <2> QED
    BY <1>1, <2>1 DEF Audited
<1> QED
  BY <1>2, <1>3, <1>4, <1>5, <1>6 DEF AccountingNext

\* The books of tracker, sink and audit trail agree, for every number of
\* concurrent requests.
THEOREM BooksAgreeSafe == AccountingSpec => []BooksAgree
<1>1. AccountingInit => TrailAhead
  <2> SUFFICES ASSUME AccountingInit PROVE TrailAhead
    OBVIOUS
  <2>1. Audited = {} /\ log = <<>> /\ usage = 0
    BY DEF AccountingInit, TrailInit, Audited
  <2> QED
    BY <2>1, FS_EmptySet DEF TrailAhead
<1>2. AccountingSpec => []TrailAhead
  BY <1>1, TrailAheadStep, AccountingInvariance, PTL DEF AccountingSpec
<1>3. AccountingInv /\ TrailAhead => BooksAgree
  BY AuditedFinite DEF AccountingInv, AccountTypes, TrackerAhead, Tracked, TrailAhead, BooksAgree
<1> QED
  BY <1>2, <1>3, AccountingInvariance, PTL

-----------------------------------------------------------------------------
(* The ring *)

\* A remainder, where the dividend is less than twice the divisor.
LEMMA SmallRemainder ==
  ASSUME NEW c \in Nat \ {0}, NEW x \in 0 .. 2 * c - 1
  PROVE  x % c = IF x < c THEN x ELSE x - c
<1> DEFINE d == x \div c
           m == x % c
<1>1. m \in 0 .. c - 1 /\ d \in Nat /\ x = c * d + m
  OBVIOUS
<1> HIDE DEF d, m
<1>2. CASE d = 0
  BY <1>1, <1>2 DEF m
<1>3. CASE d = 1
  BY <1>1, <1>3 DEF m
<1>4. CASE d >= 2
  <2>1. c * d >= c * 2
    BY <1>1, <1>4
  <2> QED
    BY <1>1, <2>1
<1> QED
  BY <1>1, <1>2, <1>3, <1>4

\* The slot that Recent reads for the i-th newest record, i counted from 0.
SlotOf(h, i) == (h - 1 - i + Capacity) % Capacity

\* The slots of the newest Capacity records, without a remainder.
LEMMA SlotValue ==
  ASSUME NEW h \in Slots, NEW i \in 0 .. Capacity - 1
  PROVE  SlotOf(h, i) = IF i < h THEN h - 1 - i ELSE h - 1 - i + Capacity
<1>1. Capacity \in Nat \ {0} /\ h \in Nat /\ h < Capacity
  BY TrailAssumption DEF Slots
<1>2. h - 1 - i + Capacity \in 0 .. 2 * Capacity - 1
  BY <1>1
<1> DEFINE x == h - 1 - i + Capacity
<1>3. x % Capacity = IF x < Capacity THEN x ELSE x - Capacity
  <2> HIDE DEF x
  <2>1. x \in 0 .. 2 * Capacity - 1
    BY <1>2 DEF x
  <2> QED
    BY <1>1, <2>1, SmallRemainder
<1>4. SlotOf(h, i) = IF x < Capacity THEN x ELSE x - Capacity
  BY <1>3 DEF SlotOf
<1> QED
  BY <1>1, <1>4

\* The head moves to the next slot, around the end.
LEMMA HeadValue ==
  ASSUME NEW h \in Slots
  PROVE  /\ (h + 1) % Capacity = IF h + 1 < Capacity THEN h + 1 ELSE 0
         /\ (h + 1) % Capacity \in Slots
<1>1. Capacity \in Nat \ {0} /\ h \in Nat /\ h < Capacity
  BY TrailAssumption DEF Slots
<1>2. h + 1 \in 0 .. 2 * Capacity - 1
  BY <1>1
<1> DEFINE x == h + 1
<1>3. x % Capacity = IF x < Capacity THEN x ELSE x - Capacity
  <2> HIDE DEF x
  <2>1. x \in 0 .. 2 * Capacity - 1
    BY <1>2 DEF x
  <2> QED
    BY <1>1, <2>1, SmallRemainder
<1> QED
  BY <1>1, <1>3 DEF Slots

\* The ring holds the end of the log, backwards from head.
RingInv == /\ log \in Seq(Records)
           /\ DOMAIN records = Slots
           /\ head \in Slots
           /\ count = IF Len(log) < Capacity THEN Len(log) ELSE Capacity
           /\ \A i \in 0 .. count - 1 : records[SlotOf(head, i)] = log[Len(log) - i]

\* One more record overwrites the oldest one only.
LEMMA RingStep ==
  ASSUME RingInv, NEW r \in Records, Record(r)
  PROVE  RingInv'
<1>1. Capacity \in Nat \ {0} /\ head \in 0 .. Capacity - 1 /\ log \in Seq(Records) /\ Len(log) \in Nat
  BY TrailAssumption DEF RingInv, Slots
<1>2. /\ log' \in Seq(Records) /\ Len(log') = Len(log) + 1 /\ log'[Len(log) + 1] = r
      /\ \A i \in 1 .. Len(log) : log'[i] = log[i]
  BY <1>1 DEF Record
<1>3. /\ head' = IF head + 1 < Capacity THEN head + 1 ELSE 0
      /\ head' \in Slots
  BY HeadValue DEF RingInv, Record
<1>4. DOMAIN records' = Slots /\ records'[head] = r /\ \A j \in Slots \ {head} : records'[j] = records[j]
  BY DEF RingInv, Record
<1>5. count' = IF Len(log') < Capacity THEN Len(log') ELSE Capacity
  BY <1>1, <1>2 DEF RingInv, Record
<1>6. ASSUME NEW i \in 0 .. count' - 1 PROVE records'[SlotOf(head', i)] = log'[Len(log') - i]
  <2>1. i \in 0 .. Capacity - 1
    BY <1>1, <1>2, <1>5, <1>6
  <2>2. SlotOf(head', i) = IF i < head' THEN head' - 1 - i ELSE head' - 1 - i + Capacity
    BY <1>3, <2>1, SlotValue
  <2>3. CASE i = 0
    <3>1. SlotOf(head', i) = head
      BY <1>1, <1>3, <2>2, <2>3
    <3> QED
      BY <1>1, <1>2, <1>4, <2>3, <3>1
  <2>4. CASE i > 0
    <3>1. i - 1 \in 0 .. count - 1 /\ i - 1 \in 0 .. Capacity - 1
      BY <1>1, <1>2, <1>5, <2>1, <2>4 DEF RingInv
    <3>2. SlotOf(head, i - 1) = IF i - 1 < head THEN head - 1 - (i - 1) ELSE head - 1 - (i - 1) + Capacity
      BY <3>1, SlotValue DEF RingInv
    <3>3. SlotOf(head', i) = SlotOf(head, i - 1) /\ SlotOf(head, i - 1) \in Slots \ {head}
      BY <1>1, <1>3, <2>1, <2>2, <2>4, <3>2 DEF Slots
    <3>4. records[SlotOf(head, i - 1)] = log[Len(log) - (i - 1)]
      BY <3>1 DEF RingInv
    <3>5. Len(log') - i = Len(log) - (i - 1) /\ Len(log) - (i - 1) \in 1 .. Len(log)
      BY <1>1, <1>2, <1>5, <2>1, <2>4
    <3> QED
      BY <1>2, <1>4, <3>3, <3>4, <3>5
  <2> QED
    BY <2>1, <2>3, <2>4
<1> QED
  BY <1>2, <1>3, <1>4, <1>5, <1>6 DEF RingInv

\* The ring holds the end of the log throughout, also while the process shuts
\* down.
THEOREM RingInvariance == AccountingSpec => []RingInv
<1>1. AccountingInit => RingInv
  BY TrailAssumption DEF AccountingInit, TrailInit, RingInv, Slots
<1>2. RingInv /\ [AccountingNext]_allVars => RingInv'
  <2> SUFFICES ASSUME RingInv, [AccountingNext]_allVars PROVE RingInv'
    OBVIOUS
  <2>1. (\E r \in Records : Record(r)) \/ UNCHANGED trailVars
    BY DEF AccountingNext, Accept, AuditUnserved, AuditServed, Track, Charge, Signal, ShutdownReturns,
       ShutdownTimesOut, Exit, SinkWorks, allVars
  <2>2. CASE UNCHANGED trailVars
    BY <2>2 DEF trailVars, RingInv
  <2> QED
    BY <2>1, <2>2, RingStep
<1> QED
  BY <1>1, <1>2, PTL DEF AccountingSpec

\* Recent returns the newest records, for every capacity and however often the
\* ring has wrapped.
THEOREM RecentIsNewestFirstSafe == AccountingSpec => []RecentIsNewestFirst
<1>1. ASSUME RingInv PROVE RecentIsNewestFirst
  <2> SUFFICES ASSUME NEW n \in 1 .. Capacity + 1
               PROVE  LET kept == IF Len(log) < Capacity THEN Len(log) ELSE Capacity
                          size == IF n < kept THEN n ELSE kept
                      IN  Recent(n) = [i \in 1 .. size |-> log[Len(log) - i + 1]]
    BY DEF RecentIsNewestFirst
  <2> DEFINE size == IF n < count THEN n ELSE count
  <2>1. /\ Capacity \in Nat \ {0} /\ Len(log) \in Nat /\ count \in Nat /\ head \in Nat
        /\ count = IF Len(log) < Capacity THEN Len(log) ELSE Capacity
    BY <1>1, TrailAssumption DEF RingInv, Slots
  <2>2. (IF n > count THEN count ELSE n) = size
    BY <2>1
  <2>3. ASSUME NEW i \in 1 .. size
        PROVE  records[(head - 1 - (i - 1) + Capacity) % Capacity] = log[Len(log) - i + 1]
    <3>1. i - 1 \in 0 .. count - 1 /\ Len(log) - (i - 1) = Len(log) - i + 1
      BY <2>1, <2>3
    <3> QED
      BY <1>1, <3>1 DEF RingInv, SlotOf
  <2>4. Recent(n) = [i \in 1 .. size |-> records[(head - 1 - (i - 1) + Capacity) % Capacity]]
    BY <2>2 DEF Recent
  <2>5. Recent(n) = [i \in 1 .. size |-> log[Len(log) - i + 1]]
    BY <2>3, <2>4
  <2> QED
    BY <2>1, <2>5
<1> QED
  BY <1>1, RingInvariance, PTL

=============================================================================
