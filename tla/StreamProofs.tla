---------------------------- MODULE StreamProofs ----------------------------
(***************************************************************************)
(* Proofs about the watchdog, the judgement of a stream and the copying of *)
(* its bytes, for every stall timeout, sampling floor, deadline, body and  *)
(* fragmentation.                                                          *)
(***************************************************************************)
EXTENDS Stream, SequenceTheorems, WellFoundedInduction, TLAPS

\* The times the watchdog works with are numbers.
Times == /\ clock \in Nat
         /\ last \in Nat
         /\ nextTick \in Nat
         /\ quiet \in Nat
         /\ stalled \in BOOLEAN

\* The watchdog lives while the handler copies or waits for it.
Places == /\ watchdog \in {"wait", "firing"} => reader \in {"read", "write", "stopping"}
          /\ watchdog = "off" => reader \in {"headers", "peek", "done"}
          /\ verdict # "none" => reader = "done"
          /\ reader \in {"headers", "peek"} => watchdog = "off"

\* A watchdog that waits samples in time, and knows of no longer silence than
\* there was.
Waiting == watchdog = "wait" =>
             /\ clock <= nextTick
             /\ nextTick <= clock + tick
             /\ last <= clock
             /\ nextTick - last < StallTimeout + tick
             /\ clock - last <= quiet

\* A watchdog that fires has seen a silence of the stall timeout.
Firing == watchdog = "firing" =>
            /\ last <= clock
            /\ clock - last < StallTimeout + tick
            /\ quiet >= StallTimeout

IInv == /\ Times
        /\ Places
        /\ Waiting
        /\ Firing
        /\ stalled => quiet >= StallTimeout
        /\ JustVerdict
        /\ VerdictStands

\* The sampling interval is positive.
LEMMA TickPositive == tick \in Nat /\ tick > 0
BY StreamAssumption DEF tick

\* The invariant holds at the start of an attempt.
LEMMA InitIInv == Init => IInv
<1> SUFFICES ASSUME Init PROVE IInv
  OBVIOUS
<1>1. Times /\ Places /\ Waiting /\ Firing
  BY DEF Init, Times, Places, Waiting, Firing
<1>2. ~stalled /\ verdict = "none"
  BY DEF Init
<1>3. JustVerdict /\ VerdictStands
  BY <1>2 DEF JustVerdict, VerdictStands
<1> QED
  BY <1>1, <1>2, <1>3 DEF IInv

\* The steps that give an attempt up before anything was streamed.
LEMMA GiveUpStep ==
  ASSUME IInv, reader \in {"headers", "peek"}, GiveUp
  PROVE  IInv'
BY DEF GiveUp, IInv, Times, Places, Waiting, Firing, JustVerdict, VerdictStands,
       peekVars, parseVars, timeVars

\* Every step preserves the invariant.
LEMMA NextIInv == IInv /\ [Next]_vars => IInv'
<1> SUFFICES ASSUME IInv, [Next]_vars PROVE IInv'
  OBVIOUS
<1> USE DEF IInv, JustVerdict, VerdictStands
<1>1. CASE Headers
  BY <1>1 DEF Headers, Times, Places, Waiting, Firing, parseVars, timeVars
<1>2. CASE UpstreamError \/ NoFirstByte \/ Aborted
  BY <1>2, GiveUpStep DEF UpstreamError, NoFirstByte, Aborted
<1>3. CASE FirstByte
  <2> USE <1>3, TickPositive, StreamAssumption DEF FirstByte, parseVars, Times, Places
  <2>1. Times' /\ Places'
    OBVIOUS
  <2>2. Waiting' /\ Firing'
    BY DEF Waiting, Firing
  <2>3. verdict' = verdict /\ stalled' = stalled /\ quiet' = quiet /\ stats' = stats
    OBVIOUS
  <2> QED
    BY <2>1, <2>2, <2>3
<1>4. ASSUME NEW b, BeginWrite(b), reader = "read" PROVE IInv'
  <2> USE <1>4, TickPositive, StreamAssumption DEF BeginWrite, Times, Places
  <2>1. Times' /\ Places'
    OBVIOUS
  <2>2. Waiting' /\ Firing'
    BY DEF Waiting, Firing
  <2>3. verdict' = verdict /\ stalled' = stalled /\ quiet' = quiet /\ stats' = stats
    OBVIOUS
  <2> QED
    BY <2>1, <2>2, <2>3
<1>5. CASE Replay \/ Read
  BY <1>4, <1>5 DEF Replay, Read
<1>6. CASE ReadEnds
  BY <1>6 DEF ReadEnds, Times, Places, Waiting, Firing, parseVars, timeVars
<1>7. CASE WriteReturns
  BY <1>7 DEF WriteReturns, Times, Places, Waiting, Firing, timeVars
<1>8. CASE Judge
  <2>1. Times' /\ Places' /\ Waiting' /\ Firing'
    BY <1>8 DEF Judge, Stopped, Times, Places, Waiting, Firing, parseVars, timeVars
  <2>2. stalled' = stalled /\ quiet' = quiet /\ stats' = stats
    BY <1>8 DEF Judge, parseVars, timeVars
  <2>3. verdict' = IF stalled \/ ~stats.done THEN "dead" ELSE "clean"
    BY <1>8 DEF Judge
  <2> QED
    BY <2>1, <2>2, <2>3
<1>9. CASE Sample
  <2> USE <1>9, TickPositive, StreamAssumption DEF Sample, Times, Places, Silent
  <2>1. Times' /\ Places'
    OBVIOUS
  <2>2. Waiting'
    BY DEF Waiting
  <2>3. Firing'
    BY DEF Waiting, Firing
  <2>4. verdict' = verdict /\ stalled' = stalled /\ quiet' = quiet /\ stats' = stats
    BY DEF parseVars
  <2> QED
    BY <2>1, <2>2, <2>3, <2>4
<1>10. CASE Fire
  BY <1>10 DEF Fire, Times, Places, Waiting, Firing, parseVars, timeVars
<1>11. CASE NoticeStop
  BY <1>11 DEF NoticeStop, Times, Places, Waiting, Firing, parseVars, timeVars
<1>12. CASE Cancel
  BY <1>12 DEF Cancel, Times, Places, Waiting, Firing, parseVars, timeVars
<1>13. CASE Tick
  <2> USE <1>13, TickPositive, StreamAssumption DEF Tick, Due, Times, Places
  <2>1. Times' /\ Places' /\ quiet' >= quiet
    BY DEF Waiting
  <2>2. Waiting' /\ Firing'
    BY DEF Waiting, Firing
  <2>3. verdict' = verdict /\ stalled' = stalled /\ stats' = stats
    BY DEF parseVars
  <2> QED
    BY <2>1, <2>2, <2>3
<1>14. CASE UNCHANGED vars
  BY <1>14 DEF vars, Times, Places, Waiting, Firing, parseVars, timeVars
<1> QED
  BY <1>1, <1>2, <1>3, <1>5, <1>6, <1>7, <1>8, <1>9, <1>10, <1>11, <1>12, <1>13, <1>14
  DEF Next, Handler, Watchdog, Replica, Client

\* The inductive invariant holds throughout every attempt.
THEOREM Invariance == Spec => []IInv
BY InitIInv, NextIInv, PTL DEF Spec

\* A stall is detected within the timeout and one sampling interval, for every
\* timeout and floor.
THEOREM StallDetectedSafe == Spec => []StallDetected
<1>1. IInv => StallDetected
  BY TickPositive, StreamAssumption DEF IInv, StallDetected, Waiting, Firing, Times
<1> QED
  BY <1>1, Invariance, PTL

\* A complete answer is called dead only after a silence of the stall timeout.
THEOREM JustVerdictSafe == Spec => []JustVerdict
<1>1. IInv => JustVerdict
  BY DEF IInv
<1> QED
  BY <1>1, Invariance, PTL

\* What the breaker was told of a stream is never overtaken by its watchdog.
THEOREM VerdictStandsSafe == Spec => []VerdictStands
<1>1. IInv => VerdictStands
  BY DEF IInv
<1> QED
  BY <1>1, Invariance, PTL

-----------------------------------------------------------------------------
(* The bytes that go to the client *)

\* Nothing is lost, doubled or reordered between the replica and the client:
\* what has been written, what is being written, the peeked byte and the rest
\* make up the body.  Only a Write holds a fragment, and before the first byte
\* nothing is peeked.
Copied == /\ {body, peeked, frag, written} \subseteq Seq(Symbol)
          /\ reader # "write" => frag = <<>>
          /\ reader \in {"headers", "peek"} => peeked = <<>>
          /\ written \o frag \o peeked \o body = whole

\* The first symbol and the rest make up a sequence.
LEMMA HeadAndTail ==
  ASSUME NEW s \in Seq(Symbol), s # <<>>
  PROVE  <<Head(s)>> \in Seq(Symbol) /\ Tail(s) \in Seq(Symbol) /\ <<Head(s)>> \o Tail(s) = s
<1>1. Len(s) \in Nat \ {0} /\ 1 \in 1 .. Len(s) /\ Len(s) \in 1 .. Len(s)
  BY EmptySeq
<1>2. SubSeq(s, 1, Len(s)) = <<s[1]>> \o SubSeq(s, 2, Len(s))
  BY <1>1, SubSeqRecursiveFirst
<1>3. SubSeq(s, 1, Len(s)) = s /\ SubSeq(s, 2, Len(s)) = Tail(s)
  BY SubSeqFull, TailIsSubSeq
<1>4. Head(s) = s[1] /\ Head(s) \in Symbol /\ Tail(s) \in Seq(Symbol)
  BY <1>1, HeadTailProperties
<1> QED
  BY <1>2, <1>3, <1>4

\* What one Read takes and what it leaves make up what was there.
LEMMA TakeAndLeave ==
  ASSUME NEW s \in Seq(Symbol), NEW n \in 1 .. Len(s)
  PROVE  /\ SubSeq(s, 1, n) \in Seq(Symbol) /\ SubSeq(s, n + 1, Len(s)) \in Seq(Symbol)
         /\ SubSeq(s, 1, n) \o SubSeq(s, n + 1, Len(s)) = s
<1>1. Len(s) \in Nat /\ n \in Nat /\ n + 1 \in Int /\ \A i \in 1 .. Len(s) : s[i] \in Symbol
  OBVIOUS
<1>2. SubSeq(s, 1, n) \in Seq(Symbol)
  BY <1>1, SubSeqProperties
<1>3. SubSeq(s, n + 1, Len(s)) \in Seq(Symbol)
  BY <1>1, SubSeqProperties
<1>4. SubSeq(s, 1, n) \o SubSeq(s, n + 1, Len(s)) = SubSeq(s, 1, Len(s))
  <2>1. 1 \in 1 .. Len(s) + 1 /\ n \in 1 - 1 .. Len(s) /\ Len(s) \in n .. Len(s)
    BY <1>1
  <2> QED
    BY <2>1, ConcatAdjacentSubSeq
<1> QED
  BY <1>2, <1>3, <1>4, SubSeqFull

\* Pieces may be joined in any grouping.
LEMMA Regroup == \A a, b, c \in Seq(Symbol) : (a \o b) \o c = a \o (b \o c)
BY ConcatAssociative

\* Every step of the handler, the watchdog, the replica and the client keeps
\* the copy whole.
LEMMA CopiedStep == Copied /\ [Next]_vars => Copied'
<1> SUFFICES ASSUME Copied, [Next]_vars PROVE Copied'
  OBVIOUS
<1>0. /\ body \in Seq(Symbol) /\ peeked \in Seq(Symbol) /\ frag \in Seq(Symbol) /\ written \in Seq(Symbol)
      /\ <<>> \in Seq(Symbol)
      /\ written \o frag \o peeked \o body = whole
  BY EmptySeq DEF Copied
<1>1. ASSUME UNCHANGED <<body, peeked, frag, written, whole>>,
             reader' = reader \/ (reader # "write" /\ reader' \notin {"headers", "peek"})
                              \/ (reader = "headers" /\ reader' = "peek")
      PROVE  Copied'
  BY <1>1 DEF Copied
<1>2. CASE Headers \/ UpstreamError \/ NoFirstByte \/ Aborted \/ ReadEnds \/ Judge
  BY <1>1, <1>2 DEF Headers, UpstreamError, NoFirstByte, Aborted, GiveUp, ReadEnds, Judge, peekVars, parseVars
<1>3. CASE Sample \/ Fire \/ NoticeStop \/ Cancel \/ Tick \/ UNCHANGED vars
  BY <1>1, <1>3 DEF Sample, Fire, NoticeStop, Cancel, Tick, vars, peekVars, parseVars
<1>4. CASE FirstByte
  <2>1. /\ body # <<>> /\ peeked' = <<Head(body)>> /\ body' = Tail(body)
        /\ frag' = frag /\ written' = written /\ whole' = whole /\ reader' = "read"
        /\ frag = <<>> /\ peeked = <<>>
    BY <1>4 DEF FirstByte, Copied, parseVars
  <2>2. peeked' \in Seq(Symbol) /\ body' \in Seq(Symbol) /\ peeked' \o body' = body
    BY <1>0, <2>1, HeadAndTail
  <2>3. written \o <<>> \in Seq(Symbol) /\ written \o <<>> \o <<>> = written \o <<>>
    BY <1>0, ConcatProperties, ConcatEmptySeq
  <2>4. written \o <<>> \o peeked' \o body' = written \o <<>> \o (peeked' \o body')
    BY <2>2, <2>3, Regroup, Zenon
  <2> QED
    BY <1>0, <2>1, <2>2, <2>3, <2>4 DEF Copied
<1>5. CASE Replay
  <2>1. /\ frag' = peeked /\ peeked' = <<>> /\ body' = body /\ written' = written /\ whole' = whole
        /\ frag = <<>> /\ reader' = "write"
    BY <1>5 DEF Replay, BeginWrite, Copied
  <2>2. written \o <<>> = written /\ written \o peeked \in Seq(Symbol)
    BY <1>0, ConcatProperties, ConcatEmptySeq
  <2>3. written \o peeked \o <<>> = written \o peeked
    BY <2>2, ConcatEmptySeq
  <2> QED
    BY <1>0, <2>1, <2>2, <2>3 DEF Copied
<1>6. CASE Read
  <2>1. PICK n \in 1 .. Len(body) : /\ BeginWrite(SubSeq(body, 1, n))
                                    /\ body' = SubSeq(body, n + 1, Len(body))
    BY <1>6 DEF Read
  <2>2. /\ frag' = SubSeq(body, 1, n) /\ written' = written /\ whole' = whole
        /\ peeked' = <<>> /\ peeked = <<>> /\ frag = <<>> /\ reader' = "write"
    BY <1>6, <2>1 DEF Read, BeginWrite, Copied
  <2>3. frag' \in Seq(Symbol) /\ body' \in Seq(Symbol) /\ frag' \o body' = body
    BY <1>0, <2>1, <2>2, TakeAndLeave
  <2>4. written \o <<>> = written /\ written \o frag' \in Seq(Symbol)
    BY <1>0, <2>3, ConcatProperties, ConcatEmptySeq
  <2>5. written \o frag' \o <<>> = written \o frag'
    BY <2>4, ConcatEmptySeq
  <2>6. written \o frag' \o body' = written \o (frag' \o body')
    <3>1. written \in Seq(Symbol) /\ frag' \in Seq(Symbol) /\ body' \in Seq(Symbol)
      BY <1>0, <2>3
    <3> QED
      BY <3>1, Regroup, Zenon
  <2> QED
    BY <1>0, <2>2, <2>3, <2>4, <2>5, <2>6 DEF Copied
<1>7. CASE WriteReturns
  <2>1. /\ written' = written \o frag /\ frag' = <<>> /\ body' = body /\ peeked' = peeked /\ whole' = whole
        /\ reader' \in {"read", "stopping"}
    BY <1>7 DEF WriteReturns, peekVars
  <2>2. written \o frag \in Seq(Symbol)
    BY <1>0, ConcatProperties
  <2>3. written \o frag \o <<>> = written \o frag
    BY <2>2, ConcatEmptySeq
  <2> QED
    BY <1>0, <2>1, <2>2, <2>3 DEF Copied
<1> QED
  BY <1>2, <1>3, <1>4, <1>5, <1>6, <1>7 DEF Next, Handler, Watchdog, Replica, Client

\* At the start the copy is whole.
LEMMA CopiedInit == Init => Copied
<1> SUFFICES ASSUME Init PROVE Copied
  OBVIOUS
<1>1. /\ whole \in Seq(Symbol) /\ body = whole /\ peeked = <<>> /\ frag = <<>> /\ written = <<>>
      /\ <<>> \in Seq(Symbol)
  BY StreamAssumption, EmptySeq DEF Init
<1>2. <<>> \o <<>> = <<>> /\ <<>> \o whole = whole
  BY <1>1, ConcatEmptySeq
<1> QED
  BY <1>1, <1>2 DEF Copied

\* What reaches the client is the body, byte for byte, for every body and every
\* way of tearing it apart, and up to the point where the copy stops.
THEOREM ByteIdenticalSafe == Spec => []ByteIdentical
<1>1. ASSUME Copied PROVE ByteIdentical
  <2> SUFFICES ASSUME reader # "write" PROVE written \o peeked \o body = whole
    BY DEF ByteIdentical
  <2>1. written \o <<>> = written
    BY <1>1, ConcatEmptySeq DEF Copied
  <2> QED
    BY <1>1, <2>1 DEF Copied
<1> QED
  BY <1>1, CopiedInit, CopiedStep, PTL DEF Spec

-----------------------------------------------------------------------------
(* Numbers *)

\* A set that has 0 and with every number the next has them all.
LEMMA NatAll ==
  ASSUME NEW P, 0 \in P, \A m \in Nat : m \in P => m + 1 \in P
  PROVE  Nat \subseteq P
<1> SUFFICES ASSUME NEW n \in Nat, n \notin P PROVE FALSE
  OBVIOUS
<1> DEFINE Bad == {m \in Nat : m \notin P}
<1>1. Bad \subseteq Nat /\ Bad # {}
  OBVIOUS
<1>2. PICK m \in Bad : \A k \in Bad : ~(k < m)
  <2> HIDE DEF Bad
  <2>1. PICK m \in Bad : \A k \in Bad : ~(<<k, m>> \in OpToRel(<, Nat))
    BY <1>1, NatLessThanWellFounded, WFMin
  <2> QED
    BY <1>1, <2>1 DEF OpToRel
<1>3. m # 0 /\ m - 1 \in Nat /\ m - 1 \notin Bad
  BY <1>2
<1>4. (m - 1) + 1 = m
  BY <1>3
<1> QED
  BY <1>2, <1>3, <1>4

\* The least of some numbers.
LEMMA MinOfNat ==
  ASSUME NEW S \in SUBSET Nat, S # {}
  PROVE  Min(S) \in S /\ \A y \in S : Min(S) <= y
<1>1. PICK m \in S : \A k \in S : ~(<<k, m>> \in OpToRel(<, Nat))
  BY NatLessThanWellFounded, WFMin
<1>2. S \subseteq Nat
  OBVIOUS
<1>3. \A k \in S : ~(k < m)
  BY <1>1, <1>2 DEF OpToRel
<1>4. \A k \in S : k \in Nat /\ m \in Nat
  BY <1>2
<1>5. \E x \in S : \A y \in S : x <= y
  BY <1>3, <1>4
<1> QED
  BY <1>5, Zenon DEF Min

\* The greatest of some numbers up to n.
LEMMA MaxOfNat ==
  ASSUME NEW n \in Nat, NEW S \in SUBSET (1 .. n), S # {}
  PROVE  Max(S) \in S /\ \A y \in S : Max(S) >= y
<1> DEFINE T == {n - y : y \in S}
<1>1. \A y \in S : y \in Nat /\ n - y \in Nat
  OBVIOUS
<1>2. T \in SUBSET Nat /\ T # {}
  BY <1>1
<1>3. PICK x \in S : Min(T) = n - x /\ \A t \in T : n - x <= t
  <2>1. Min(T) \in T /\ \A t \in T : Min(T) <= t
    <3> HIDE DEF T
    <3> QED
      BY <1>2, MinOfNat
  <2> QED
    BY <2>1
<1>4. \A y \in S : n - x <= n - y
  BY <1>3
<1>5. \A y \in S : x >= y
  BY <1>1, <1>4
<1>6. \E z \in S : \A y \in S : z >= y
  BY <1>5
<1> QED
  BY <1>6, Zenon DEF Max

-----------------------------------------------------------------------------
(* The loop of parseSSE *)

Statistics == [chunks : Nat, done : BOOLEAN]

\* Where events can end.
LEMMA CutsRange ==
  ASSUME NEW b \in Seq(Symbol)
  PROVE  /\ Cuts(b) \in SUBSET Nat
         /\ Cuts(b) # {} => /\ Min(Cuts(b)) \in Cuts(b) /\ Min(Cuts(b)) \in 1 .. Len(b) - 1
                            /\ \A i \in Cuts(b) : Min(Cuts(b)) <= i
<1>1. Cuts(b) \in SUBSET Nat /\ Cuts(b) \subseteq 1 .. Len(b) - 1
  BY DEF Cuts
<1> QED
  BY <1>1, MinOfNat

\* Processing an event keeps the statistics what they are.
LEMMA ProcessType ==
  ASSUME NEW st \in Statistics, NEW e
  PROVE  processEvent(st, e) \in Statistics
<1>1. st.chunks \in Nat /\ st.done \in BOOLEAN
  BY DEF Statistics
<1>2. (IF IsChunk(e) THEN 1 ELSE 0) \in Nat
  OBVIOUS
<1>3. st.chunks + (IF IsChunk(e) THEN 1 ELSE 0) \in Nat
  BY <1>1, <1>2
<1>4. (st.done \/ IsDone(e)) \in BOOLEAN
  OBVIOUS
<1> QED
  BY <1>3, <1>4 DEF processEvent, Statistics

\* A round of the loop leaves a shorter buffer.
LEMMA TakeEventShorter ==
  ASSUME NEW p \in Interceptor, Cuts(p.buf) # {}
  PROVE  TakeEvent(p) \in Interceptor /\ Len(TakeEvent(p).buf) < Len(p.buf)
<1> DEFINE b == p.buf
           idx == Min(Cuts(b))
           rest == SubSeq(b, idx + 2, Len(b))
           st == processEvent(p.stats, SubSeq(b, 1, idx - 1))
<1>1. b \in Seq(Symbol) /\ p.stats \in Statistics
  BY DEF Interceptor, Statistics
<1>2. idx \in 1 .. Len(b) - 1 /\ Len(b) \in Nat
  BY <1>1, CutsRange
<1>3. TakeEvent(p) = [buf |-> rest, stats |-> st]
  BY DEF TakeEvent
<1>4. st \in Statistics
  BY <1>1, ProcessType
<1> HIDE DEF b, idx, st
<1>5. rest \in Seq(Symbol) /\ Len(rest) < Len(b)
  <2>1. \A i \in idx + 2 .. Len(b) : b[i] \in Symbol
    BY <1>1, <1>2
  <2>2. rest \in Seq(Symbol)
    BY <1>1, <1>2, <2>1, SubSeqProperties
  <2>3. Len(rest) = IF idx + 2 <= Len(b) THEN Len(b) - (idx + 2) + 1 ELSE 0
    BY <1>1, <1>2, SubSeqProperties
  <2> QED
    BY <1>2, <2>2, <2>3
<1> HIDE DEF rest
<1> QED
  BY <1>3, <1>4, <1>5 DEF Interceptor, Statistics, b

Short(n) == {p \in Interceptor : Len(p.buf) <= n}

\* The equation of the loop, on buffers of limited length.
Loops(g, n) == g = [p \in Short(n) |-> IF Cuts(p.buf) = {} THEN p ELSE g[TakeEvent(p)]]

\* The lengths of buffers.
LEMMA BufferLength == \A p \in Interceptor : p.buf \in Seq(Symbol) /\ Len(p.buf) \in Nat
BY DEF Interceptor

\* An event takes at least its two newlines.
LEMMA NoCuts == \A p \in Interceptor : Len(p.buf) <= 0 => Cuts(p.buf) = {}
BY BufferLength DEF Cuts

\* The loop is defined on buffers of every limited length ...
LEMMA LoopsExist == \A n \in Nat : \E g : Loops(g, n)
<1> DEFINE P == {n \in Nat : \E g : Loops(g, n)}
<1>1. 0 \in P
  <2> DEFINE h == [p \in Short(0) |-> p]
  <2>1. \A p \in Short(0) : h[p] = IF Cuts(p.buf) = {} THEN p ELSE h[TakeEvent(p)]
    BY NoCuts DEF Short
  <2>2. h = [p \in Short(0) |-> h[p]]
    OBVIOUS
  <2> HIDE DEF h
  <2>3. h = [p \in Short(0) |-> IF Cuts(p.buf) = {} THEN p ELSE h[TakeEvent(p)]]
    BY <2>1, <2>2, Zenon
  <2>4. \E g : Loops(g, 0)
    BY <2>3 DEF Loops
  <2> QED
    BY <2>4
<1>2. ASSUME NEW m \in Nat, m \in P PROVE m + 1 \in P
  <2>1. PICK g : g = [p \in Short(m) |-> IF Cuts(p.buf) = {} THEN p ELSE g[TakeEvent(p)]]
    BY <1>2 DEF Loops
  <2> DEFINE h == [p \in Short(m + 1) |-> IF Cuts(p.buf) = {} THEN p ELSE g[TakeEvent(p)]]
  <2>2. \A q \in Short(m) : q \in Short(m + 1)
    BY BufferLength DEF Short
  <2>3. \A q \in Short(m) : h[q] = g[q]
    <3> TAKE q \in Short(m)
    <3>1. h[q] = IF Cuts(q.buf) = {} THEN q ELSE g[TakeEvent(q)]
      BY <2>2
    <3>2. g[q] = IF Cuts(q.buf) = {} THEN q ELSE g[TakeEvent(q)]
      BY <2>1
    <3> QED
      BY <3>1, <3>2
  <2>4. \A p \in Short(m + 1) : Cuts(p.buf) # {} => TakeEvent(p) \in Short(m)
    <3> SUFFICES ASSUME NEW p \in Short(m + 1), Cuts(p.buf) # {} PROVE TakeEvent(p) \in Short(m)
      OBVIOUS
    <3>1. p \in Interceptor /\ Len(p.buf) <= m + 1
      BY DEF Short
    <3>2. TakeEvent(p) \in Interceptor /\ Len(TakeEvent(p).buf) < Len(p.buf)
      BY <3>1, TakeEventShorter
    <3>3. Len(p.buf) \in Nat /\ Len(TakeEvent(p).buf) \in Nat
      BY <3>1, <3>2, BufferLength
    <3>4. Len(TakeEvent(p).buf) <= m
      BY <3>1, <3>2, <3>3
    <3> QED
      BY <3>2, <3>4 DEF Short
  <2>5. \A p \in Short(m + 1) : h[p] = IF Cuts(p.buf) = {} THEN p ELSE h[TakeEvent(p)]
    <3> TAKE p \in Short(m + 1)
    <3>1. h[p] = IF Cuts(p.buf) = {} THEN p ELSE g[TakeEvent(p)]
      OBVIOUS
    <3>2. Cuts(p.buf) # {} => h[TakeEvent(p)] = g[TakeEvent(p)]
      BY <2>3, <2>4
    <3> HIDE DEF h
    <3> QED
      BY <3>1, <3>2
  <2>6. h = [p \in Short(m + 1) |-> h[p]]
    OBVIOUS
  <2> HIDE DEF h
  <2>7. h = [p \in Short(m + 1) |-> IF Cuts(p.buf) = {} THEN p ELSE h[TakeEvent(p)]]
    BY <2>5, <2>6, Zenon
  <2> QED
    BY <2>7 DEF Loops
<1> HIDE DEF P
<1>3. Nat \subseteq P
  BY <1>1, <1>2, NatAll
<1> QED
  BY <1>3 DEF P

\* ... where it has one value only, whatever the limit ...
LEMMA LoopsAgree ==
  ASSUME NEW g, NEW n \in Nat, Loops(g, n), NEW h, NEW m \in Nat, Loops(h, m),
         NEW p \in Short(n), p \in Short(m)
  PROVE  g[p] = h[p]
<1> DEFINE P == {k \in Nat : \A q \in Interceptor : Len(q.buf) <= k /\ q \in Short(n) /\ q \in Short(m) => g[q] = h[q]}
<1>1. \A q \in Short(n) : g[q] = IF Cuts(q.buf) = {} THEN q ELSE g[TakeEvent(q)]
  BY DEF Loops
<1>2. \A q \in Short(m) : h[q] = IF Cuts(q.buf) = {} THEN q ELSE h[TakeEvent(q)]
  BY DEF Loops
<1>3. 0 \in P
  BY <1>1, <1>2, NoCuts
<1>4. ASSUME NEW k \in Nat, k \in P PROVE k + 1 \in P
  <2> SUFFICES ASSUME NEW q \in Interceptor, Len(q.buf) <= k + 1, q \in Short(n), q \in Short(m)
               PROVE  g[q] = h[q]
    OBVIOUS
  <2>1. CASE Cuts(q.buf) = {}
    BY <1>1, <1>2, <2>1
  <2>2. CASE Cuts(q.buf) # {}
    <3> DEFINE r == TakeEvent(q)
    <3>1. r \in Interceptor /\ Len(r.buf) < Len(q.buf)
      BY <2>2, TakeEventShorter
    <3> HIDE DEF r
    <3>2. Len(r.buf) \in Nat /\ Len(q.buf) \in Nat /\ Len(q.buf) <= n /\ Len(q.buf) <= m
      BY <3>1, BufferLength DEF Short
    <3>3. Len(r.buf) <= k /\ r \in Short(n) /\ r \in Short(m)
      BY <3>1, <3>2 DEF Short
    <3>4. g[r] = h[r]
      BY <1>4, <3>1, <3>3
    <3> QED
      BY <1>1, <1>2, <2>2, <3>4 DEF r
  <2> QED
    BY <2>1, <2>2
<1>5. Nat \subseteq P
  <2> HIDE DEF P
  <2> QED
    BY <1>3, <1>4, NatAll
<1>6. p \in Interceptor /\ Len(p.buf) \in Nat /\ Len(p.buf) <= Len(p.buf)
  BY BufferLength DEF Short
<1>7. Len(p.buf) \in P
  BY <1>5, <1>6
<1> QED
  BY <1>6, <1>7

\* ... and so on all of them.
LEMMA LoopExists ==
  \E g : g = [p \in Interceptor |-> IF Cuts(p.buf) = {} THEN p ELSE g[TakeEvent(p)]]
<1> DEFINE G(n) == CHOOSE g : Loops(g, n)
           h == [p \in Interceptor |-> G(Len(p.buf))[p]]
<1>1. \A n \in Nat : Loops(G(n), n)
  BY LoopsExist, Zenon
<1> HIDE DEF G
<1>2. \A p \in Interceptor : Len(p.buf) \in Nat /\ p \in Short(Len(p.buf))
  BY BufferLength DEF Short
<1>3. \A p \in Interceptor : h[p] = IF Cuts(p.buf) = {} THEN p ELSE h[TakeEvent(p)]
  <2> TAKE p \in Interceptor
  <2> DEFINE n == Len(p.buf)
  <2>1. n \in Nat /\ p \in Short(n) /\ Loops(G(n), n)
    BY <1>1, <1>2
  <2>2. G(n)[p] = IF Cuts(p.buf) = {} THEN p ELSE G(n)[TakeEvent(p)]
    BY <2>1 DEF Loops
  <2>3. h[p] = G(n)[p]
    OBVIOUS
  <2>4. ASSUME Cuts(p.buf) # {} PROVE h[TakeEvent(p)] = G(n)[TakeEvent(p)]
    <3> DEFINE q == TakeEvent(p)
               m == Len(q.buf)
    <3>1. q \in Interceptor /\ m < n
      BY <2>4, TakeEventShorter
    <3> HIDE DEF q
    <3>2. m \in Nat /\ q \in Short(m) /\ Loops(G(m), m)
      BY <1>1, <1>2, <3>1
    <3>3. q \in Short(n)
      BY <2>1, <3>1, <3>2 DEF Short
    <3>4. h[q] = G(m)[q]
      BY <3>1
    <3> HIDE DEF m, n, h
    <3>5. G(m)[q] = G(n)[q]
      BY <2>1, <3>2, <3>3, LoopsAgree
    <3> QED
      BY <3>4, <3>5 DEF q
  <2> HIDE DEF h
  <2> QED
    BY <2>2, <2>3, <2>4
<1>4. h = [p \in Interceptor |-> h[p]]
  OBVIOUS
<1> HIDE DEF h
<1>5. h = [p \in Interceptor |-> IF Cuts(p.buf) = {} THEN p ELSE h[TakeEvent(p)]]
  BY <1>3, <1>4, Zenon
<1> QED
  BY <1>5

\* parseSSE on an interceptor.
Parsed(p) == parseSSE(p.buf, p.stats)

\* What the loop does with its first event.
LEMMA ParsedUnfold ==
  ASSUME NEW p \in Interceptor
  PROVE  Parsed(p) = IF Cuts(p.buf) = {} THEN p ELSE Parsed(TakeEvent(p))
<1> DEFINE L == CHOOSE g : g = [q \in Interceptor |-> IF Cuts(q.buf) = {} THEN q ELSE g[TakeEvent(q)]]
<1>1. L = [q \in Interceptor |-> IF Cuts(q.buf) = {} THEN q ELSE L[TakeEvent(q)]]
  BY LoopExists, Zenon
<1>2. \A b, st : parseSSE(b, st) = L[[buf |-> b, stats |-> st]]
  BY Zenon DEF parseSSE
<1> HIDE DEF L
<1>3. \A q \in Interceptor : q = [buf |-> q.buf, stats |-> q.stats]
  BY DEF Interceptor
<1>4. \A q \in Interceptor : Parsed(q) = L[q]
  <2> TAKE q \in Interceptor
  <2>1. Parsed(q) = L[[buf |-> q.buf, stats |-> q.stats]]
    BY <1>2, Zenon DEF Parsed
  <2> QED
    BY <1>3, <2>1
<1>5. L[p] = IF Cuts(p.buf) = {} THEN p ELSE L[TakeEvent(p)]
  BY <1>1
<1>6. Cuts(p.buf) # {} => TakeEvent(p) \in Interceptor
  BY TakeEventShorter
<1> QED
  BY <1>4, <1>5, <1>6

\* Induction over the rounds of the loop.
LEMMA ParseInduction ==
  ASSUME NEW Q, \A q \in Interceptor : Cuts(q.buf) = {} => q \in Q,
         \A q \in Interceptor : Cuts(q.buf) # {} /\ TakeEvent(q) \in Q => q \in Q
  PROVE  Interceptor \subseteq Q
<1> DEFINE P == {k \in Nat : \A q \in Interceptor : Len(q.buf) <= k => q \in Q}
<1>1. 0 \in P
  BY NoCuts
<1>2. ASSUME NEW k \in Nat, k \in P PROVE k + 1 \in P
  <2>1. ASSUME NEW q \in Interceptor, Len(q.buf) <= k + 1 PROVE q \in Q
    <3>1. CASE Cuts(q.buf) = {}
      BY <3>1
    <3>2. CASE Cuts(q.buf) # {}
      <4> DEFINE r == TakeEvent(q)
      <4>1. r \in Interceptor /\ Len(r.buf) < Len(q.buf)
        BY <3>2, TakeEventShorter
      <4> HIDE DEF r
      <4>2. Len(r.buf) <= k
        BY <2>1, <4>1, BufferLength
      <4>3. r \in Q
        BY <1>2, <4>1, <4>2
      <4> QED
        BY <3>2, <4>3 DEF r
    <3> QED
      BY <3>1, <3>2
  <2> QED
    BY <2>1
<1>3. Nat \subseteq P
  <2> HIDE DEF P
  <2> QED
    BY <1>1, <1>2, NatAll
<1>4. \A q \in Interceptor : Len(q.buf) \in P /\ Len(q.buf) <= Len(q.buf)
  BY <1>3, BufferLength
<1> QED
  BY <1>4

\* The loop ends with a buffer that has no event.
LEMMA ParsedType == \A p \in Interceptor : Parsed(p) \in Interceptor /\ Cuts(Parsed(p).buf) = {}
<1> DEFINE Q == {q \in Interceptor : Parsed(q) \in Interceptor /\ Cuts(Parsed(q).buf) = {}}
<1>1. \A q \in Interceptor : Cuts(q.buf) = {} => q \in Q
  BY ParsedUnfold
<1>2. \A q \in Interceptor : Cuts(q.buf) # {} /\ TakeEvent(q) \in Q => q \in Q
  BY ParsedUnfold
<1>3. Interceptor \subseteq Q
  <2> HIDE DEF Q
  <2> QED
    BY <1>1, <1>2, ParseInduction
<1> QED
  BY <1>3

\* More bytes at the end of a buffer.
Fed(p, c) == [buf |-> p.buf \o c, stats |-> p.stats]

\* What is left of a buffer after the event that ends before i.
LEMMA RestOf ==
  ASSUME NEW s \in Seq(Symbol), NEW i \in 1 .. Len(s) - 1
  PROVE  /\ SubSeq(s, i + 2, Len(s)) \in Seq(Symbol)
         /\ Len(SubSeq(s, i + 2, Len(s))) = Len(s) - (i + 1)
         /\ \A k \in 1 .. Len(SubSeq(s, i + 2, Len(s))) : SubSeq(s, i + 2, Len(s))[k] = s[i + 1 + k]
<1>1. Len(s) \in Nat /\ i + 2 \in Int /\ \A k \in i + 2 .. Len(s) : s[k] \in Symbol
  OBVIOUS
<1> DEFINE t == SubSeq(s, i + 2, Len(s))
<1>2. /\ t \in Seq(Symbol)
      /\ Len(t) = IF i + 2 <= Len(s) THEN Len(s) - (i + 2) + 1 ELSE 0
      /\ \A k \in 1 .. Len(s) - (i + 2) + 1 : t[k] = s[i + 2 + k - 1]
  BY <1>1, SubSeqProperties
<1> HIDE DEF t
<1>3. Len(t) = Len(s) - (i + 1) /\ Len(s) - (i + 2) + 1 = Len(t)
  BY <1>1, <1>2
<1>4. \A k \in 1 .. Len(t) : i + 2 + k - 1 = i + 1 + k
  BY <1>1, <1>3
<1>5. \A k \in 1 .. Len(t) : t[k] = s[i + 1 + k]
  BY <1>2, <1>3, <1>4
<1> QED
  BY <1>2, <1>3, <1>5 DEF t

\* Bytes that are appended do not change the first event.
LEMMA TakeEventFed ==
  ASSUME NEW p \in Interceptor, Cuts(p.buf) # {}, NEW c \in Seq(Symbol)
  PROVE  Cuts(p.buf \o c) # {} /\ TakeEvent(Fed(p, c)) = Fed(TakeEvent(p), c)
<1> DEFINE b == p.buf
           d == b \o c
           i == Min(Cuts(b))
<1>1. b \in Seq(Symbol) /\ d \in Seq(Symbol) /\ Len(b) \in Nat /\ Len(c) \in Nat /\ Len(d) = Len(b) + Len(c)
  BY BufferLength
<1>2. \A k \in 1 .. Len(b) : d[k] = b[k]
  BY <1>1
<1>3. i \in Cuts(b) /\ i \in 1 .. Len(b) - 1 /\ \A k \in Cuts(b) : i <= k
  BY <1>1, CutsRange
<1> DEFINE x == SubSeq(b, 1, i - 1)
           y == SubSeq(d, 1, i - 1)
           v == SubSeq(b, i + 2, Len(b))
           w == SubSeq(d, i + 2, Len(d))
<1>4. TakeEvent(p) = [buf |-> v, stats |-> processEvent(p.stats, x)]
  BY DEF TakeEvent
<1>5. TakeEvent(Fed(p, c)) =
        [buf |-> SubSeq(d, Min(Cuts(d)) + 2, Len(d)), stats |-> processEvent(p.stats, SubSeq(d, 1, Min(Cuts(d)) - 1))]
  BY DEF TakeEvent, Fed
<1> HIDE DEF b, d, i
<1>6. \A k \in 1 .. Len(b) - 1 : k \in Cuts(d) <=> k \in Cuts(b)
  <2> TAKE k \in 1 .. Len(b) - 1
  <2>1. k \in 1 .. Len(b) /\ k + 1 \in 1 .. Len(b) /\ k \in 1 .. Len(d) - 1
    BY <1>1
  <2>2. d[k] = b[k] /\ d[k + 1] = b[k + 1]
    BY <1>2, <2>1
  <2> QED
    BY <2>1, <2>2 DEF Cuts
<1>7. i \in Cuts(d)
  BY <1>3, <1>6
<1>8. Min(Cuts(d)) = i
  <2> DEFINE j == Min(Cuts(d))
  <2>1. j \in Cuts(d) /\ j \in 1 .. Len(d) - 1 /\ j <= i
    BY <1>1, <1>7, CutsRange
  <2> HIDE DEF j
  <2>2. j \in 1 .. Len(b) - 1
    BY <1>1, <1>3, <2>1
  <2>3. i <= j
    BY <1>3, <1>6, <2>1, <2>2
  <2>4. j = i
    BY <1>3, <2>1, <2>2, <2>3
  <2> QED
    BY <2>4 DEF j
<1>9. y = x
  <2>1. x = [k \in 1 .. i - 1 |-> b[k]] /\ y = [k \in 1 .. i - 1 |-> d[k]]
    BY <1>1, <1>3
  <2>2. \A k \in 1 .. i - 1 : d[k] = b[k]
    BY <1>1, <1>2, <1>3
  <2> QED
    BY <2>1, <2>2
<1>10. w = v \o c
  <2>1. v \in Seq(Symbol) /\ Len(v) = Len(b) - (i + 1) /\ \A k \in 1 .. Len(v) : v[k] = b[i + 1 + k]
    BY <1>1, <1>3, RestOf
  <2>2. w \in Seq(Symbol) /\ Len(w) = Len(d) - (i + 1) /\ \A k \in 1 .. Len(w) : w[k] = d[i + 1 + k]
    <3>1. i \in 1 .. Len(d) - 1
      BY <1>1, <1>3
    <3> QED
      BY <1>1, <3>1, RestOf
  <2> HIDE DEF v, w
  <2>3. Len(w) = Len(v) + Len(c) /\ v \o c \in Seq(Symbol) /\ Len(v \o c) = Len(w) /\ Len(v) \in Nat /\ Len(w) \in Nat
    <3>1. v \o c \in Seq(Symbol) /\ Len(v \o c) = Len(v) + Len(c)
      BY <2>1, ConcatProperties
    <3>2. Len(v) \in Nat /\ Len(w) \in Nat
      BY <2>1, <2>2
    <3> QED
      BY <1>1, <1>3, <2>1, <2>2, <3>1, <3>2
  <2>4. \A k \in 1 .. Len(w) : w[k] = (v \o c)[k]
    <3> SUFFICES ASSUME NEW k \in 1 .. Len(w) PROVE w[k] = (v \o c)[k]
      OBVIOUS
    <3>1. (v \o c)[k] = IF k <= Len(v) THEN v[k] ELSE c[k - Len(v)]
      BY <2>1, <2>3
    <3>2. d[i + 1 + k] = IF i + 1 + k <= Len(b) THEN b[i + 1 + k] ELSE c[i + 1 + k - Len(b)]
      BY <1>1, <1>3, <2>2 DEF d
    <3>3. k <= Len(v) <=> i + 1 + k <= Len(b)
      BY <1>1, <1>3, <2>1
    <3>4. i + 1 + k - Len(b) = k - Len(v)
      BY <1>1, <1>3, <2>1
    <3>5. k <= Len(v) => v[k] = b[i + 1 + k]
      BY <2>1, <2>3
    <3> QED
      BY <2>2, <3>1, <3>2, <3>3, <3>4, <3>5
  <2>5. w \in Seq(Symbol) /\ v \o c \in Seq(Symbol) /\ Len(w) = Len(v \o c)
    BY <2>2, <2>3
  <2> QED
    BY <2>4, <2>5, SeqEqual
<1> HIDE DEF x, y, v, w
<1>11. TakeEvent(Fed(p, c)) = [buf |-> w, stats |-> processEvent(p.stats, y)]
  BY <1>5, <1>8 DEF w, y
<1>12. Fed(TakeEvent(p), c) = [buf |-> v \o c, stats |-> processEvent(p.stats, x)]
  BY <1>4 DEF Fed
<1> QED
  BY <1>7, <1>9, <1>10, <1>11, <1>12 DEF d, b

\* An interceptor with more bytes is one.
LEMMA FedType ==
  ASSUME NEW p \in Interceptor, NEW c \in Seq(Symbol)
  PROVE  Fed(p, c) \in Interceptor
<1>1. p.buf \in Seq(Symbol) /\ p.stats \in Statistics
  BY DEF Interceptor, Statistics
<1>2. p.buf \o c \in Seq(Symbol)
  BY <1>1, ConcatProperties
<1> QED
  BY <1>1, <1>2 DEF Fed, Interceptor, Statistics

\* Parsing may stop anywhere and go on later with what is left.
LEMMA ParseInParts ==
  ASSUME NEW c \in Seq(Symbol)
  PROVE  \A p \in Interceptor : Parsed(Fed(p, c)) = Parsed(Fed(Parsed(p), c))
<1> DEFINE Q == {q \in Interceptor : Parsed(Fed(q, c)) = Parsed(Fed(Parsed(q), c))}
<1>1. \A q \in Interceptor : Cuts(q.buf) = {} => q \in Q
  BY ParsedUnfold
<1>2. ASSUME NEW q \in Interceptor, Cuts(q.buf) # {}, TakeEvent(q) \in Q PROVE q \in Q
  <2> DEFINE r == TakeEvent(q)
  <2>1. r \in Interceptor /\ Parsed(q) = Parsed(r)
    BY <1>2, TakeEventShorter, ParsedUnfold
  <2>2. Fed(q, c) \in Interceptor
    BY FedType
  <2>3. Cuts(Fed(q, c).buf) # {} /\ TakeEvent(Fed(q, c)) = Fed(r, c)
    BY <1>2, TakeEventFed DEF Fed
  <2>4. Parsed(Fed(q, c)) = Parsed(Fed(r, c))
    BY <2>2, <2>3, ParsedUnfold
  <2>5. Parsed(Fed(r, c)) = Parsed(Fed(Parsed(r), c))
    BY <1>2
  <2> HIDE DEF r
  <2> QED
    BY <2>1, <2>4, <2>5
<1>3. Interceptor \subseteq Q
  <2> HIDE DEF Q
  <2> QED
    BY <1>1, <1>2, ParseInduction
<1> QED
  BY <1>3

-----------------------------------------------------------------------------
(* The parser and a reader of the whole text *)

\* The newline that ends a line is not part of its text.
LEMMA TrimNewline ==
  ASSUME NEW y \in Seq(Symbol)
  PROVE  TrimSpace(Append(y, "nl")) = TrimSpace(y)
<1> DEFINE z == Append(y, "nl")
           n == Len(y)
           ink == {i \in DOMAIN y : y[i] # "nl"}
           inkz == {i \in DOMAIN z : z[i] # "nl"}
<1>1. n \in Nat /\ DOMAIN y = 1 .. n /\ DOMAIN z = 1 .. n + 1
  OBVIOUS
<1>2. z[n + 1] = "nl" /\ \A i \in 1 .. n : z[i] = y[i]
  OBVIOUS
<1>3. TrimSpace(y) = IF ink = {} THEN <<>> ELSE SubSeq(y, Min(ink), Max(ink))
  BY DEF TrimSpace
<1>4. TrimSpace(z) = IF inkz = {} THEN <<>> ELSE SubSeq(z, Min(inkz), Max(inkz))
  BY DEF TrimSpace
<1> HIDE DEF z, n
<1>5. inkz = ink
  <2>1. \A i \in 1 .. n + 1 : i = n + 1 \/ i \in 1 .. n
    BY <1>1
  <2>2. \A i \in 1 .. n : i \in 1 .. n + 1
    BY <1>1
  <2> QED
    BY <1>1, <1>2, <2>1, <2>2
<1>6. ink \in SUBSET (1 .. n)
  BY <1>1
<1> HIDE DEF ink, inkz
<1>7. CASE ink = {}
  BY <1>3, <1>4, <1>5, <1>7 DEF z
<1>8. CASE ink # {}
  <2> DEFINE a == Min(ink)
             b == Max(ink)
  <2>1. ink \in SUBSET Nat
    BY <1>1, <1>6
  <2>2. a \in ink /\ b \in ink
    BY <1>1, <1>6, <1>8, <2>1, MinOfNat, MaxOfNat
  <2> HIDE DEF a, b
  <2>3. a \in 1 .. n /\ b \in 1 .. n
    BY <1>6, <2>2
  <2>4. \A i \in 1 .. (b - a) + 1 : a + i - 1 \in 1 .. n
    BY <1>1, <2>3
  <2>5. SubSeq(z, a, b) = [i \in 1 .. (b - a) + 1 |-> z[a + i - 1]]
    BY <1>1, <2>3
  <2>6. SubSeq(y, a, b) = [i \in 1 .. (b - a) + 1 |-> y[a + i - 1]]
    BY <1>1, <2>3
  <2>7. \A i \in 1 .. (b - a) + 1 : z[a + i - 1] = y[a + i - 1]
    BY <1>2, <2>4
  <2>8. SubSeq(z, a, b) = SubSeq(y, a, b)
    BY <2>5, <2>6, <2>7
  <2> QED
    BY <1>3, <1>4, <1>5, <1>8, <2>8 DEF a, b, z
<1> QED
  BY <1>7, <1>8

\* One more symbol ends an event, or it does not.
LEMMA ParseSymbol ==
  ASSUME NEW p \in Interceptor, Cuts(p.buf) = {}, NEW x \in Symbol,
         NEW f, f = Feed([event |-> p.buf, stats |-> p.stats], x)
  PROVE  Parsed(Fed(p, <<x>>)) = [buf |-> f.event, stats |-> f.stats]
<1> DEFINE b == p.buf
           st == p.stats
           n == Len(b)
           d == b \o <<x>>
           q == Fed(p, <<x>>)
           ends == x = "nl" /\ b # <<>> /\ b[n] = "nl"
<1>1. b \in Seq(Symbol) /\ n \in Nat /\ st \in Statistics
  BY DEF Interceptor, Statistics
<1>2. <<x>> \in Seq(Symbol) /\ q \in Interceptor /\ q = [buf |-> d, stats |-> st]
  <2>1. <<x>> \in Seq(Symbol)
    OBVIOUS
  <2> QED
    BY <2>1, FedType DEF Fed
<1>3. f = IF ends THEN [event |-> <<>>, stats |-> processEvent(st, b)]
          ELSE [event |-> Append(b, x), stats |-> st]
  BY DEF Feed
<1> HIDE DEF b, st, q, n
<1>4. d \in Seq(Symbol) /\ Len(d) = n + 1 /\ d[n + 1] = x /\ \A k \in 1 .. n : d[k] = b[k]
  BY <1>1, <1>2 DEF n
<1>5. d = Append(b, x)
  BY <1>1
<1> HIDE DEF d
<1>6. \A k \in Cuts(d) : k = n /\ n # 0 /\ b[n] = "nl" /\ x = "nl"
  <2> SUFFICES ASSUME NEW k \in Cuts(d) PROVE k = n /\ n # 0 /\ b[n] = "nl" /\ x = "nl"
    OBVIOUS
  <2>1. k \in 1 .. n /\ d[k] = "nl" /\ d[k + 1] = "nl"
    BY <1>1, <1>4 DEF Cuts
  <2>2. k = n
    <3> SUFFICES ASSUME k # n PROVE FALSE
      OBVIOUS
    <3>1. k \in 1 .. n - 1 /\ k + 1 \in 1 .. n
      BY <1>1, <2>1
    <3>2. b[k] = "nl" /\ b[k + 1] = "nl"
      BY <1>4, <2>1, <3>1
    <3>3. k \in Cuts(b)
      BY <3>1, <3>2 DEF Cuts, n
    <3> QED
      BY <3>3 DEF b
  <2> QED
    BY <1>1, <1>4, <2>1, <2>2
<1>7. CASE ~ends
  <2>1. Cuts(d) = {}
    <3> SUFFICES ASSUME Cuts(d) # {} PROVE FALSE
      OBVIOUS
    <3>1. n # 0 /\ b[n] = "nl" /\ x = "nl"
      BY <1>6
    <3>2. b # <<>>
      BY <3>1 DEF n
    <3> QED
      BY <1>7, <3>1, <3>2
  <2>2. Parsed(q) = q
    BY <1>2, <2>1, ParsedUnfold
  <2>3. f = [event |-> d, stats |-> st]
    BY <1>3, <1>5, <1>7
  <2>4. f.event = d /\ f.stats = st
    BY <2>3
  <2>5. Parsed(q) = [buf |-> d, stats |-> st]
    BY <1>2, <2>2
  <2> QED
    BY <2>4, <2>5, Zenon DEF q
<1>8. CASE ends
  <2>1. n # 0
    BY <1>1, <1>8, EmptySeq DEF n
  <2>2. n \in Cuts(d)
    <3>1. n \in 1 .. Len(d) - 1 /\ n \in 1 .. n
      BY <1>1, <1>4, <2>1
    <3>2. d[n] = "nl" /\ d[n + 1] = "nl"
      BY <1>4, <1>8, <3>1
    <3> QED
      BY <3>1, <3>2 DEF Cuts
  <2>3. Min(Cuts(d)) = n
    <3>1. Min(Cuts(d)) \in Cuts(d)
      BY <1>4, <2>2, CutsRange
    <3> QED
      BY <1>6, <3>1
  <2> DEFINE y == SubSeq(d, 1, n - 1)
  <2>4. SubSeq(d, n + 2, Len(d)) = <<>>
    BY <1>1, <1>4, SubSeqEmpty
  <2>5. TakeEvent(q) = [buf |-> <<>>, stats |-> processEvent(st, y)]
    BY <1>2, <2>3, <2>4 DEF TakeEvent
  <2>6. y \in Seq(Symbol) /\ Append(y, "nl") = b
    <3>1. \A k \in 1 .. n - 1 : d[k] = b[k] /\ d[k] \in Symbol
      BY <1>1, <1>4
    <3>2. y \in Seq(Symbol) /\ Len(y) = n - 1 /\ \A k \in 1 .. n - 1 : y[k] = d[k]
      <4>1. n - 1 \in Int /\ 1 \in Int /\ (n - 1) - 1 + 1 = n - 1
        BY <1>1
      <4>2. /\ y \in Seq(Symbol)
            /\ Len(y) = IF 1 <= n - 1 THEN (n - 1) - 1 + 1 ELSE 0
            /\ \A k \in 1 .. (n - 1) - 1 + 1 : y[k] = d[1 + k - 1]
        BY <3>1, <4>1, SubSeqProperties
      <4> HIDE DEF y
      <4>3. \A k \in 1 .. n - 1 : 1 + k - 1 = k
        OBVIOUS
      <4>4. Len(y) = n - 1
        BY <1>1, <2>1, <4>2
      <4> QED
        BY <4>1, <4>2, <4>3, <4>4
    <3> HIDE DEF y
    <3> DEFINE z == Append(y, "nl")
    <3>3. z \in Seq(Symbol) /\ Len(z) = n /\ z[n] = "nl" /\ \A k \in 1 .. n - 1 : z[k] = y[k]
      <4>1. "nl" \in Symbol
        BY DEF Symbol
      <4>2. z \in Seq(Symbol) /\ Len(z) = Len(y) + 1 /\ z[Len(y) + 1] = "nl" /\ \A k \in 1 .. Len(y) : z[k] = y[k]
        BY <3>2, <4>1, AppendProperties
      <4>3. Len(y) + 1 = n
        BY <1>1, <2>1, <3>2
      <4> QED
        BY <3>2, <4>2, <4>3
    <3> HIDE DEF z
    <3>4. \A k \in 1 .. n : k = n \/ k \in 1 .. n - 1
      BY <1>1
    <3>5. \A k \in 1 .. Len(z) : z[k] = b[k]
      BY <1>8, <3>1, <3>2, <3>3, <3>4
    <3>6. z = b
      BY <1>1, <3>3, <3>5, SeqEqual DEF n
    <3> QED
      BY <3>2, <3>6 DEF z
  <2> HIDE DEF y
  <2>7. TrimSpace(b) = TrimSpace(y)
    BY <2>6, TrimNewline
  <2>8. processEvent(st, y) = processEvent(st, b)
    BY <2>7 DEF processEvent, IsChunk, IsDone
  <2> DEFINE r == TakeEvent(q)
  <2>9. Cuts(q.buf) # {} /\ r \in Interceptor
    BY <1>2, <2>2, TakeEventShorter
  <2>10. Cuts(r.buf) = {}
    BY <2>5, <2>9, NoCuts
  <2>11. Parsed(q) = Parsed(r)
    BY <1>2, <2>9, ParsedUnfold
  <2>12. Parsed(r) = r
    BY <2>9, <2>10, ParsedUnfold
  <2> QED
    BY <1>3, <1>8, <2>5, <2>8, <2>11, <2>12 DEF q
<1> QED
  BY <1>7, <1>8

\* The reader of the first symbols of a text.
Reads(a, w, n) == a = [k \in 0 .. n |-> IF k = 0 THEN [event |-> <<>>, stats |-> Nothing] ELSE Feed(a[k - 1], w[k])]

\* There is one for every number of symbols.
LEMMA ReadsExist ==
  ASSUME NEW w
  PROVE  \A n \in Nat : \E a : Reads(a, w, n)
<1> DEFINE start == [event |-> <<>>, stats |-> Nothing]
           P == {n \in Nat : \E a : Reads(a, w, n)}
<1> HIDE DEF start
<1>0. \A a, n : Reads(a, w, n) <=> a = [k \in 0 .. n |-> IF k = 0 THEN start ELSE Feed(a[k - 1], w[k])]
  BY Zenon DEF Reads, start
<1>1. 0 \in P
  <2> DEFINE h == [k \in 0 .. 0 |-> start]
  <2>1. \A k \in 0 .. 0 : h[k] = IF k = 0 THEN start ELSE Feed(h[k - 1], w[k])
    OBVIOUS
  <2>2. h = [k \in 0 .. 0 |-> h[k]]
    OBVIOUS
  <2> HIDE DEF h
  <2>3. h = [k \in 0 .. 0 |-> IF k = 0 THEN start ELSE Feed(h[k - 1], w[k])]
    BY <2>1, <2>2, Zenon
  <2>4. \E a : Reads(a, w, 0)
    BY <1>0, <2>3, Zenon
  <2> QED
    BY <2>4
<1>2. ASSUME NEW m \in Nat, m \in P PROVE m + 1 \in P
  <2>1. PICK g : g = [k \in 0 .. m |-> IF k = 0 THEN start ELSE Feed(g[k - 1], w[k])]
    BY <1>0, <1>2, Zenon
  <2> DEFINE h == [k \in 0 .. m + 1 |-> IF k = 0 THEN start ELSE Feed(g[k - 1], w[k])]
  <2>2. \A k \in 0 .. m : h[k] = g[k]
    <3> TAKE k \in 0 .. m
    <3>1. k \in 0 .. m + 1
      OBVIOUS
    <3>2. h[k] = IF k = 0 THEN start ELSE Feed(g[k - 1], w[k])
      BY <3>1
    <3>3. g[k] = IF k = 0 THEN start ELSE Feed(g[k - 1], w[k])
      BY <2>1
    <3> QED
      BY <3>2, <3>3
  <2>3. \A k \in 0 .. m + 1 : k # 0 => k - 1 \in 0 .. m
    OBVIOUS
  <2>4. \A k \in 0 .. m + 1 : h[k] = IF k = 0 THEN start ELSE Feed(h[k - 1], w[k])
    <3> TAKE k \in 0 .. m + 1
    <3>1. h[k] = IF k = 0 THEN start ELSE Feed(g[k - 1], w[k])
      OBVIOUS
    <3>2. k # 0 => h[k - 1] = g[k - 1]
      BY <2>2, <2>3
    <3> HIDE DEF h
    <3> QED
      BY <3>1, <3>2
  <2>5. h = [k \in 0 .. m + 1 |-> h[k]]
    OBVIOUS
  <2> HIDE DEF h
  <2>6. h = [k \in 0 .. m + 1 |-> IF k = 0 THEN start ELSE Feed(h[k - 1], w[k])]
    BY <2>4, <2>5, Zenon
  <2>7. \E a : Reads(a, w, m + 1)
    BY <1>0, <2>6, Zenon
  <2> QED
    BY <2>7
<1>3. Nat \subseteq P
  <2> HIDE DEF P
  <2> QED
    BY <1>1, <1>2, NatAll
<1> QED
  BY <1>3

\* An interceptor that has got the bytes w and not looked at them.
Holding(w) == [buf |-> w, stats |-> Nothing]

\* A reader of the whole text counts what the parser counts.
LEMMA ReferenceIsParse ==
  ASSUME NEW w \in Seq(Symbol)
  PROVE  Reference(w) = Parsed(Holding(w)).stats
<1> DEFINE N == Len(w)
           a == CHOOSE g : Reads(g, w, N)
           Pre(n) == SubSeq(w, 1, n)
<1>1. N \in Nat
  OBVIOUS
<1>2. Reference(w) = a[N].stats
  BY Zenon DEF Reference, Reads
<1>3. Reads(a, w, N)
  BY <1>1, ReadsExist, Zenon
<1> HIDE DEF a, N
<1>4. \A k \in 0 .. N : a[k] = IF k = 0 THEN [event |-> <<>>, stats |-> Nothing] ELSE Feed(a[k - 1], w[k])
  BY <1>3 DEF Reads
<1>5. \A v \in Seq(Symbol) : Holding(v) \in Interceptor
  BY DEF Holding, Interceptor, Nothing
<1>6. \A n \in 0 .. N : Pre(n) \in Seq(Symbol)
  <2> TAKE n \in 0 .. N
  <2>1. \A k \in 1 .. n : w[k] \in Symbol
    BY <1>1 DEF N
  <2> QED
    BY <1>1, <2>1, SubSeqProperties
<1>7. Pre(0) = <<>> /\ Pre(N) = w
  BY <1>1, SubSeqEmpty, SubSeqFull DEF N
<1>8. \A n \in 0 .. N : n + 1 \in 0 .. N => Pre(n + 1) = Pre(n) \o <<w[n + 1]>>
  <2> SUFFICES ASSUME NEW n \in 0 .. N, n + 1 \in 0 .. N PROVE Pre(n + 1) = Pre(n) \o <<w[n + 1]>>
    OBVIOUS
  <2>1. Pre(n + 1) \in Seq(Symbol) /\ Pre(n) \in Seq(Symbol) /\ w[n + 1] \in Symbol
    BY <1>1, <1>6 DEF N
  <2>2. /\ Len(Pre(n + 1)) = n + 1 /\ \A k \in 1 .. n + 1 : Pre(n + 1)[k] = w[k]
        /\ Len(Pre(n)) = n /\ \A k \in 1 .. n : Pre(n)[k] = w[k]
    BY <1>1 DEF N
  <2> DEFINE u == Pre(n)
             v == Pre(n + 1)
             x == w[n + 1]
  <2> HIDE DEF u, v, x
  <2>3. u \in Seq(Symbol) /\ v \in Seq(Symbol) /\ Len(v) = n + 1 /\ Len(u) = n /\ v[n + 1] = x
        /\ \A k \in 1 .. n : v[k] = u[k]
    BY <2>1, <2>2 DEF u, v, x
  <2>4. <<x>> \in Seq(Symbol) /\ Len(<<x>>) = 1 /\ <<x>>[1] = x
    BY <2>1 DEF x
  <2>5. u \o <<x>> \in Seq(Symbol) /\ Len(u \o <<x>>) = n + 1 /\ \A k \in 1 .. n + 1 : (u \o <<x>>)[k] = v[k]
    BY <2>3, <2>4
  <2>6. v = u \o <<x>>
    BY <2>3, <2>5, SeqEqual
  <2> QED
    BY <2>6 DEF u, v, x
<1> HIDE DEF Pre
<1> DEFINE Same(n) == Parsed(Holding(Pre(n))) = [buf |-> a[n].event, stats |-> a[n].stats]
           P == {n \in Nat : n \in 0 .. N => Same(n)}
<1>9. 0 \in P
  <2>1. a[0] = [event |-> <<>>, stats |-> Nothing]
    BY <1>1, <1>4
  <2>2. Holding(<<>>) \in Interceptor /\ Holding(<<>>).buf = <<>> /\ Holding(<<>>) = [buf |-> <<>>, stats |-> Nothing]
    BY <1>5, EmptySeq DEF Holding
  <2>3. Cuts(Holding(<<>>).buf) = {}
    BY <2>2, NoCuts
  <2>4. Parsed(Holding(<<>>)) = Holding(<<>>)
    BY <2>2, <2>3, ParsedUnfold
  <2>5. Same(0)
    BY <1>7, <2>1, <2>2, <2>4
  <2> HIDE DEF Same
  <2> QED
    BY <2>5
<1>10. ASSUME NEW n \in Nat, n \in P PROVE n + 1 \in P
  <2> SUFFICES ASSUME n + 1 \in 0 .. N PROVE Same(n + 1)
    <3> HIDE DEF Same
    <3> QED
      OBVIOUS
  <2>1. n \in 0 .. N
    BY <1>1
  <2>2. Same(n)
    <3> HIDE DEF Same
    <3> QED
      BY <1>10, <2>1
  <2> DEFINE p == Holding(Pre(n))
             r == Parsed(p)
             x == w[n + 1]
             f == Feed([event |-> r.buf, stats |-> r.stats], x)
  <2>3. p \in Interceptor /\ x \in Symbol /\ <<x>> \in Seq(Symbol)
    BY <1>1, <1>5, <1>6, <2>1 DEF N
  <2>4. r \in Interceptor /\ Cuts(r.buf) = {}
    BY <2>3, ParsedType
  <2>5. Holding(Pre(n + 1)) = Fed(p, <<x>>)
    BY <1>8, <2>1 DEF Fed, Holding
  <2>6. Parsed(Fed(p, <<x>>)) = Parsed(Fed(r, <<x>>))
    BY <2>3, ParseInParts
  <2>7. Parsed(Fed(r, <<x>>)) = [buf |-> f.event, stats |-> f.stats]
    BY <2>3, <2>4, ParseSymbol
  <2>8. [event |-> r.buf, stats |-> r.stats] = a[n]
    <3>1. r.buf = a[n].event /\ r.stats = a[n].stats
      BY <2>2
    <3>2. a[n] = [event |-> a[n].event, stats |-> a[n].stats]
      <4>1. \A acc, y : Feed(acc, y) = [event |-> Feed(acc, y).event, stats |-> Feed(acc, y).stats]
        BY DEF Feed
      <4>2. a[n] = [event |-> <<>>, stats |-> Nothing] \/ a[n] = Feed(a[n - 1], w[n])
        BY <1>4, <2>1
      <4> QED
        BY <4>1, <4>2
    <3> HIDE DEF r
    <3> QED
      BY <3>1, <3>2
  <2>9. a[n + 1] = Feed(a[n], x)
    <3>1. n + 1 # 0 /\ (n + 1) - 1 = n
      OBVIOUS
    <3> QED
      BY <1>4, <3>1
  <2>10. f = a[n + 1]
    BY <2>8, <2>9
  <2> HIDE DEF f, r, p, x
  <2> QED
    BY <2>5, <2>6, <2>7, <2>10
<1>11. Nat \subseteq P
  <2> HIDE DEF P
  <2> QED
    BY <1>9, <1>10, NatAll
<1>12. Same(N)
  <2> HIDE DEF Same
  <2> QED
    BY <1>1, <1>11
<1> QED
  BY <1>2, <1>7, <1>12

-----------------------------------------------------------------------------
(* The interceptor *)

\* Between two Writes the interceptor is where a parser of everything that was
\* written would be.
Intercepted == [buf |-> buf, stats |-> stats] = Parsed(Holding(written))

\* A Write adds its fragment to what was written, however the parse so far was
\* divided; nothing else touches the interceptor.
LEMMA InterceptedStep == Copied /\ Intercepted /\ [Next]_vars => Intercepted'
<1> SUFFICES ASSUME Copied, Intercepted, [Next]_vars PROVE Intercepted'
  OBVIOUS
<1>1. CASE WriteReturns
  <2>1. /\ buf' = parseSSE(buf \o frag, stats).buf /\ stats' = parseSSE(buf \o frag, stats).stats
        /\ written' = written \o frag
    BY <1>1 DEF WriteReturns, Parse
  <2>2. written \in Seq(Symbol) /\ frag \in Seq(Symbol)
    BY DEF Copied
  <2> DEFINE p == Holding(written)
             r == Parsed(p)
  <2>3. p \in Interceptor
    BY <2>2 DEF Holding, Interceptor, Nothing
  <2>4. r \in Interceptor
    BY <2>3, ParsedType
  <2>5. r.buf = buf /\ r.stats = stats
    BY DEF Intercepted
  <2>6. Parsed(Fed(r, frag)) = parseSSE(buf \o frag, stats)
    <3> HIDE DEF r
    <3> QED
      BY <2>5 DEF Parsed, Fed
  <2>7. Fed(p, frag) = Holding(written')
    BY <2>1 DEF Fed, Holding
  <2>8. Parsed(Fed(p, frag)) = Parsed(Fed(r, frag))
    BY <2>2, <2>3, ParseInParts
  <2>9. Parsed(Fed(r, frag)) \in Interceptor
    BY <2>2, <2>4, FedType, ParsedType
  <2> HIDE DEF p, r
  <2> DEFINE t == Parsed(Holding(written'))
  <2>10. t = parseSSE(buf \o frag, stats) /\ t \in Interceptor
    BY <2>6, <2>7, <2>8, <2>9
  <2>11. t = [buf |-> t.buf, stats |-> t.stats]
    <3> HIDE DEF t
    <3> QED
      BY <2>10 DEF Interceptor
  <2>12. [buf |-> buf', stats |-> stats'] = t
    BY <2>1, <2>10, <2>11
  <2> QED
    BY <2>12 DEF Intercepted
<1>2. ASSUME UNCHANGED <<buf, stats, written>> PROVE Intercepted'
  BY <1>2 DEF Intercepted
<1>3. CASE UNCHANGED vars
  BY <1>2, <1>3 DEF vars, parseVars
<1>4. CASE Handler
  BY <1>2, <1>4 DEF Handler, NoFirstByte, Aborted, GiveUp, Replay, BeginWrite, ReadEnds, Judge, parseVars
<1>5. CASE Watchdog
  BY <1>2, <1>5 DEF Watchdog, Sample, Fire, NoticeStop, parseVars
<1>6. CASE Replica
  BY <1>2, <1>6 DEF Replica, Headers, UpstreamError, GiveUp, FirstByte, Read, BeginWrite, parseVars
<1>7. CASE Cancel \/ Tick
  BY <1>2, <1>7 DEF Cancel, Tick, parseVars
<1> QED
  BY <1>1, <1>3, <1>4, <1>5, <1>6, <1>7 DEF Next, Client

\* The interceptor counts the chunks and sees [DONE] as a reader of the whole
\* text would, for every body and every way of tearing it apart.
THEOREM FragmentsDoNotMatterSafe == Spec => []FragmentsDoNotMatter
<1>1. Init => Copied /\ Intercepted
  <2> SUFFICES ASSUME Init PROVE Copied /\ Intercepted
    OBVIOUS
  <2>1. buf = <<>> /\ stats = Nothing /\ written = <<>>
    BY DEF Init
  <2>2. Holding(<<>>) \in Interceptor /\ Holding(<<>>).buf = <<>> /\ Holding(<<>>) = [buf |-> <<>>, stats |-> Nothing]
    BY EmptySeq DEF Holding, Interceptor, Nothing
  <2>3. Parsed(Holding(<<>>)) = Holding(<<>>)
    BY <2>2, NoCuts, ParsedUnfold
  <2> QED
    BY <2>1, <2>2, <2>3, CopiedInit DEF Intercepted
<1>2. Copied /\ Intercepted => FragmentsDoNotMatter
  <2> SUFFICES ASSUME Copied, Intercepted PROVE FragmentsDoNotMatter
    OBVIOUS
  <2>1. written \in Seq(Symbol)
    BY DEF Copied
  <2>2. Parsed(Holding(written)).stats = stats
    BY DEF Intercepted
  <2> QED
    BY <2>1, <2>2, ReferenceIsParse DEF FragmentsDoNotMatter
<1> QED
  BY <1>1, <1>2, CopiedStep, InterceptedStep, PTL DEF Spec

=============================================================================
