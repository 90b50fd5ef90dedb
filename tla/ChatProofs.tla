----------------------------- MODULE ChatProofs -----------------------------
(***************************************************************************)
(* Proofs about the command line client, for every number of prompts and   *)
(* deltas and every size of the channels.                                  *)
(***************************************************************************)
EXTENDS Chat, SequenceTheorems, WellFoundedInduction, TLAPS

Pieces == Nat \X Nat

\* What a channel carries; its end is no event.
Event == [kind : {"delta", "error"}, text : Seq(Pieces)]

StreamTypes ==
  /\ streamCh \in Sends \cup {NoStream}
  /\ sending \in [Sends -> {"unused", "posting", "started", "failed", "over"}]
  /\ source \in [Sends -> {"none", "parsing", "ending", "closed"}]
  /\ channel \in [Sends -> Seq(Event)]
  /\ deltas \in [Sends -> Nat]
  /\ reader \in [Sends -> {"none", "waiting", "bringing"}]
  /\ reads \in [Sends -> Sends \cup {NoStream}]
  /\ event \in [Sends -> Event \cup {Done}]

\* Send k is on its way, or its answer is shown.
Live(k) == Pending(k) \/ streamCh = k

\* The life of one turn: the stream is produced only while the turn is live,
\* its reader is there exactly while it is shown, stays with it, and knows of
\* its end only when nothing is left.
Lifecycle(k) ==
  /\ source[k] \in {"parsing", "ending"} \/ channel[k] # <<>> => sending[k] = "started" \/ streamCh = k
  /\ sending[k] \in {"unused", "posting", "failed"} => source[k] = "none"
  /\ streamCh = k => sending[k] = "over"
  /\ reader[k] # "none" <=> streamCh = k
  /\ reader[k] = "waiting" => reads[k] = k
  /\ reader[k] = "bringing" /\ event[k] = Done => source[k] = "closed" /\ channel[k] = <<>>

\* One turn at a time, for a user who does not hurry.
OneAtATime ==
  ~hasty => /\ \A j, k \in Sends : Live(j) /\ Live(k) => j = k
            /\ \A k \in Sends : Lifecycle(k)

ChatInv == StreamTypes /\ OneAtATime

-----------------------------------------------------------------------------

\* Streams are numbered from 1, and the texts of events are texts.
LEMMA Numbers ==
  /\ NoStream \notin Sends /\ Sends \subseteq Nat
  /\ Error \in Event /\ Done \notin Event
  /\ \A k \in Sends, n \in Nat : \A s \in Contents(Word(k, n + 1)) : Delta(s) \in Event
  /\ \A e \in Event \cup {Done} : e.kind = "done" <=> e = Done
<1>1. NoStream \notin Sends /\ Sends \subseteq Nat
  BY ChatAssumption DEF Sends, NoStream
<1>2. Error \in Event /\ Done \notin Event
  BY DEF Error, Done, Event, StreamErrorText, Newline, ErrorText, Pieces
<1>3. ASSUME NEW k \in Sends, NEW n \in Nat, NEW s \in Contents(Word(k, n + 1)) PROVE Delta(s) \in Event
  <2>1. Word(k, n + 1) \in Pieces /\ Newline \in Pieces
    BY <1>1 DEF Word, Newline, Pieces
  <2>2. s = <<Word(k, n + 1), Newline>> \/ s = <<Newline, Word(k, n + 1)>>
    BY DEF Contents
  <2>3. ASSUME NEW P, NEW a \in P, NEW b \in P PROVE <<a, b>> \in Seq(P)
    OBVIOUS
  <2>4. s \in Seq(Pieces)
    BY <2>1, <2>2, <2>3, Zenon
  <2> QED
    BY <2>4 DEF Delta, Event
<1>4. \A e \in Event \cup {Done} : e.kind = "done" <=> e = Done
  BY DEF Event, Done
<1> QED
  BY <1>1, <1>2, <1>3, <1>4

\* A program that has just started.
LEMMA ChatInit == Init => ChatInv
<1> SUFFICES ASSUME Init PROVE ChatInv
  OBVIOUS
<1>1. StreamTypes
  BY DEF Init, StreamTypes
<1>2. OneAtATime
  BY Numbers DEF Init, OneAtATime, Live, Pending, Lifecycle
<1> QED
  BY <1>1, <1>2 DEF ChatInv

\* The variables of the streams keep their types.
LEMMA StreamTypeStep == StreamTypes /\ [Next]_vars => StreamTypes'
<1> SUFFICES ASSUME StreamTypes, [Next]_vars PROVE StreamTypes'
  OBVIOUS
<1> USE DEF StreamTypes
<1>1. ASSUME NEW k \in Sends, Enter(k) PROVE StreamTypes'
  BY <1>1 DEF Enter, readerVars
<1>2. ASSUME NEW k \in Sends, PostSucceeds(k) \/ PostFails(k) PROVE StreamTypes'
  BY <1>2 DEF PostSucceeds, PostFails, uiVars, sourceVars, readerVars
<1>3. ASSUME NEW k \in Sends, NEW e \in Event, Push(k, e) PROVE channel' \in [Sends -> Seq(Event)]
  BY <1>3 DEF Push
<1>4. ASSUME NEW k \in Sends, ParseDelta(k) \/ ParseError(k) PROVE StreamTypes'
  <2>1. \E e \in Event : Push(k, e)
    <3>1. CASE ParseError(k)
      BY <3>1, Numbers DEF ParseError
    <3>2. CASE ParseDelta(k)
      <4>1. deltas[k] \in Nat
        OBVIOUS
      <4>2. PICK s \in Contents(Word(k, deltas[k] + 1)) : Push(k, Delta(s))
        BY <3>2 DEF ParseDelta
      <4> QED
        BY <4>1, <4>2, Numbers
    <3> QED
      BY <1>4, <3>1, <3>2
  <2>2. channel' \in [Sends -> Seq(Event)]
    BY <1>3, <2>1
  <2>3. /\ deltas' \in [Sends -> Nat]
        /\ source' \in [Sends -> {"none", "parsing", "ending", "closed"}]
        /\ UNCHANGED <<streamCh, sending, reader, reads, event>>
    <3>1. CASE ParseDelta(k)
      BY <3>1 DEF ParseDelta, uiVars, readerVars
    <3>2. CASE ParseError(k)
      BY <3>2 DEF ParseError, uiVars, readerVars
    <3> QED
      BY <1>4, <3>1, <3>2
  <2> QED
    BY <2>2, <2>3
<1>5. ASSUME NEW k \in Sends, Close(k) PROVE StreamTypes'
  BY <1>5 DEF Close, uiVars, readerVars
<1>6. ASSUME NEW k \in Sends, Receive(k) PROVE StreamTypes'
  <2>1. reads[k] \in Sends
    BY <1>6 DEF Receive
  <2>2. channel[reads[k]] # <<>> => /\ Head(channel[reads[k]]) \in Event
                                    /\ Tail(channel[reads[k]]) \in Seq(Event)
    BY <2>1
  <2>3. channel' \in [Sends -> Seq(Event)] /\ event' \in [Sends -> Event \cup {Done}]
    <3> DEFINE c == reads[k]
    <3>1. CASE /\ channel[c] # <<>>
               /\ event' = [event EXCEPT ![k] = Head(channel[c])]
               /\ channel' = [channel EXCEPT ![c] = Tail(@)]
      BY <2>1, <2>2, <3>1
    <3>2. CASE event' = [event EXCEPT ![k] = Done] /\ UNCHANGED channel
      BY <3>2
    <3> QED
      BY <1>6, <3>1, <3>2 DEF Receive
  <2> QED
    BY <1>6, <2>3 DEF Receive, uiVars
<1>7. ASSUME NEW k \in Sends, OnStarted(k) \/ OnEvent(k) PROVE StreamTypes'
  <2>1. PICK c \in Sends \cup {NoStream} : WaitForStream(k, c)
    BY <1>7 DEF OnStarted, OnEvent
  <2>2. /\ reader' \in [Sends -> {"none", "waiting", "bringing"}]
        /\ reads' \in [Sends -> Sends \cup {NoStream}]
        /\ event' \in [Sends -> Event \cup {Done}]
    BY <2>1 DEF WaitForStream
  <2>3. /\ streamCh' \in Sends \cup {NoStream}
        /\ sending' \in [Sends -> {"unused", "posting", "started", "failed", "over"}]
        /\ UNCHANGED <<source, channel, deltas>>
    BY <1>7 DEF OnStarted, OnEvent, sourceVars
  <2> QED
    BY <2>2, <2>3
<1>8. ASSUME NEW k \in Sends, OnSendError(k) \/ OnDone(k) PROVE StreamTypes'
  <2>1. /\ streamCh' \in Sends \cup {NoStream}
        /\ sending' \in [Sends -> {"unused", "posting", "started", "failed", "over"}]
        /\ reader' \in [Sends -> {"none", "waiting", "bringing"}]
        /\ UNCHANGED <<source, channel, deltas, reads, event>>
    BY <1>8 DEF OnSendError, OnDone, sourceVars, readerVars
  <2> QED
    BY <2>1
<1>9. CASE EscCancels \/ EscQuits \/ UNCHANGED vars
  BY <1>9 DEF EscCancels, EscQuits, vars, uiVars, sourceVars, readerVars
<1> QED
  BY <1>1, <1>2, <1>4, <1>5, <1>6, <1>7, <1>8, <1>9 DEF Next

\* A prompt is sent, and nothing else is on its way.
LEMMA EnterKeeps ==
  ASSUME ChatInv, NEW k \in Sends, Enter(k), ~hasty'
  PROVE  OneAtATime'
<1>1. ~hasty /\ \A j \in Sends : ~Pending(j)
  BY DEF Enter
<1>2. /\ streamCh = NoStream /\ UNCHANGED <<streamCh, source, channel, reader, reads, event>>
      /\ sending[k] = "unused" /\ sending' = [sending EXCEPT ![k] = "posting"]
      /\ sending \in [Sends -> {"unused", "posting", "started", "failed", "over"}]
  BY DEF Enter, IsReady, readerVars, ChatInv, StreamTypes
<1>3. \A j \in Sends : Lifecycle(j)
  BY <1>1 DEF ChatInv, OneAtATime
<1>4. \A j \in Sends : Live(j)' => j = k
  BY <1>1, <1>2, Numbers DEF Live, Pending
<1>5. \A j \in Sends : Lifecycle(j)'
  BY <1>2, <1>3 DEF Lifecycle
<1> QED
  BY <1>4, <1>5 DEF OneAtATime

-----------------------------------------------------------------------------
(* The steps of an orderly user's turn *)

\* What a step needs: the turns are in order before it.
Orderly == /\ StreamTypes
           /\ \A i, j \in Sends : Live(i) /\ Live(j) => i = j
           /\ \A j \in Sends : Lifecycle(j)

\* The router answers: the turn stays pending, and its stream begins.
LEMMA PostKeeps ==
  ASSUME Orderly, NEW k \in Sends, PostSucceeds(k) \/ PostFails(k)
  PROVE  /\ \A i, j \in Sends : Live(i)' /\ Live(j)' => i = j
         /\ \A j \in Sends : Lifecycle(j)'
<1>1. /\ sending[k] = "posting"
      /\ \/ sending' = [sending EXCEPT ![k] = "started"] /\ source' = [source EXCEPT ![k] = "parsing"]
         \/ sending' = [sending EXCEPT ![k] = "failed"] /\ source' = source
      /\ UNCHANGED <<streamCh, channel, reader, reads, event>>
      /\ sending \in [Sends -> {"unused", "posting", "started", "failed", "over"}]
      /\ source \in [Sends -> {"none", "parsing", "ending", "closed"}]
  BY DEF PostSucceeds, PostFails, uiVars, sourceVars, readerVars, Orderly, StreamTypes
<1>2. \A j \in Sends : Live(j)' => Live(j)
  BY <1>1 DEF Live, Pending
<1>3. \A j \in Sends : Lifecycle(j)'
  <2> SUFFICES ASSUME NEW j \in Sends PROVE Lifecycle(j)'
    OBVIOUS
  <2>1. Lifecycle(j) /\ Lifecycle(k)
    BY DEF Orderly
  <2>2. CASE j = k
    BY <1>1, <2>1, <2>2 DEF Lifecycle
  <2>3. CASE j # k
    BY <1>1, <2>1, <2>3 DEF Lifecycle
  <2> QED
    BY <2>2, <2>3
<1> QED
  BY <1>2, <1>3 DEF Orderly

\* The goroutine of Send goes on: its turn is live, and its end is not known.
LEMMA SourceKeeps ==
  ASSUME Orderly, NEW k \in Sends, ParseDelta(k) \/ ParseError(k) \/ Close(k)
  PROVE  /\ \A i, j \in Sends : Live(i)' /\ Live(j)' => i = j
         /\ \A j \in Sends : Lifecycle(j)'
<1>1. /\ source[k] \in {"parsing", "ending"}
      /\ UNCHANGED <<streamCh, sending, reader, reads, event>>
      /\ \A j \in Sends \ {k} : channel'[j] = channel[j] /\ source'[j] = source[j]
  BY DEF ParseDelta, ParseError, Close, Push, uiVars, readerVars, Orderly, StreamTypes
<1>2. \A j \in Sends : Live(j)' <=> Live(j)
  BY <1>1 DEF Live, Pending
<1>3. \A j \in Sends : Lifecycle(j)'
  <2> SUFFICES ASSUME NEW j \in Sends PROVE Lifecycle(j)'
    OBVIOUS
  <2>1. Lifecycle(j)
    BY DEF Orderly
  <2>2. CASE j = k
    BY <1>1, <2>1, <2>2 DEF Lifecycle
  <2>3. CASE j # k
    BY <1>1, <2>1, <2>3 DEF Lifecycle
  <2> QED
    BY <2>2, <2>3
<1> QED
  BY <1>2, <1>3 DEF Orderly

\* A reader takes an event of its own stream, or learns of its end.
LEMMA ReceiveKeeps ==
  ASSUME Orderly, NEW k \in Sends, Receive(k)
  PROVE  /\ \A i, j \in Sends : Live(i)' /\ Live(j)' => i = j
         /\ \A j \in Sends : Lifecycle(j)'
<1>1. /\ reader[k] = "waiting"
      /\ UNCHANGED <<streamCh, sending, source>>
      /\ reader' = [reader EXCEPT ![k] = "bringing"]
      /\ reads' = [reads EXCEPT ![k] = NoStream]
      /\ reader \in [Sends -> {"none", "waiting", "bringing"}]
      /\ reads \in [Sends -> Sends \cup {NoStream}]
      /\ channel \in [Sends -> Seq(Event)]
      /\ event \in [Sends -> Event \cup {Done}]
  BY DEF Receive, uiVars, Orderly, StreamTypes
<1>2. Lifecycle(k) /\ reads[k] = k
  BY <1>1 DEF Orderly, Lifecycle
<1>3. /\ \A j \in Sends \ {k} : channel'[j] = channel[j] /\ event'[j] = event[j]
      /\ \/ event'[k] \in Event
         \/ event'[k] = Done /\ channel'[k] = <<>> /\ source[k] = "closed"
  BY <1>1, <1>2 DEF Receive
<1>4. \A j \in Sends : Live(j)' <=> Live(j)
  BY <1>1 DEF Live, Pending
<1>5. \A j \in Sends : Lifecycle(j)'
  <2> SUFFICES ASSUME NEW j \in Sends PROVE Lifecycle(j)'
    OBVIOUS
  <2>1. Lifecycle(j)
    BY DEF Orderly
  <2>2. CASE j = k
    BY <1>1, <1>3, <2>1, <2>2, Numbers DEF Lifecycle
  <2>3. CASE j # k
    BY <1>1, <1>3, <2>1, <2>3 DEF Lifecycle
  <2> QED
    BY <2>2, <2>3
<1> QED
  BY <1>4, <1>5 DEF Orderly

\* The stream begins to be shown: nothing else is, so nobody loses its reader.
LEMMA StartedKeeps ==
  ASSUME Orderly, NEW k \in Sends, OnStarted(k)
  PROVE  /\ \A i, j \in Sends : Live(i)' /\ Live(j)' => i = j
         /\ \A j \in Sends : Lifecycle(j)'
<1>1. /\ sending[k] = "started" /\ streamCh' = k
      /\ sending' = [sending EXCEPT ![k] = "over"]
      /\ reader' = [reader EXCEPT ![k] = "waiting"]
      /\ reads' = [reads EXCEPT ![k] = k]
      /\ event' = [event EXCEPT ![k] = Done]
      /\ UNCHANGED <<source, channel>>
  BY DEF OnStarted, WaitForStream, sourceVars
<1>2. /\ streamCh \in Sends \cup {NoStream}
      /\ sending \in [Sends -> {"unused", "posting", "started", "failed", "over"}]
      /\ reader \in [Sends -> {"none", "waiting", "bringing"}]
      /\ reads \in [Sends -> Sends \cup {NoStream}]
      /\ event \in [Sends -> Event \cup {Done}]
  BY DEF Orderly, StreamTypes
<1>3. \A j \in Sends : Live(j) => j = k
  BY <1>1 DEF Orderly, Live, Pending
<1>4. streamCh = NoStream
  <2>1. streamCh # k
    BY <1>1 DEF Orderly, Lifecycle
  <2>2. \A j \in Sends : streamCh # j
    BY <1>3, <2>1 DEF Live
  <2> QED
    BY <1>2, <2>2
<1>5. \A j \in Sends : Live(j)' => j = k
  BY <1>1, <1>2, <1>3 DEF Live, Pending
<1>6. \A j \in Sends : Lifecycle(j)'
  <2> SUFFICES ASSUME NEW j \in Sends PROVE Lifecycle(j)'
    OBVIOUS
  <2>1. Lifecycle(j)
    BY DEF Orderly
  <2>2. CASE j = k
    BY <1>1, <1>2, <2>1, <2>2 DEF Lifecycle
  <2>3. CASE j # k
    BY <1>1, <1>2, <1>4, <2>1, <2>3, Numbers DEF Lifecycle
  <2> QED
    BY <2>2, <2>3
<1> QED
  BY <1>5, <1>6

\* A prompt that could not be sent leaves no stream behind.
LEMMA SendErrorKeeps ==
  ASSUME Orderly, NEW k \in Sends, OnSendError(k)
  PROVE  /\ \A i, j \in Sends : Live(i)' /\ Live(j)' => i = j
         /\ \A j \in Sends : Lifecycle(j)'
<1>1. /\ sending[k] = "failed"
      /\ sending' = [sending EXCEPT ![k] = "over"]
      /\ UNCHANGED <<streamCh, source, channel, reader, reads, event>>
      /\ sending \in [Sends -> {"unused", "posting", "started", "failed", "over"}]
  BY DEF OnSendError, sourceVars, readerVars, Orderly, StreamTypes
<1>2. \A j \in Sends : Live(j)' => Live(j)
  BY <1>1 DEF Live, Pending
<1>3. \A j \in Sends : Lifecycle(j)'
  BY <1>1 DEF Orderly, Lifecycle
<1> QED
  BY <1>2, <1>3 DEF Orderly

\* A delta or an error is shown, and the reader stays with its stream.
LEMMA EventKeeps ==
  ASSUME Orderly, NEW k \in Sends, OnEvent(k)
  PROVE  /\ \A i, j \in Sends : Live(i)' /\ Live(j)' => i = j
         /\ \A j \in Sends : Lifecycle(j)'
<1>1. /\ reader[k] = "bringing"
      /\ reader' = [reader EXCEPT ![k] = "waiting"]
      /\ reads' = [reads EXCEPT ![k] = streamCh]
      /\ event' = [event EXCEPT ![k] = Done]
      /\ UNCHANGED <<streamCh, sending, source, channel>>
  BY DEF OnEvent, WaitForStream, sourceVars
<1>2. /\ reader \in [Sends -> {"none", "waiting", "bringing"}]
      /\ reads \in [Sends -> Sends \cup {NoStream}]
      /\ event \in [Sends -> Event \cup {Done}]
  BY DEF Orderly, StreamTypes
<1>3. streamCh = k
  BY <1>1 DEF Orderly, Lifecycle
<1>4. \A j \in Sends : Live(j)' <=> Live(j)
  BY <1>1 DEF Live, Pending
<1>5. \A j \in Sends : Lifecycle(j)'
  BY <1>1, <1>2, <1>3 DEF Orderly, Lifecycle
<1> QED
  BY <1>4, <1>5 DEF Orderly

\* The end of the stream that is shown: it is closed and empty.
LEMMA DoneKeeps ==
  ASSUME Orderly, NEW k \in Sends, OnDone(k)
  PROVE  /\ \A i, j \in Sends : Live(i)' /\ Live(j)' => i = j
         /\ \A j \in Sends : Lifecycle(j)'
<1>1. /\ reader[k] = "bringing" /\ event[k].kind = "done"
      /\ reader' = [reader EXCEPT ![k] = "none"]
      /\ streamCh' = NoStream
      /\ UNCHANGED <<sending, source, channel, reads, event>>
  BY DEF OnDone
<1>2. /\ reader \in [Sends -> {"none", "waiting", "bringing"}]
      /\ event[k] = Done
  BY <1>1, Numbers DEF Orderly, StreamTypes
<1>3. streamCh = k /\ source[k] = "closed" /\ channel[k] = <<>>
  BY <1>1, <1>2 DEF Orderly, Lifecycle
<1>4. \A j \in Sends : Live(j)' => Live(j)
  BY <1>1, Numbers DEF Live, Pending
<1>5. \A j \in Sends : Lifecycle(j)'
  <2> SUFFICES ASSUME NEW j \in Sends PROVE Lifecycle(j)'
    OBVIOUS
  <2>1. Lifecycle(j)
    BY DEF Orderly
  <2>2. CASE j = k
    BY <1>1, <1>2, <1>3, <2>1, <2>2, Numbers DEF Lifecycle
  <2>3. CASE j # k
    BY <1>1, <1>2, <1>3, <2>1, <2>3, Numbers DEF Lifecycle
  <2> QED
    BY <2>2, <2>3
<1> QED
  BY <1>4, <1>5 DEF Orderly

-----------------------------------------------------------------------------

\* The turns of a user who waits until a prompt is sent before the next never
\* overlap, and a stream, its channel and its reader live and end with their
\* turn (Update, startSend, waitForStream).
THEOREM ChatInvariance == Spec => []ChatInv
<1>1. ChatInv /\ [Next]_vars => ChatInv'
  <2> SUFFICES ASSUME ChatInv, [Next]_vars PROVE ChatInv'
    OBVIOUS
  <2>1. StreamTypes'
    BY StreamTypeStep DEF ChatInv
  <2>2. ASSUME ~hasty' PROVE OneAtATime'
    <3>1. ~hasty
      BY <2>2 DEF Next, Enter, PostSucceeds, PostFails, ParseDelta, ParseError, Close, Receive, OnStarted,
                  OnSendError, OnEvent, OnDone, EscCancels, EscQuits, vars
    <3>2. Orderly
      BY <3>1 DEF Orderly, ChatInv, OneAtATime
    <3>3. ASSUME NEW k \in Sends, Enter(k) PROVE OneAtATime'
      BY <2>2, <3>3, EnterKeeps
    <3>4. ASSUME NEW k \in Sends, PostSucceeds(k) \/ PostFails(k) PROVE OneAtATime'
      BY <3>2, <3>4, PostKeeps DEF OneAtATime
    <3>5. ASSUME NEW k \in Sends, ParseDelta(k) \/ ParseError(k) \/ Close(k) PROVE OneAtATime'
      BY <3>2, <3>5, SourceKeeps DEF OneAtATime
    <3>6. ASSUME NEW k \in Sends, Receive(k) PROVE OneAtATime'
      BY <3>2, <3>6, ReceiveKeeps DEF OneAtATime
    <3>7. ASSUME NEW k \in Sends, OnStarted(k) PROVE OneAtATime'
      BY <3>2, <3>7, StartedKeeps DEF OneAtATime
    <3>8. ASSUME NEW k \in Sends, OnSendError(k) PROVE OneAtATime'
      BY <3>2, <3>8, SendErrorKeeps DEF OneAtATime
    <3>9. ASSUME NEW k \in Sends, OnEvent(k) PROVE OneAtATime'
      BY <3>2, <3>9, EventKeeps DEF OneAtATime
    <3>10. ASSUME NEW k \in Sends, OnDone(k) PROVE OneAtATime'
      BY <3>2, <3>10, DoneKeeps DEF OneAtATime
    <3>11. CASE EscCancels \/ EscQuits \/ UNCHANGED vars
      <4>1. UNCHANGED <<streamCh, sending, source, channel, reader, reads, event>>
        BY <3>11 DEF EscCancels, EscQuits, vars, uiVars, sourceVars, readerVars
      <4> QED
        BY <3>2, <4>1 DEF Orderly, OneAtATime, Live, Pending, Lifecycle
    <3> QED
      BY <3>3, <3>4, <3>5, <3>6, <3>7, <3>8, <3>9, <3>10, <3>11 DEF Next
  <2> QED
    BY <2>1, <2>2 DEF ChatInv, OneAtATime
<1> QED
  BY ChatInit, <1>1, PTL DEF Spec

\* Such a user leaves no goroutine behind, whatever the number of turns and
\* the size of the channels: when no prompt is pending and no answer is shown,
\* every stream is closed and read to its end, and nobody waits for one.
THEOREM NothingLeaksSafe == Spec => []NothingLeaks
<1>1. ChatInv => NothingLeaks
  <2> SUFFICES ASSUME ChatInv, ~hasty, streamCh = NoStream, \A k \in Sends : ~Pending(k), NEW k \in Sends
               PROVE  source[k] \in {"none", "closed"} /\ channel[k] = <<>> /\ reader[k] = "none"
    BY DEF NothingLeaks
  <2>1. Lifecycle(k) /\ source[k] \in {"none", "parsing", "ending", "closed"}
    BY DEF ChatInv, StreamTypes, OneAtATime
  <2> QED
    BY <2>1, Numbers DEF Lifecycle, Pending
<1> QED
  BY ChatInvariance, <1>1, PTL

-----------------------------------------------------------------------------
(* Numbers *)

\* The least of some numbers.
LEMMA MinOfNat ==
  ASSUME NEW S \in SUBSET Nat, S # {}
  PROVE  Min(S) \in S /\ \A y \in S : Min(S) <= y
<1>1. PICK m \in S : \A k \in S : ~(<<k, m>> \in OpToRel(<, Nat))
  BY NatLessThanWellFounded, WFMin
<1>2. S \subseteq Nat
  OBVIOUS
<1>3. \A k \in S : ~(k < m)
  BY <1>1, <1>2 DEF OpToRel
<1>4. \A k \in S : k \in Nat /\ m \in Nat
  BY <1>2
<1>5. \E x \in S : \A y \in S : x <= y
  BY <1>3, <1>4
<1> QED
  BY <1>5, Zenon DEF Min

\* A least number is the least.
LEMMA MinIs ==
  ASSUME NEW S \in SUBSET Nat, NEW m \in S, \A y \in S : m <= y
  PROVE  Min(S) = m
<1>1. Min(S) \in S /\ Min(S) <= m
  BY MinOfNat
<1>2. m <= Min(S) /\ Min(S) \in Nat /\ m \in Nat
  BY <1>1
<1> QED
  BY <1>1, <1>2

\* The greatest of some numbers up to n.
LEMMA MaxOfNat ==
  ASSUME NEW n \in Nat, NEW S \in SUBSET (1 .. n), S # {}
  PROVE  Max(S) \in S /\ \A y \in S : y <= Max(S)
<1> DEFINE T == {n - y : y \in S}
<1>1. \A y \in S : y \in Nat /\ n - y \in Nat
  OBVIOUS
<1>2. T \in SUBSET Nat /\ T # {}
  BY <1>1
<1>3. PICK x \in S : Min(T) = n - x /\ \A t \in T : n - x <= t
  <2>1. Min(T) \in T /\ \A t \in T : Min(T) <= t
    <3> HIDE DEF T
    <3> QED
      BY <1>2, MinOfNat
  <2> QED
    BY <2>1
<1>4. \A y \in S : n - x <= n - y
  BY <1>3
<1>5. \A y \in S : x >= y
  BY <1>1, <1>4
<1>6. \E z \in S : \A y \in S : z >= y
  BY <1>5
<1>7. Max(S) \in S /\ \A y \in S : Max(S) >= y
  BY <1>6, Zenon DEF Max
<1> QED
  BY <1>1, <1>7

\* A greatest number is the greatest.
LEMMA MaxIs ==
  ASSUME NEW n \in Nat, NEW S \in SUBSET (1 .. n), NEW m \in S, \A y \in S : y <= m
  PROVE  Max(S) = m
<1>1. Max(S) \in S /\ m <= Max(S)
  BY MaxOfNat
<1>2. Max(S) <= m /\ Max(S) \in 1 .. n /\ m \in 1 .. n
  BY <1>1
<1> QED
  BY <1>1, <1>2

-----------------------------------------------------------------------------
(* Texts and their blank lines *)

Text == Seq(Pieces)

\* A text from its m-th piece on.
From(s, m) == SubSeq(s, m, Len(s))

\* Its pieces.
LEMMA FromIs ==
  ASSUME NEW s \in Text, NEW m \in 1 .. Len(s) + 1
  PROVE  /\ From(s, m) \in Text /\ Len(From(s, m)) = Len(s) - m + 1
         /\ \A k \in 1 .. Len(s) - m + 1 : From(s, m)[k] = s[m + k - 1]
<1>1. Len(s) \in Nat /\ m \in Int /\ \A k \in m .. Len(s) : s[k] \in Pieces
  BY DEF Text
<1> DEFINE t == SubSeq(s, m, Len(s))
<1>2. /\ t \in Seq(Pieces)
      /\ Len(t) = IF m <= Len(s) THEN Len(s) - m + 1 ELSE 0
      /\ \A k \in 1 .. Len(s) - m + 1 : t[k] = s[m + k - 1]
  BY <1>1, SubSeqProperties
<1> HIDE DEF t
<1>3. Len(t) = Len(s) - m + 1
  BY <1>1, <1>2
<1> QED
  BY <1>2, <1>3 DEF t, From, Text

\* The end of an end.
LEMMA FromFrom ==
  ASSUME NEW s \in Text, NEW m \in 1 .. Len(s) + 1, NEW l \in 1 .. Len(s) - m + 2
  PROVE  From(From(s, m), l) = From(s, m + l - 1)
<1> DEFINE t == From(s, m)
           u == From(t, l)
           v == From(s, m + l - 1)
<1>1. Len(s) \in Nat
  BY DEF Text
<1>2. t \in Text /\ Len(t) = Len(s) - m + 1 /\ \A k \in 1 .. Len(s) - m + 1 : t[k] = s[m + k - 1]
  BY FromIs
<1> HIDE DEF t
<1>3. l \in 1 .. Len(t) + 1 /\ m + l - 1 \in 1 .. Len(s) + 1
  BY <1>1, <1>2
<1>4. u \in Text /\ Len(u) = Len(t) - l + 1 /\ \A k \in 1 .. Len(t) - l + 1 : u[k] = t[l + k - 1]
  BY <1>2, <1>3, FromIs
<1>5. /\ v \in Text /\ Len(v) = Len(s) - (m + l - 1) + 1
      /\ \A k \in 1 .. Len(s) - (m + l - 1) + 1 : v[k] = s[(m + l - 1) + k - 1]
  BY <1>3, FromIs
<1> HIDE DEF u, v
<1>6. Len(u) = Len(v) /\ Len(u) = Len(t) - l + 1 /\ Len(u) = Len(s) - (m + l - 1) + 1
  BY <1>1, <1>2, <1>4, <1>5
<1>7. \A k \in 1 .. Len(u) : u[k] = v[k]
  <2> SUFFICES ASSUME NEW k \in 1 .. Len(u) PROVE u[k] = v[k]
    OBVIOUS
  <2>1. l + k - 1 \in 1 .. Len(s) - m + 1 /\ m + (l + k - 1) - 1 = (m + l - 1) + k - 1
    BY <1>1, <1>2, <1>6
  <2>2. u[k] = t[l + k - 1] /\ v[k] = s[(m + l - 1) + k - 1]
    BY <1>4, <1>5, <1>6
  <2>3. t[l + k - 1] = s[m + (l + k - 1) - 1]
    BY <1>2, <2>1
  <2> QED
    BY <2>1, <2>2, <2>3
<1>8. u = v
  BY <1>4, <1>5, <1>6, <1>7, SeqEqual DEF Text
<1> QED
  BY <1>8 DEF t, u, v

\* The end of two texts that begins in the first.
LEMMA FromFirst ==
  ASSUME NEW s \in Text, NEW t \in Text, NEW m \in 1 .. Len(s) + 1
  PROVE  From(s, m) \o t = From(s \o t, m)
<1> DEFINE u == From(s, m)
           z == s \o t
           v == From(z, m)
<1>1. Len(s) \in Nat /\ Len(t) \in Nat
  BY DEF Text
<1>2. u \in Text /\ Len(u) = Len(s) - m + 1 /\ \A k \in 1 .. Len(s) - m + 1 : u[k] = s[m + k - 1]
  BY FromIs
<1>3. /\ z \in Text /\ Len(z) = Len(s) + Len(t)
      /\ \A k \in 1 .. Len(s) + Len(t) : z[k] = IF k <= Len(s) THEN s[k] ELSE t[k - Len(s)]
  BY ConcatProperties DEF Text
<1> HIDE DEF u, z
<1>4. v \in Text /\ Len(v) = Len(z) - m + 1 /\ \A k \in 1 .. Len(z) - m + 1 : v[k] = z[m + k - 1]
  <2>1. m \in 1 .. Len(z) + 1
    BY <1>1, <1>3
  <2> QED
    BY <1>3, <2>1, FromIs
<1>5. /\ u \o t \in Text /\ Len(u \o t) = Len(u) + Len(t)
      /\ \A k \in 1 .. Len(u) + Len(t) : (u \o t)[k] = IF k <= Len(u) THEN u[k] ELSE t[k - Len(u)]
  BY <1>2, ConcatProperties DEF Text
<1> HIDE DEF v
<1>6. Len(u \o t) = Len(v) /\ Len(v) = Len(u) + Len(t) /\ Len(v) = Len(z) - m + 1 /\ Len(u) \in Nat
  BY <1>1, <1>2, <1>3, <1>4, <1>5
<1>7. \A k \in 1 .. Len(v) : (u \o t)[k] = v[k]
  <2> SUFFICES ASSUME NEW k \in 1 .. Len(v) PROVE (u \o t)[k] = v[k]
    OBVIOUS
  <2>1. v[k] = z[m + k - 1] /\ m + k - 1 \in 1 .. Len(s) + Len(t)
    BY <1>1, <1>3, <1>4, <1>6
  <2>2. z[m + k - 1] = IF m + k - 1 <= Len(s) THEN s[m + k - 1] ELSE t[m + k - 1 - Len(s)]
    BY <1>3, <2>1
  <2>3. (u \o t)[k] = IF k <= Len(u) THEN u[k] ELSE t[k - Len(u)]
    BY <1>5, <1>6
  <2>4. (k <= Len(u) <=> m + k - 1 <= Len(s)) /\ m + k - 1 - Len(s) = k - Len(u)
    BY <1>1, <1>2, <1>6
  <2>5. k <= Len(u) => u[k] = s[m + k - 1]
    BY <1>1, <1>2, <1>6
  <2> QED
    BY <2>1, <2>2, <2>3, <2>4, <2>5
<1>8. u \o t = v
  BY <1>4, <1>5, <1>6, <1>7, SeqEqual DEF Text
<1> QED
  BY <1>8 DEF u, v, z

\* The end of two texts that begins in the second.
LEMMA FromSecond ==
  ASSUME NEW s \in Text, NEW t \in Text, NEW m \in 1 .. Len(t) + 1
  PROVE  From(s \o t, Len(s) + m) = From(t, m)
<1> DEFINE z == s \o t
           u == From(z, Len(s) + m)
           v == From(t, m)
<1>1. Len(s) \in Nat /\ Len(t) \in Nat
  BY DEF Text
<1>2. /\ z \in Text /\ Len(z) = Len(s) + Len(t)
      /\ \A k \in 1 .. Len(s) + Len(t) : z[k] = IF k <= Len(s) THEN s[k] ELSE t[k - Len(s)]
  BY ConcatProperties DEF Text
<1> HIDE DEF z
<1>3. /\ u \in Text /\ Len(u) = Len(z) - (Len(s) + m) + 1
      /\ \A k \in 1 .. Len(z) - (Len(s) + m) + 1 : u[k] = z[(Len(s) + m) + k - 1]
  <2>1. Len(s) + m \in 1 .. Len(z) + 1
    BY <1>1, <1>2
  <2> QED
    BY <1>2, <2>1, FromIs
<1>4. v \in Text /\ Len(v) = Len(t) - m + 1 /\ \A k \in 1 .. Len(t) - m + 1 : v[k] = t[m + k - 1]
  BY FromIs
<1> HIDE DEF u, v
<1>5. Len(u) = Len(v) /\ Len(u) = Len(z) - (Len(s) + m) + 1 /\ Len(u) = Len(t) - m + 1
  BY <1>1, <1>2, <1>3, <1>4
<1>6. \A k \in 1 .. Len(u) : u[k] = v[k]
  <2> SUFFICES ASSUME NEW k \in 1 .. Len(u) PROVE u[k] = v[k]
    OBVIOUS
  <2>1. u[k] = z[(Len(s) + m) + k - 1] /\ v[k] = t[m + k - 1]
    BY <1>3, <1>4, <1>5
  <2>2. /\ (Len(s) + m) + k - 1 \in 1 .. Len(s) + Len(t)
        /\ ~((Len(s) + m) + k - 1 <= Len(s))
        /\ (Len(s) + m) + k - 1 - Len(s) = m + k - 1
    BY <1>1, <1>5
  <2> QED
    BY <1>2, <2>1, <2>2
<1>7. u = v
  BY <1>3, <1>4, <1>5, <1>6, SeqEqual DEF Text
<1> QED
  BY <1>7 DEF u, v, z

\* What Update keeps of its output.
LastPart(x) == IF BlankLines(x) = {} THEN x ELSE SubSeq(x, Max(BlankLines(x)), Len(x))

\* Where blank lines are.
LEMMA BlankRange ==
  ASSUME NEW x \in Text
  PROVE  /\ Len(x) \in Nat /\ BlankLines(x) \in SUBSET (1 .. Len(x))
         /\ \A k : k \in BlankLines(x) <=> k \in 1 .. Len(x) - 1 /\ x[k] = Newline /\ x[k + 1] = Newline
<1>1. Len(x) \in Nat
  BY DEF Text
<1>2. \A k : k \in BlankLines(x) <=> k \in 1 .. Len(x) - 1 /\ x[k] = Newline /\ x[k + 1] = Newline
  BY DEF BlankLines
<1>3. \A k \in 1 .. Len(x) - 1 : k \in 1 .. Len(x)
  BY <1>1
<1> QED
  BY <1>1, <1>2, <1>3

\* The part that begins with the last blank line.
LEMMA LastPartIs ==
  ASSUME NEW x \in Text, NEW m \in BlankLines(x), \A k \in BlankLines(x) : k <= m
  PROVE  LastPart(x) = From(x, m) /\ Max(BlankLines(x)) = m
<1>1. Len(x) \in Nat /\ BlankLines(x) \in SUBSET (1 .. Len(x))
  BY BlankRange
<1>2. Max(BlankLines(x)) = m
  <2> DEFINE S == BlankLines(x)
  <2> HIDE DEF S
  <2>1. S \in SUBSET (1 .. Len(x)) /\ m \in S /\ \A y \in S : y <= m
    BY <1>1 DEF S
  <2>2. Max(S) = m
    BY <1>1, <2>1, MaxIs
  <2> QED
    BY <2>2 DEF S
<1>3. BlankLines(x) # {}
  OBVIOUS
<1> QED
  BY <1>2, <1>3 DEF LastPart, From

\* There is a last blank line if there is any.
LEMMA LastBlank ==
  ASSUME NEW x \in Text, BlankLines(x) # {}
  PROVE  \E m \in BlankLines(x) : \A k \in BlankLines(x) : k <= m
<1>1. Len(x) \in Nat /\ BlankLines(x) \in SUBSET (1 .. Len(x))
  BY BlankRange
<1> QED
  BY <1>1, MaxOfNat

\* A part of the output is a text.
LEMMA LastPartType ==
  ASSUME NEW x \in Text
  PROVE  LastPart(x) \in Text
<1>1. CASE BlankLines(x) = {}
  BY <1>1 DEF LastPart
<1>2. CASE BlankLines(x) # {}
  <2>1. PICK m \in BlankLines(x) : \A k \in BlankLines(x) : k <= m
    BY <1>2, LastBlank
  <2>2. LastPart(x) = From(x, m)
    BY <2>1, LastPartIs
  <2>3. m \in 1 .. Len(x) + 1
    BY BlankRange
  <2> QED
    BY <2>2, <2>3, FromIs
<1> QED
  BY <1>1, <1>2

\* The blank lines of the end of a text.
LEMMA BlankFrom ==
  ASSUME NEW x \in Text, NEW m \in 1 .. Len(x), NEW k
  PROVE  k \in BlankLines(From(x, m)) <=> k \in Nat \ {0} /\ m + k - 1 \in BlankLines(x)
<1> DEFINE y == From(x, m)
<1>1. Len(x) \in Nat /\ m \in 1 .. Len(x) + 1
  BY BlankRange
<1>2. y \in Text /\ Len(y) = Len(x) - m + 1 /\ \A j \in 1 .. Len(x) - m + 1 : y[j] = x[m + j - 1]
  BY <1>1, FromIs
<1> HIDE DEF y
<1>3. k \in BlankLines(y) <=> k \in 1 .. Len(y) - 1 /\ y[k] = Newline /\ y[k + 1] = Newline
  BY <1>2, BlankRange
<1>4. m + k - 1 \in BlankLines(x) <=>
        m + k - 1 \in 1 .. Len(x) - 1 /\ x[m + k - 1] = Newline /\ x[m + k - 1 + 1] = Newline
  BY BlankRange
<1>5. ASSUME k \in 1 .. Len(y) - 1
      PROVE  /\ k \in Nat \ {0} /\ m + k - 1 \in 1 .. Len(x) - 1
             /\ y[k] = x[m + k - 1] /\ y[k + 1] = x[m + k - 1 + 1]
  <2>1. k \in 1 .. Len(x) - m + 1 /\ k + 1 \in 1 .. Len(x) - m + 1 /\ m + (k + 1) - 1 = m + k - 1 + 1
    BY <1>1, <1>2, <1>5
  <2>2. k \in Nat \ {0} /\ m + k - 1 \in 1 .. Len(x) - 1
    BY <1>1, <1>2, <1>5
  <2>3. y[k] = x[m + k - 1] /\ y[k + 1] = x[m + (k + 1) - 1]
    BY <1>2, <2>1
  <2> QED
    BY <2>1, <2>2, <2>3
<1>6. ASSUME k \in Nat \ {0}, m + k - 1 \in 1 .. Len(x) - 1 PROVE k \in 1 .. Len(y) - 1
  BY <1>1, <1>2, <1>6
<1>7. k \in BlankLines(y) <=> k \in Nat \ {0} /\ m + k - 1 \in BlankLines(x)
  BY <1>3, <1>4, <1>5, <1>6
<1> QED
  BY <1>7 DEF y

\* What is appended does not remove blank lines.
LEMMA BlankStays ==
  ASSUME NEW x \in Text, NEW s \in Text, NEW k \in BlankLines(x)
  PROVE  k \in BlankLines(x \o s)
<1> DEFINE z == x \o s
<1>1. k \in 1 .. Len(x) - 1 /\ x[k] = Newline /\ x[k + 1] = Newline /\ Len(x) \in Nat /\ Len(s) \in Nat
  BY BlankRange
<1>2. /\ z \in Text /\ Len(z) = Len(x) + Len(s)
      /\ \A j \in 1 .. Len(x) + Len(s) : z[j] = IF j <= Len(x) THEN x[j] ELSE s[j - Len(x)]
  BY ConcatProperties DEF Text
<1> HIDE DEF z
<1>3. /\ k \in 1 .. Len(x) + Len(s) /\ k + 1 \in 1 .. Len(x) + Len(s)
      /\ k <= Len(x) /\ k + 1 <= Len(x) /\ k \in 1 .. Len(z) - 1
  BY <1>1, <1>2
<1>4. z[k] = Newline /\ z[k + 1] = Newline
  BY <1>1, <1>2, <1>3
<1>5. k \in BlankLines(z)
  BY <1>2, <1>3, <1>4, BlankRange
<1> QED
  BY <1>5 DEF z

\* Forgetting what precedes the last blank line makes no difference later.
LEMMA LastPartAppend ==
  ASSUME NEW x \in Text, NEW s \in Text, BlankLines(x) # {}
  PROVE  LastPart(LastPart(x) \o s) = LastPart(x \o s)
<1> DEFINE z == x \o s
<1>1. PICK m \in BlankLines(x) : \A k \in BlankLines(x) : k <= m
  BY LastBlank
<1>2. LastPart(x) = From(x, m)
  BY <1>1, LastPartIs
<1>3. m \in 1 .. Len(x) /\ m \in 1 .. Len(x) + 1 /\ Len(x) \in Nat
  BY BlankRange
<1>4. From(x, m) \o s = From(z, m)
  BY <1>3, FromFirst
<1>5. z \in Text
  BY ConcatProperties DEF Text
<1>6. m \in BlankLines(z)
  BY BlankStays
<1> HIDE DEF z
<1>7. PICK M \in BlankLines(z) : \A k \in BlankLines(z) : k <= M
  BY <1>5, <1>6, LastBlank
<1>8. M \in 1 .. Len(z) - 1 /\ m \in 1 .. Len(z) - 1 /\ m <= M /\ Len(z) \in Nat
  BY <1>5, <1>6, <1>7, BlankRange
<1>9. LastPart(z) = From(z, M)
  BY <1>5, <1>7, LastPartIs
<1> DEFINE y == From(z, m)
           l == M - m + 1
<1>10. m \in 1 .. Len(z) /\ m \in 1 .. Len(z) + 1 /\ l \in Nat \ {0} /\ m + l - 1 = M /\ l \in 1 .. Len(z) - m + 2
  BY <1>8
<1>11. y \in Text
  BY <1>5, <1>10, FromIs
<1>12. \A k : k \in BlankLines(y) <=> k \in Nat \ {0} /\ m + k - 1 \in BlankLines(z)
  BY <1>5, <1>10, BlankFrom
<1>13. l \in BlankLines(y) /\ \A k \in BlankLines(y) : k <= l
  <2>1. l \in BlankLines(y)
    BY <1>7, <1>10, <1>12
  <2>2. ASSUME NEW k \in BlankLines(y) PROVE k <= l
    <3>1. k \in Nat /\ m + k - 1 <= M
      BY <1>7, <1>12
    <3> QED
      BY <1>8, <3>1
  <2> QED
    BY <2>1, <2>2
<1>14. From(y, l) = From(z, M)
  <2>1. From(From(z, m), l) = From(z, m + l - 1)
    <3> HIDE DEF l
    <3> QED
      BY <1>5, <1>10, FromFrom
  <2> QED
    BY <1>10, <2>1
<1> HIDE DEF y, l
<1>15. LastPart(y) = From(y, l)
  BY <1>11, <1>13, LastPartIs
<1> QED
  BY <1>2, <1>4, <1>9, <1>14, <1>15 DEF y, z

\* An empty line after a prompt.
Blank == <<Newline, Newline>>

\* Two newlines are a blank line and nothing else.
LEMMA BlankIs ==
  /\ Blank \in Text /\ Len(Blank) = 2 /\ 1 \in BlankLines(Blank) /\ LastPart(Blank) = Blank
<1>1. Newline \in Pieces
  BY DEF Newline, Pieces
<1>2. Blank \in Text /\ Len(Blank) = 2 /\ Blank[1] = Newline /\ Blank[2] = Newline
  <2> DEFINE N == Newline
  <2> HIDE DEF N
  <2>1. N \in Pieces
    BY <1>1 DEF N
  <2>2. <<N, N>> \in Seq(Pieces) /\ Len(<<N, N>>) = 2 /\ <<N, N>>[1] = N /\ <<N, N>>[2] = N
    BY <2>1
  <2> QED
    BY <2>2 DEF Blank, Text, N
<1>3. \A k : k \in BlankLines(Blank) <=> k = 1
  <2>1. \A k : k \in 1 .. Len(Blank) - 1 <=> k = 1
    BY <1>2
  <2>2. Blank[1] = Newline /\ Blank[1 + 1] = Newline
    BY <1>2
  <2> QED
    BY <1>2, <2>1, <2>2, BlankRange
<1>4. 1 \in BlankLines(Blank) /\ \A k \in BlankLines(Blank) : k <= 1
  BY <1>3
<1>5. LastPart(Blank) = From(Blank, 1)
  BY <1>2, <1>4, LastPartIs
<1>6. From(Blank, 1) = Blank
  BY <1>2, SubSeqFull DEF From, Text
<1> QED
  BY <1>2, <1>4, <1>5, <1>6

\* After a prompt the output is an empty line, whatever there was before.
LEMMA AfterPrompt ==
  ASSUME NEW x \in Text, NEW k \in Sends
  PROVE  PromptText(k) \in Text /\ LastPart(x \o PromptText(k)) = Blank
<1> DEFINE t == PromptText(k)
           z == x \o t
<1>1. Newline \in Pieces /\ Typed(k) \in Pieces
  BY Numbers DEF Newline, Typed, Pieces
<1>2. t \in Text /\ Len(t) = 4 /\ t[3] = Newline /\ t[4] = Newline
  <2> DEFINE N == Newline
             T == Typed(k)
             u == <<N, T, N, N>>
  <2>1. t = u
    BY DEF PromptText
  <2> HIDE DEF N, T, t
  <2>2. N \in Pieces /\ T \in Pieces
    BY <1>1 DEF N, T
  <2>3. u \in Seq(Pieces) /\ Len(u) = 4 /\ u[3] = N /\ u[4] = N
    BY <2>2
  <2> QED
    BY <2>1, <2>3 DEF N, Text
<1> HIDE DEF t
<1>3. /\ z \in Text /\ Len(z) = Len(x) + 4 /\ Len(x) \in Nat
      /\ z[Len(x) + 3] = Newline /\ z[Len(x) + 4] = Newline
  <2>1. Len(x) \in Nat
    BY DEF Text
  <2>2. /\ z \in Text /\ Len(z) = Len(x) + Len(t)
        /\ \A j \in 1 .. Len(x) + Len(t) : z[j] = IF j <= Len(x) THEN x[j] ELSE t[j - Len(x)]
    BY <1>2, ConcatProperties DEF Text
  <2>3. /\ Len(x) + 3 \in 1 .. Len(x) + Len(t) /\ Len(x) + 4 \in 1 .. Len(x) + Len(t)
        /\ ~(Len(x) + 3 <= Len(x)) /\ ~(Len(x) + 4 <= Len(x))
        /\ Len(x) + 3 - Len(x) = 3 /\ Len(x) + 4 - Len(x) = 4
    BY <1>2, <2>1
  <2>4. z[Len(x) + 3] = t[3] /\ z[Len(x) + 4] = t[4]
    BY <2>2, <2>3
  <2> QED
    BY <1>2, <2>1, <2>2, <2>4
<1> HIDE DEF z
<1> DEFINE m == Len(x) + 3
<1>4. m \in BlankLines(z) /\ \A j \in BlankLines(z) : j <= m
  <2>1. m \in 1 .. Len(z) - 1 /\ m + 1 = Len(x) + 4 /\ Len(z) - 1 = m
    BY <1>3
  <2>2. \A j \in BlankLines(z) : j \in 1 .. Len(z) - 1
    BY <1>3, BlankRange
  <2>3. m \in BlankLines(z)
    BY <1>3, <2>1, BlankRange
  <2> QED
    BY <2>1, <2>2, <2>3
<1>5. LastPart(z) = From(z, m)
  BY <1>3, <1>4, LastPartIs
<1>6. From(z, m) = From(t, 3)
  <2>1. 3 \in 1 .. Len(t) + 1
    BY <1>2
  <2> QED
    BY <1>2, <2>1, FromSecond DEF z
<1>7. From(t, 3) = Blank
  <2> DEFINE v == From(t, 3)
  <2>1. v \in Text /\ Len(v) = 2 /\ v[1] = Newline /\ v[2] = Newline
    <3>1. 3 \in 1 .. Len(t) + 1 /\ Len(t) - 3 + 1 = 2
      BY <1>2
    <3>2. v \in Text /\ Len(v) = Len(t) - 3 + 1 /\ \A j \in 1 .. Len(t) - 3 + 1 : v[j] = t[3 + j - 1]
      BY <1>2, <3>1, FromIs
    <3>3. 1 \in 1 .. 2 /\ 2 \in 1 .. 2 /\ 3 + 1 - 1 = 3 /\ 3 + 2 - 1 = 4
      OBVIOUS
    <3> HIDE DEF v
    <3>4. v[1] = t[3] /\ v[2] = t[4]
      BY <3>1, <3>2, <3>3
    <3> QED
      BY <1>2, <3>1, <3>2, <3>4
  <2> HIDE DEF v
  <2>2. Blank[1] = Newline /\ Blank[2] = Newline
    BY DEF Blank
  <2>3. \A j \in 1 .. Len(v) : v[j] = Blank[j]
    <3>1. \A j \in 1 .. 2 : j = 1 \/ j = 2
      OBVIOUS
    <3> QED
      BY <2>1, <2>2, <3>1
  <2>4. v = Blank
    BY <2>1, <2>3, BlankIs, SeqEqual DEF Text
  <2> QED
    BY <2>4 DEF v
<1> QED
  BY <1>2, <1>5, <1>6, <1>7 DEF z, t

-----------------------------------------------------------------------------
(* What is taken for the answer *)

Solid(s) == {i \in DOMAIN s : s[i] # Newline}

\* The first and the last piece that is no newline.
LEMMA SolidEnds ==
  ASSUME NEW s \in Text
  PROVE  /\ Len(s) \in Nat /\ DOMAIN s = 1 .. Len(s)
         /\ Solid(s) \in SUBSET Nat /\ Solid(s) \in SUBSET (1 .. Len(s))
         /\ Solid(s) # {} => /\ Min(Solid(s)) \in Solid(s) /\ \A i \in Solid(s) : Min(Solid(s)) <= i
                             /\ Max(Solid(s)) \in Solid(s) /\ \A i \in Solid(s) : i <= Max(Solid(s))
         /\ TrimSpace(s) = IF Solid(s) = {} THEN <<>> ELSE SubSeq(s, Min(Solid(s)), Max(Solid(s)))
<1>1. Len(s) \in Nat /\ DOMAIN s = 1 .. Len(s)
  BY DEF Text
<1>2. Solid(s) \in SUBSET Nat /\ Solid(s) \in SUBSET (1 .. Len(s))
  BY <1>1 DEF Solid
<1>3. TrimSpace(s) = IF Solid(s) = {} THEN <<>> ELSE SubSeq(s, Min(Solid(s)), Max(Solid(s)))
  BY Zenon DEF TrimSpace, Solid
<1>4. ASSUME Solid(s) # {}
      PROVE  /\ Min(Solid(s)) \in Solid(s) /\ \A i \in Solid(s) : Min(Solid(s)) <= i
             /\ Max(Solid(s)) \in Solid(s) /\ \A i \in Solid(s) : i <= Max(Solid(s))
  <2>1. Min(Solid(s)) \in Solid(s) /\ \A i \in Solid(s) : Min(Solid(s)) <= i
    BY <1>2, <1>4, MinOfNat
  <2>2. Max(Solid(s)) \in Solid(s) /\ \A i \in Solid(s) : i <= Max(Solid(s))
    BY <1>1, <1>2, <1>4, MaxOfNat
  <2> QED
    BY <2>1, <2>2
<1> QED
  BY <1>1, <1>2, <1>3, <1>4

\* Trimming gives a text, and of nothing it gives nothing.
LEMMA TrimType ==
  ASSUME NEW s \in Text
  PROVE  TrimSpace(s) \in Text /\ (s = <<>> => TrimSpace(s) = <<>>)
<1>1. CASE Solid(s) = {}
  <2>1. TrimSpace(s) = <<>>
    BY <1>1, SolidEnds
  <2>2. <<>> \in Text
    BY DEF Text
  <2> QED
    BY <2>1, <2>2
<1>2. CASE Solid(s) # {}
  <2> DEFINE a == Min(Solid(s))
             b == Max(Solid(s))
  <2>1. a \in 1 .. Len(s) /\ b \in 1 .. Len(s) /\ Len(s) \in Nat /\ TrimSpace(s) = SubSeq(s, a, b)
    BY <1>2, SolidEnds
  <2> HIDE DEF a, b
  <2>2. \A i \in a .. b : s[i] \in Pieces
    BY <2>1 DEF Text
  <2>3. SubSeq(s, a, b) \in Seq(Pieces)
    BY <2>1, <2>2, SubSeqProperties
  <2>4. s # <<>>
    BY <2>1
  <2> QED
    BY <2>1, <2>3, <2>4 DEF Text
<1> QED
  BY <1>1, <1>2

\* A newline at the front is trimmed.
LEMMA TrimFront ==
  ASSUME NEW s \in Text, 1 \in 1 .. Len(s), s[1] = Newline
  PROVE  TrimSpace(From(s, 2)) = TrimSpace(s)
<1> DEFINE t == From(s, 2)
<1>1. Len(s) \in Nat /\ DOMAIN s = 1 .. Len(s)
  BY SolidEnds
<1>2. t \in Text /\ Len(t) = Len(s) - 1 /\ \A k \in 1 .. Len(s) - 1 : t[k] = s[k + 1]
  <2>1. 2 \in 1 .. Len(s) + 1 /\ Len(s) - 2 + 1 = Len(s) - 1 /\ \A k \in 1 .. Len(s) - 1 : 2 + k - 1 = k + 1
    BY <1>1
  <2>2. /\ t \in Text /\ Len(t) = Len(s) - 2 + 1
        /\ \A k \in 1 .. Len(s) - 2 + 1 : t[k] = s[2 + k - 1]
    BY <2>1, FromIs
  <2> HIDE DEF t
  <2> QED
    BY <2>1, <2>2
<1> HIDE DEF t
<1>3. DOMAIN t = 1 .. Len(s) - 1
  BY <1>2, SolidEnds
<1>4. \A k \in Solid(t) : k + 1 \in Solid(s)
  BY <1>1, <1>2, <1>3 DEF Solid
<1>5. \A k \in Solid(s) : k - 1 \in Solid(t)
  <2> SUFFICES ASSUME NEW k \in Solid(s) PROVE k - 1 \in Solid(t)
    OBVIOUS
  <2>1. k \in 1 .. Len(s) /\ s[k] # Newline
    BY <1>1 DEF Solid
  <2>2. k - 1 \in 1 .. Len(s) - 1 /\ (k - 1) + 1 = k
    BY <1>1, <2>1
  <2>3. t[k - 1] = s[k]
    BY <1>2, <2>2
  <2> QED
    BY <1>3, <2>1, <2>2, <2>3 DEF Solid
<1>6. /\ Solid(t) \in SUBSET Nat /\ Solid(t) \in SUBSET (1 .. Len(t))
      /\ Solid(s) \in SUBSET Nat /\ Solid(s) \in SUBSET (1 .. Len(s))
  BY <1>2, SolidEnds
<1>7. CASE Solid(s) = {}
  <2>1. Solid(t) = {}
    BY <1>4, <1>7
  <2> QED
    BY <1>2, <1>7, <2>1, SolidEnds DEF t
<1>8. CASE Solid(s) # {}
  <2> DEFINE a == Min(Solid(s))
             b == Max(Solid(s))
  <2>1. a \in Solid(s) /\ b \in Solid(s) /\ (\A i \in Solid(s) : a <= i) /\ \A i \in Solid(s) : i <= b
    BY <1>8, SolidEnds
  <2>2. TrimSpace(s) = SubSeq(s, a, b)
    BY <1>8, SolidEnds
  <2> HIDE DEF a, b
  <2>3. a \in 1 .. Len(s) /\ b \in 1 .. Len(s) /\ a - 1 \in Solid(t) /\ b - 1 \in Solid(t)
    BY <1>5, <1>6, <2>1
  <2>4. \A k \in Solid(t) : a - 1 <= k /\ k <= b - 1
    <3> SUFFICES ASSUME NEW k \in Solid(t) PROVE a - 1 <= k /\ k <= b - 1
      OBVIOUS
    <3>1. k \in Nat /\ a <= k + 1 /\ k + 1 <= b
      BY <1>4, <1>6, <2>1
    <3> QED
      BY <2>3, <3>1
  <2>5. Min(Solid(t)) = a - 1
    BY <1>6, <2>3, <2>4, MinIs
  <2>6. Max(Solid(t)) = b - 1
    <3>1. Len(t) \in Nat
      BY <1>2, SolidEnds
    <3> QED
      BY <1>6, <2>3, <2>4, <3>1, MaxIs
  <2>7. TrimSpace(t) = SubSeq(t, a - 1, b - 1)
    BY <1>2, <2>3, <2>5, <2>6, SolidEnds
  <2>8. SubSeq(t, a - 1, b - 1) = SubSeq(s, a, b)
    <3>1. SubSeq(t, a - 1, b - 1) = [k \in 1 .. ((b - 1) - (a - 1)) + 1 |-> t[(a - 1) + k - 1]]
      BY <2>3
    <3>2. SubSeq(s, a, b) = [k \in 1 .. (b - a) + 1 |-> s[a + k - 1]]
      BY <2>3
    <3>3. ((b - 1) - (a - 1)) + 1 = (b - a) + 1
      BY <2>3
    <3>4. \A k \in 1 .. (b - a) + 1 : t[(a - 1) + k - 1] = s[a + k - 1]
      <4> SUFFICES ASSUME NEW k \in 1 .. (b - a) + 1 PROVE t[(a - 1) + k - 1] = s[a + k - 1]
        OBVIOUS
      <4>1. a - 1 \in 1 .. Len(s) - 1
        <5>1. a - 1 \in 1 .. Len(t)
          BY <1>6, <2>3
        <5> QED
          BY <1>2, <5>1
      <4>2. (a - 1) + k - 1 \in 1 .. Len(s) - 1 /\ ((a - 1) + k - 1) + 1 = a + k - 1
        BY <1>1, <2>3, <4>1
      <4> QED
        BY <1>2, <4>2
    <3> QED
      BY <3>1, <3>2, <3>3, <3>4
  <2> QED
    BY <2>2, <2>7, <2>8 DEF t
<1> QED
  BY <1>7, <1>8

\* The text after the last blank line of an output.
AfterBlank(x) == IF BlankLines(x) = {} THEN x ELSE SubSeq(x, Max(BlankLines(x)) + 2, Len(x))

\* From the output after an empty line and the answer t, Update takes an end of
\* t, and all of t if t has no blank line.
LEMMA AnswerTaken ==
  ASSUME NEW t \in Text, NEW c, c = TrimSpace(AfterBlank(LastPart(Blank \o t)))
  PROVE  /\ c \in Text
         /\ c # <<>> => c \in EndsOf(t)
         /\ BlankLines(t) = {} => c = TrimSpace(t)
<1> DEFINE z == Blank \o t
           n == Len(t)
<1>1. n \in Nat /\ DOMAIN t = 1 .. n
  BY SolidEnds
<1>2. /\ z \in Text /\ Len(z) = 2 + n
      /\ \A k \in 1 .. 2 + n : z[k] = IF k <= 2 THEN Blank[k] ELSE t[k - 2]
  <2> DEFINE B == Blank
  <2>1. B \in Seq(Pieces) /\ Len(B) = 2 /\ t \in Seq(Pieces)
    BY BlankIs DEF Text
  <2> HIDE DEF B
  <2>2. /\ B \o t \in Seq(Pieces) /\ Len(B \o t) = Len(B) + Len(t)
        /\ \A k \in 1 .. Len(B) + Len(t) : (B \o t)[k] = IF k <= Len(B) THEN B[k] ELSE t[k - Len(B)]
    BY <2>1, ConcatProperties
  <2> QED
    BY <2>1, <2>2 DEF B, Text
<1>3. 1 \in BlankLines(z)
  BY BlankIs, BlankStays
<1> HIDE DEF z, n
<1>4. PICK M \in BlankLines(z) : \A k \in BlankLines(z) : k <= M
  BY <1>2, <1>3, LastBlank
<1>5. M \in 1 .. n + 1 /\ z[M] = Newline /\ z[M + 1] = Newline
  <2>1. M \in 1 .. Len(z) - 1 /\ z[M] = Newline /\ z[M + 1] = Newline
    BY <1>2, <1>4, BlankRange
  <2> QED
    BY <1>1, <1>2, <2>1
<1>6. LastPart(z) = From(z, M)
  BY <1>2, <1>4, LastPartIs
<1> DEFINE y == From(z, M)
<1>7. y \in Text /\ Len(y) = Len(z) - M + 1 /\ M \in 1 .. Len(z) /\ M \in 1 .. Len(z) + 1
  <2>1. M \in 1 .. Len(z) /\ M \in 1 .. Len(z) + 1
    BY <1>1, <1>2, <1>5
  <2> QED
    BY <1>2, <2>1, FromIs
<1>8. \A k : k \in BlankLines(y) <=> k \in Nat \ {0} /\ M + k - 1 \in BlankLines(z)
  BY <1>2, <1>7, BlankFrom
<1>9. 1 \in BlankLines(y) /\ \A k \in BlankLines(y) : k <= 1
  <2>1. M + 1 - 1 = M
    BY <1>5
  <2>2. 1 \in BlankLines(y)
    BY <1>4, <1>8, <2>1
  <2>3. ASSUME NEW k \in BlankLines(y) PROVE k <= 1
    <3>1. k \in Nat /\ M + k - 1 <= M
      BY <1>4, <1>8
    <3> QED
      BY <1>5, <3>1
  <2> QED
    BY <2>2, <2>3
<1>10. Max(BlankLines(y)) = 1 /\ BlankLines(y) # {}
  BY <1>7, <1>9, LastPartIs
<1>11. AfterBlank(y) = From(y, 3)
  <2> HIDE DEF y
  <2>1. Max(BlankLines(y)) + 2 = 3
    BY <1>10
  <2> QED
    BY <1>10, <2>1, Zenon DEF AfterBlank, From
<1>12. From(y, 3) = From(t, M)
  <2>1. 3 \in 1 .. Len(z) - M + 2 /\ M + 3 - 1 = 2 + M
    BY <1>1, <1>2, <1>5
  <2>2. From(From(z, M), 3) = From(z, M + 3 - 1)
    BY <1>2, <1>7, <2>1, FromFrom
  <2>3. From(z, 2 + M) = From(t, M)
    <3>1. M \in 1 .. Len(t) + 1
      BY <1>5 DEF n
    <3>2. From(Blank \o t, Len(Blank) + M) = From(t, M)
      BY <3>1, BlankIs, FromSecond
    <3> QED
      BY <3>2, BlankIs DEF z
  <2> QED
    BY <2>1, <2>2, <2>3
<1>13. c = TrimSpace(From(t, M))
  BY <1>6, <1>11, <1>12 DEF z
<1>14. From(t, M) \in Text /\ Len(From(t, M)) = n - M + 1
  BY <1>5, FromIs DEF n
<1>15. c \in Text
  BY <1>13, <1>14, TrimType
<1>16. ASSUME c # <<>> PROVE c \in EndsOf(t)
  <2>1. From(t, M) # <<>>
    BY <1>13, <1>14, <1>16, TrimType
  <2>2. M # n + 1
    <3> SUFFICES ASSUME M = n + 1 PROVE FALSE
      OBVIOUS
    <3>1. Len(From(t, M)) = 0
      BY <1>1, <1>14
    <3> QED
      BY <1>14, <2>1, <3>1, EmptySeq DEF Text
  <2>3. M \in DOMAIN t
    BY <1>1, <1>5, <2>2
  <2> QED
    BY <1>13, <2>3 DEF EndsOf, From
<1>17. ASSUME BlankLines(t) = {} PROVE c = TrimSpace(t)
  <2>1. M <= 2
    <3> SUFFICES ASSUME ~(M <= 2) PROVE FALSE
      OBVIOUS
    <3>1. M - 2 \in 1 .. Len(t) - 1 /\ M \in 1 .. 2 + n /\ M + 1 \in 1 .. 2 + n /\ ~(M + 1 <= 2)
          /\ M + 1 - 2 = (M - 2) + 1
      BY <1>1, <1>5 DEF n
    <3>2. z[M] = t[M - 2] /\ z[M + 1] = t[(M - 2) + 1]
      BY <1>2, <3>1
    <3>3. M - 2 \in BlankLines(t)
      BY <1>5, <3>1, <3>2, BlankRange
    <3> QED
      BY <1>17, <3>3
  <2>2. CASE M = 1
    <3>1. From(t, 1) = t
      BY SubSeqFull DEF From, Text
    <3> QED
      BY <1>13, <2>2, <3>1
  <2>3. CASE M = 2
    <3>1. 1 \in 1 .. Len(t) /\ 3 \in 1 .. 2 + n /\ ~(3 <= 2) /\ 3 - 2 = 1 /\ 2 + 1 = 3
      BY <1>1, <1>5, <2>3 DEF n
    <3>2. t[1] = Newline
      BY <1>2, <1>5, <2>3, <3>1
    <3>3. TrimSpace(From(t, 2)) = TrimSpace(t)
      BY <3>1, <3>2, TrimFront
    <3> QED
      BY <1>13, <2>3, <3>3
  <2>4. M = 1 \/ M = 2
    BY <1>5, <2>1
  <2> QED
    BY <2>2, <2>3, <2>4
<1> QED
  BY <1>15, <1>16, <1>17

-----------------------------------------------------------------------------
(* What is still in the channel *)

\* s and the texts of the events of q, one after the other, make t.
Joins(s, q, t) ==
  \E g \in [0 .. Len(q) -> Text] :
    g[0] = s /\ g[Len(q)] = t /\ \A i \in 1 .. Len(q) : g[i] = g[i - 1] \o q[i].text

\* Nothing is left.
LEMMA JoinsNothing ==
  ASSUME NEW s \in Text, NEW t
  PROVE  Joins(s, <<>>, t) <=> s = t
<1>1. Len(<<>>) = 0 /\ 0 \in 0 .. 0 /\ 1 .. 0 = {}
  OBVIOUS
<1>2. ASSUME Joins(s, <<>>, t) PROVE s = t
  BY <1>1, <1>2 DEF Joins
<1>3. ASSUME s = t PROVE Joins(s, <<>>, t)
  <2> DEFINE g == [i \in 0 .. 0 |-> s]
  <2>1. g \in [0 .. 0 -> Text] /\ g[0] = s /\ g[0] = t
    BY <1>3
  <2> HIDE DEF g
  <2>2. g \in [0 .. Len(<<>>) -> Text] /\ g[Len(<<>>)] = t /\ \A i \in 1 .. Len(<<>>) : g[i] = g[i - 1] \o <<>>[i].text
    BY <1>1, <2>1
  <2> QED
    BY <2>1, <2>2 DEF Joins
<1> QED
  BY <1>2, <1>3

\* One event more at the end.
LEMMA JoinsPush ==
  ASSUME NEW s, NEW q \in Seq(Event), NEW t \in Text, NEW e \in Event, Joins(s, q, t)
  PROVE  t \o e.text \in Text /\ Joins(s, Append(q, e), t \o e.text)
<1> DEFINE n == Len(q)
           p == Append(q, e)
           u == t \o e.text
<1>1. n \in Nat /\ Len(p) = n + 1 /\ p[n + 1] = e /\ \A i \in 1 .. n : p[i] = q[i]
  OBVIOUS
<1>2. u \in Text
  <2>1. e.text \in Seq(Pieces) /\ t \in Seq(Pieces)
    BY DEF Event, Text
  <2> QED
    BY <2>1 DEF Text
<1>3. PICK g \in [0 .. n -> Text] : g[0] = s /\ g[n] = t /\ \A i \in 1 .. n : g[i] = g[i - 1] \o q[i].text
  BY DEF Joins
<1> DEFINE h == [i \in 0 .. n + 1 |-> IF i = n + 1 THEN u ELSE g[i]]
<1> HIDE DEF n, p
<1>4. h \in [0 .. n + 1 -> Text] /\ h[n + 1] = u /\ (\A i \in 0 .. n : h[i] = g[i])
  <2> HIDE DEF u
  <2>1. \A i \in 0 .. n + 1 : i = n + 1 \/ i \in 0 .. n
    BY <1>1
  <2>2. \A i \in 0 .. n : i # n + 1 /\ i \in 0 .. n + 1
    BY <1>1
  <2> QED
    BY <1>1, <1>2, <1>3, <2>1, <2>2
<1> HIDE DEF h
<1>5. \A i \in 1 .. n + 1 : h[i] = h[i - 1] \o p[i].text
  <2> SUFFICES ASSUME NEW i \in 1 .. n + 1 PROVE h[i] = h[i - 1] \o p[i].text
    OBVIOUS
  <2>1. CASE i = n + 1
    <3>1. i - 1 = n /\ n \in 0 .. n
      BY <1>1, <2>1
    <3>2. h[i - 1] = t /\ p[i] = e /\ h[i] = t \o e.text
      BY <1>1, <1>3, <1>4, <2>1, <3>1
    <3> QED
      BY <3>2
  <2>2. CASE i # n + 1
    <3>1. i \in 1 .. n /\ i \in 0 .. n /\ i - 1 \in 0 .. n
      BY <1>1, <2>2
    <3>2. h[i] = g[i] /\ h[i - 1] = g[i - 1] /\ p[i] = q[i]
      BY <1>1, <1>4, <3>1
    <3> QED
      BY <1>3, <3>1, <3>2
  <2> QED
    BY <2>1, <2>2
<1>6. h[0] = s
  <2>1. 0 \in 0 .. n
    BY <1>1
  <2> QED
    BY <1>3, <1>4, <2>1
<1>7. Joins(s, p, u)
  <2> HIDE DEF u
  <2> QED
    BY <1>1, <1>4, <1>5, <1>6 DEF Joins
<1> QED
  BY <1>2, <1>7 DEF p

\* The first event is taken.
LEMMA JoinsTake ==
  ASSUME NEW s \in Text, NEW q \in Seq(Event), NEW t, q # <<>>, Joins(s, q, t)
  PROVE  s \o Head(q).text \in Text /\ Joins(s \o Head(q).text, Tail(q), t)
<1> DEFINE n == Len(q)
           p == Tail(q)
           u == s \o Head(q).text
<1>1. n \in Nat \ {0} /\ Len(p) = n - 1 /\ Head(q) = q[1] /\ \A i \in 1 .. n - 1 : p[i] = q[i + 1]
  OBVIOUS
<1>2. PICK g \in [0 .. n -> Text] : g[0] = s /\ g[n] = t /\ \A i \in 1 .. n : g[i] = g[i - 1] \o q[i].text
  BY DEF Joins
<1> DEFINE h == [i \in 0 .. n - 1 |-> g[i + 1]]
<1> HIDE DEF n, p, u
<1>3. h \in [0 .. n - 1 -> Text] /\ \A i \in 0 .. n - 1 : h[i] = g[i + 1]
  <2>1. \A i \in 0 .. n - 1 : i + 1 \in 0 .. n
    BY <1>1
  <2> QED
    BY <1>2, <2>1
<1> HIDE DEF h
<1>4. h[0] = u /\ u \in Text
  <2>1. 0 \in 0 .. n - 1 /\ 0 + 1 = 1 /\ 1 \in 1 .. n /\ 1 - 1 = 0
    BY <1>1
  <2>2. h[0] = g[1] /\ g[1] = g[0] \o q[1].text
    BY <1>2, <1>3, <2>1
  <2>3. h[0] \in Text
    BY <1>3, <2>1
  <2> QED
    BY <1>1, <1>2, <2>2, <2>3 DEF u
<1>5. h[n - 1] = t
  <2>1. n - 1 \in 0 .. n - 1 /\ (n - 1) + 1 = n
    BY <1>1
  <2> QED
    BY <1>2, <1>3, <2>1
<1>6. \A i \in 1 .. n - 1 : h[i] = h[i - 1] \o p[i].text
  <2> SUFFICES ASSUME NEW i \in 1 .. n - 1 PROVE h[i] = h[i - 1] \o p[i].text
    OBVIOUS
  <2>1. i \in 0 .. n - 1 /\ i - 1 \in 0 .. n - 1 /\ (i - 1) + 1 = i /\ i + 1 \in 1 .. n /\ (i + 1) - 1 = i
    BY <1>1
  <2>2. h[i] = g[i + 1] /\ h[i - 1] = g[i] /\ p[i] = q[i + 1]
    BY <1>1, <1>3, <2>1
  <2>3. g[i + 1] = g[i] \o q[i + 1].text
    BY <1>2, <2>1
  <2> QED
    BY <2>2, <2>3
<1>7. Joins(u, p, t)
  BY <1>1, <1>3, <1>4, <1>5, <1>6 DEF Joins
<1> QED
  BY <1>4, <1>7 DEF p, u

-----------------------------------------------------------------------------
(* The conversation *)

Message == [role : {"user", "assistant"}, send : Sends, content : Text]

\* The answers to send k in the conversation ms.
AnswersIn(ms, k) == {i \in DOMAIN ms : i > 1 /\ ms[i].role = "assistant"
                                             /\ ms[i - 1].role = "user" /\ ms[i - 1].send = k}

\* It only grows: its messages stay where they are, and so do the answers.
LEMMA Grows ==
  ASSUME NEW ms \in Seq(Message), NEW e \in Message
  PROVE  /\ Append(ms, e) \in Seq(Message) /\ Len(ms) \in Nat
         /\ DOMAIN ms = 1 .. Len(ms) /\ DOMAIN Append(ms, e) = 1 .. Len(ms) + 1
         /\ Len(Append(ms, e)) = Len(ms) + 1 /\ Append(ms, e)[Len(ms) + 1] = e
         /\ \A i \in 1 .. Len(ms) : Append(ms, e)[i] = ms[i]
         /\ \A k \in Sends : AnswersIn(ms, k) \subseteq AnswersIn(Append(ms, e), k)
<1>1. /\ Append(ms, e) \in Seq(Message) /\ Len(ms) \in Nat
      /\ DOMAIN ms = 1 .. Len(ms) /\ DOMAIN Append(ms, e) = 1 .. Len(ms) + 1
      /\ Len(Append(ms, e)) = Len(ms) + 1 /\ Append(ms, e)[Len(ms) + 1] = e
      /\ \A i \in 1 .. Len(ms) : Append(ms, e)[i] = ms[i]
  OBVIOUS
<1> DEFINE p == Append(ms, e)
<1> HIDE DEF p
<1>2. ASSUME NEW k \in Sends, NEW i \in AnswersIn(ms, k) PROVE i \in AnswersIn(p, k)
  <2>1. i \in 1 .. Len(ms) /\ i > 1 /\ ms[i].role = "assistant" /\ ms[i - 1].role = "user" /\ ms[i - 1].send = k
    BY <1>1 DEF AnswersIn
  <2>2. i \in DOMAIN p /\ i - 1 \in 1 .. Len(ms)
    BY <1>1, <2>1 DEF p
  <2>3. p[i] = ms[i] /\ p[i - 1] = ms[i - 1]
    BY <1>1, <2>1, <2>2 DEF p
  <2> QED
    BY <2>1, <2>2, <2>3 DEF AnswersIn
<1> QED
  BY <1>1, <1>2 DEF p

-----------------------------------------------------------------------------
(* The turns of an orderly user *)

TextTypes == output \in Text /\ text \in [Sends -> Text] /\ msgs \in Seq(Message)

\* A turn is over when its prompt was sent, or failed, and nothing is shown.
Over(k) == sending[k] = "over" /\ streamCh # k

\* What the reader of stream k has taken and Update has not.
Brought(k) == IF reader[k] = "bringing" THEN event[k].text ELSE <<>>

\* While a turn is live its prompt is the last message ...
Asking(k) == Live(k) => Len(msgs) > 0 /\ msgs[Len(msgs)].role = "user" /\ msgs[Len(msgs)].send = k

\* ... a stream that has not begun sent nothing ...
Fresh(k) == source[k] = "none" => text[k] = <<>> /\ channel[k] = <<>>

\* ... and the output after the prompt's blank line, the event that its reader
\* brings and its channel make up what the stream has sent.
Flows(s, k) == output = LastPart(Blank \o s) /\ Joins(s \o Brought(k), channel[k], text[k])

Flowing(k) == Live(k) => \E s \in Text : Flows(s, k)

\* The assistant messages are answers of turns that are over, ...
Kept == \A i \in DOMAIN msgs : msgs[i].role = "assistant" =>
          \E k \in Sends : Over(k) /\ i \in AnswersIn(msgs, k) /\ msgs[i].content \in EndsOf(text[k])

\* ... and such a turn has its answer.
Whole(k) ==
  /\ Over(k) /\ source[k] = "closed" /\ TrimSpace(text[k]) # <<>> /\ BlankLines(text[k]) = {}
  => \E i \in AnswersIn(msgs, k) : msgs[i].content = TrimSpace(text[k])

Turns == /\ TextTypes /\ Kept
         /\ \A k \in Sends : Asking(k) /\ Fresh(k) /\ Flowing(k) /\ Whole(k)

TurnInv == ~hasty => Turns

\* The assistant messages of a step that adds none.
LEMMA KeptStays ==
  ASSUME Kept, UNCHANGED msgs, \A j \in Sends : Over(j) => Over(j)' /\ text'[j] = text[j]
  PROVE  Kept'
<1> SUFFICES ASSUME NEW i \in DOMAIN msgs, msgs[i].role = "assistant"
             PROVE  \E k \in Sends : Over(k)' /\ i \in AnswersIn(msgs, k) /\ msgs[i].content \in EndsOf(text'[k])
  BY DEF Kept
<1>1. PICK k \in Sends : Over(k) /\ i \in AnswersIn(msgs, k) /\ msgs[i].content \in EndsOf(text[k])
  BY DEF Kept
<1>2. Over(k)' /\ text'[k] = text[k]
  BY <1>1
<1> QED
  BY <1>1, <1>2

\* The answers of a step in which no turn ends.
LEMMA WholeStays ==
  ASSUME NEW k \in Sends, Whole(k), UNCHANGED msgs,
         Over(k)' /\ source'[k] = "closed" => Over(k) /\ source[k] = "closed" /\ text'[k] = text[k]
  PROVE  Whole(k)'
<1> SUFFICES ASSUME Over(k)', source'[k] = "closed", TrimSpace(text'[k]) # <<>>, BlankLines(text'[k]) = {}
             PROVE  \E i \in AnswersIn(msgs, k) : msgs[i].content = TrimSpace(text'[k])
  BY DEF Whole
<1>1. Over(k) /\ source[k] = "closed" /\ text'[k] = text[k]
  OBVIOUS
<1> QED
  BY <1>1 DEF Whole

\* A live turn whose stream stays as it is.
LEMMA FlowStays ==
  ASSUME NEW k \in Sends, Flowing(k), Live(k)' => Live(k), Live(k)' => Brought(k)' = Brought(k),
         UNCHANGED output, channel'[k] = channel[k], text'[k] = text[k]
  PROVE  Flowing(k)'
<1> SUFFICES ASSUME Live(k)' PROVE \E s \in Text : Flows(s, k)'
  BY DEF Flowing
<1>1. PICK s \in Text : Flows(s, k)
  BY DEF Flowing
<1>2. Brought(k)' = Brought(k)
  OBVIOUS
<1> QED
  BY <1>1, <1>2 DEF Flows

\* The router answers.
LEMMA PostTurns ==
  ASSUME Orderly, Turns, NEW k \in Sends, PostSucceeds(k) \/ PostFails(k)
  PROVE  Turns'
<1>1. /\ sending[k] = "posting"
      /\ sending' = [sending EXCEPT ![k] = "started"] \/ sending' = [sending EXCEPT ![k] = "failed"]
      /\ UNCHANGED <<streamCh, channel, reader, event, text, msgs, output>>
      /\ sending \in [Sends -> {"unused", "posting", "started", "failed", "over"}]
      /\ \A j \in Sends : source'[j] # source[j] => source'[j] = "parsing"
  BY DEF PostSucceeds, PostFails, uiVars, sourceVars, readerVars, Orderly, StreamTypes
<1>2. \A j \in Sends : (Live(j)' => Live(j)) /\ (Over(j)' <=> Over(j)) /\ Brought(j)' = Brought(j)
  BY <1>1 DEF Live, Pending, Over, Brought
<1>3. TextTypes'
  BY <1>1 DEF Turns, TextTypes
<1>4. Kept'
  BY <1>1, <1>2, KeptStays DEF Turns
<1>5. ASSUME NEW j \in Sends PROVE Asking(j)' /\ Fresh(j)' /\ Flowing(j)' /\ Whole(j)'
  <2>1. Asking(j) /\ Fresh(j) /\ Flowing(j) /\ Whole(j)
    BY DEF Turns
  <2>2. Asking(j)' /\ Fresh(j)'
    BY <1>1, <1>2, <2>1 DEF Asking, Fresh
  <2>3. Flowing(j)'
    BY <1>1, <1>2, <2>1, FlowStays
  <2>4. Whole(j)'
    BY <1>1, <1>2, <2>1, WholeStays
  <2> QED
    BY <2>2, <2>3, <2>4
<1> QED
  BY <1>3, <1>4, <1>5 DEF Turns

\* The goroutine of Send goes on: its turn is not over, and what it sends goes
\* to the channel.
LEMMA SourceTurns ==
  ASSUME Orderly, Turns, ~hasty, NEW k \in Sends, ParseDelta(k) \/ ParseError(k) \/ Close(k)
  PROVE  Turns'
<1>1. /\ source[k] \in {"parsing", "ending"} /\ source'[k] # "none"
      /\ UNCHANGED <<streamCh, sending, reader, event, msgs, output>>
      /\ \A j \in Sends \ {k} : channel'[j] = channel[j] /\ source'[j] = source[j]
  <2>1. source \in [Sends -> {"none", "parsing", "ending", "closed"}] /\ channel \in [Sends -> Seq(Event)]
    BY DEF Orderly, StreamTypes
  <2> QED
    BY <2>1 DEF ParseDelta, ParseError, Close, Push, uiVars, readerVars
<1>2. \/ channel'[k] = channel[k] /\ text' = text
      \/ \E e \in Event : /\ channel'[k] = Append(channel[k], e)
                          /\ text' = [text EXCEPT ![k] = @ \o e.text]
  <2>1. CASE Close(k)
    BY <2>1 DEF Close
  <2>2. ASSUME NEW e \in Event, Push(k, e)
        PROVE  channel'[k] = Append(channel[k], e) /\ text' = [text EXCEPT ![k] = @ \o e.text]
    <3>1. channel \in [Sends -> Seq(Event)]
      BY DEF Orderly, StreamTypes
    <3> QED
      BY <2>2, <3>1 DEF Push
  <2>3. CASE ParseError(k)
    BY <2>2, <2>3, Numbers DEF ParseError
  <2>4. CASE ParseDelta(k)
    <3>1. deltas[k] \in Nat
      BY DEF Orderly, StreamTypes
    <3>2. PICK s \in Contents(Word(k, deltas[k] + 1)) : Push(k, Delta(s))
      BY <2>4 DEF ParseDelta
    <3>3. Delta(s) \in Event
      BY <3>1, <3>2, Numbers
    <3> QED
      BY <2>2, <3>2, <3>3
  <2> QED
    BY <2>1, <2>3, <2>4
<1>3. \A j \in Sends : (Live(j)' <=> Live(j)) /\ (Over(j)' <=> Over(j)) /\ Brought(j)' = Brought(j)
  BY <1>1 DEF Live, Pending, Over, Brought
<1>4. ~Over(k) /\ Live(k)
  <2>1. Lifecycle(k)
    BY DEF Orderly
  <2> QED
    BY <1>1, <2>1 DEF Lifecycle, Over, Live, Pending
<1>5. text \in [Sends -> Text] /\ channel[k] \in Seq(Event)
  BY DEF Turns, TextTypes, Orderly, StreamTypes
<1>6. \A j \in Sends \ {k} : text'[j] = text[j]
  BY <1>2, <1>5
<1>7. Flowing(k)' /\ text' \in [Sends -> Text]
  <2>1. PICK s \in Text : Flows(s, k)
    BY <1>4 DEF Turns, Flowing
  <2>2. CASE channel'[k] = channel[k] /\ text' = text
    <3>1. Flows(s, k)'
      BY <1>1, <1>3, <2>1, <2>2 DEF Flows
    <3> QED
      BY <1>5, <2>2, <3>1 DEF Flowing
  <2>3. CASE \E e \in Event : channel'[k] = Append(channel[k], e) /\ text' = [text EXCEPT ![k] = @ \o e.text]
    <3>1. PICK e \in Event : channel'[k] = Append(channel[k], e) /\ text' = [text EXCEPT ![k] = @ \o e.text]
      BY <2>3
    <3>2. PICK b : b = s \o Brought(k)
      OBVIOUS
    <3>3. PICK q \in Seq(Event) : q = channel[k]
      BY <1>5
    <3>4. PICK t \in Text : t = text[k]
      BY <1>5
    <3>5. Joins(b, q, t)
      BY <2>1, <3>2, <3>3, <3>4 DEF Flows
    <3>6. t \o e.text \in Text /\ Joins(b, Append(q, e), t \o e.text)
      BY <3>5, JoinsPush
    <3>7. text'[k] = t \o e.text /\ channel'[k] = Append(q, e)
      BY <1>5, <3>1, <3>3, <3>4
    <3>8. Joins(s \o Brought(k)', channel'[k], text'[k])
      BY <1>3, <3>2, <3>6, <3>7
    <3>9. Flows(s, k)'
      BY <1>1, <2>1, <3>8 DEF Flows
    <3>10. text' \in [Sends -> Text]
      BY <1>5, <3>1, <3>4, <3>6
    <3> QED
      BY <3>9, <3>10 DEF Flowing
  <2> QED
    BY <1>2, <2>2, <2>3
<1>8. TextTypes'
  BY <1>1, <1>7 DEF Turns, TextTypes
<1>9. Kept'
  BY <1>1, <1>3, <1>4, <1>6, KeptStays DEF Turns
<1>10. ASSUME NEW j \in Sends PROVE Asking(j)' /\ Fresh(j)' /\ Flowing(j)' /\ Whole(j)'
  <2>1. Asking(j) /\ Fresh(j) /\ Flowing(j) /\ Whole(j)
    BY DEF Turns
  <2>2. Asking(j)'
    BY <1>1, <1>3, <2>1 DEF Asking
  <2>3. Fresh(j)'
    BY <1>1, <1>6, <2>1 DEF Fresh
  <2>4. Flowing(j)'
    <3>1. CASE j = k
      BY <1>7, <3>1
    <3>2. CASE j # k
      BY <1>1, <1>3, <1>6, <2>1, <3>2, FlowStays
    <3> QED
      BY <3>1, <3>2
  <2>5. Whole(j)'
    BY <1>1, <1>3, <1>4, <1>6, <2>1, WholeStays
  <2> QED
    BY <2>2, <2>3, <2>4, <2>5
<1> QED
  BY <1>8, <1>9, <1>10 DEF Turns

\* The reader takes an event from the channel of its stream.
LEMMA ReceiveTurns ==
  ASSUME Orderly, Turns, NEW k \in Sends, Receive(k)
  PROVE  Turns'
<1>1. /\ reader[k] = "waiting" /\ UNCHANGED <<streamCh, sending, source, text, msgs, output>>
      /\ reader' = [reader EXCEPT ![k] = "bringing"]
      /\ reader \in [Sends -> {"none", "waiting", "bringing"}]
      /\ channel \in [Sends -> Seq(Event)]
      /\ event \in [Sends -> Event \cup {Done}]
  BY DEF Receive, uiVars, Orderly, StreamTypes
<1>2. reads[k] = k /\ streamCh = k
  BY <1>1 DEF Orderly, Lifecycle
<1>3. /\ \A j \in Sends \ {k} : channel'[j] = channel[j] /\ event'[j] = event[j]
      /\ \/ channel[k] # <<>> /\ event'[k] = Head(channel[k]) /\ channel'[k] = Tail(channel[k])
         \/ channel[k] = <<>> /\ event'[k] = Done /\ channel'[k] = channel[k]
  BY <1>1, <1>2 DEF Receive
<1>4. \A j \in Sends : (Live(j)' <=> Live(j)) /\ (Over(j)' <=> Over(j))
  BY <1>1 DEF Live, Pending, Over
<1>5. Live(k) /\ Brought(k) = <<>> /\ Brought(k)' = event'[k].text
  BY <1>1, <1>2 DEF Live, Brought
<1>6. \A j \in Sends \ {k} : Brought(j)' = Brought(j)
  BY <1>1, <1>3 DEF Brought
<1>7. Flowing(k)'
  <2>1. PICK s \in Text : Flows(s, k)
    BY <1>5 DEF Turns, Flowing
  <2>2. s \o <<>> = s
    BY ConcatEmptySeq DEF Text
  <2>3. Joins(s, channel[k], text[k])
    BY <1>5, <2>1, <2>2 DEF Flows
  <2>4. Joins(s \o event'[k].text, channel'[k], text[k])
    <3>1. CASE channel[k] # <<>> /\ event'[k] = Head(channel[k]) /\ channel'[k] = Tail(channel[k])
      <4>1. PICK q \in Seq(Event) : q = channel[k]
        BY <1>1
      <4>2. Joins(s \o Head(q).text, Tail(q), text[k])
        BY <2>3, <3>1, <4>1, JoinsTake
      <4> QED
        BY <3>1, <4>1, <4>2
    <3>2. CASE channel[k] = <<>> /\ event'[k] = Done /\ channel'[k] = channel[k]
      <4>1. event'[k].text = <<>>
        BY <3>2 DEF Done
      <4> QED
        BY <2>2, <2>3, <3>2, <4>1
    <3> QED
      BY <1>3, <3>1, <3>2
  <2>5. Flows(s, k)'
    BY <1>1, <1>5, <2>1, <2>4 DEF Flows
  <2> QED
    BY <2>5 DEF Flowing
<1>8. TextTypes'
  BY <1>1 DEF Turns, TextTypes
<1>9. Kept'
  BY <1>1, <1>4, KeptStays DEF Turns
<1>10. ASSUME NEW j \in Sends PROVE Asking(j)' /\ Fresh(j)' /\ Flowing(j)' /\ Whole(j)'
  <2>1. Asking(j) /\ Fresh(j) /\ Flowing(j) /\ Whole(j)
    BY DEF Turns
  <2>2. Asking(j)'
    BY <1>1, <1>4, <2>1 DEF Asking
  <2>3. Fresh(j)'
    BY <1>1, <1>3, <2>1 DEF Fresh
  <2>4. Flowing(j)'
    <3>1. CASE j = k
      BY <1>7, <3>1
    <3>2. CASE j # k
      BY <1>1, <1>3, <1>4, <1>6, <2>1, <3>2, FlowStays
    <3> QED
      BY <3>1, <3>2
  <2>5. Whole(j)'
    BY <1>1, <1>4, <2>1, WholeStays
  <2> QED
    BY <2>2, <2>3, <2>4, <2>5
<1> QED
  BY <1>8, <1>9, <1>10 DEF Turns

\* The stream begins to be shown.
LEMMA StartedTurns ==
  ASSUME Orderly, Turns, NEW k \in Sends, OnStarted(k)
  PROVE  Turns'
<1>1. /\ sending[k] = "started" /\ streamCh' = k
      /\ sending' = [sending EXCEPT ![k] = "over"]
      /\ reader' = [reader EXCEPT ![k] = "waiting"]
      /\ event' = [event EXCEPT ![k] = Done]
      /\ UNCHANGED <<source, channel, text, msgs, output>>
  BY DEF OnStarted, WaitForStream, sourceVars
<1>2. /\ streamCh \in Sends \cup {NoStream}
      /\ sending \in [Sends -> {"unused", "posting", "started", "failed", "over"}]
      /\ reader \in [Sends -> {"none", "waiting", "bringing"}]
      /\ event \in [Sends -> Event \cup {Done}]
  BY DEF Orderly, StreamTypes
<1>3. Live(k) /\ \A j \in Sends : Live(j) => j = k
  BY <1>1 DEF Orderly, Live, Pending
<1>4. \A j \in Sends : streamCh # j
  BY <1>1, <1>3 DEF Orderly, Lifecycle, Live
<1>5. \A j \in Sends : (Live(j)' => j = k) /\ (Over(j)' <=> Over(j))
  BY <1>1, <1>2, <1>3, <1>4 DEF Live, Pending, Over
<1>6. reader[k] # "bringing"
  BY <1>4 DEF Orderly, Lifecycle
<1>7. Brought(k)' = Brought(k)
  BY <1>1, <1>2, <1>6 DEF Brought
<1>8. TextTypes'
  BY <1>1 DEF Turns, TextTypes
<1>9. Kept'
  BY <1>1, <1>5, KeptStays DEF Turns
<1>10. ASSUME NEW j \in Sends PROVE Asking(j)' /\ Fresh(j)' /\ Flowing(j)' /\ Whole(j)'
  <2>1. Asking(j) /\ Fresh(j) /\ Flowing(j) /\ Whole(j)
    BY DEF Turns
  <2>2. Asking(j)' /\ Fresh(j)'
    BY <1>1, <1>3, <1>5, <2>1 DEF Asking, Fresh
  <2>3. Flowing(j)'
    BY <1>1, <1>3, <1>5, <1>7, <2>1, FlowStays
  <2>4. Whole(j)'
    BY <1>1, <1>5, <2>1, WholeStays
  <2> QED
    BY <2>2, <2>3, <2>4
<1> QED
  BY <1>8, <1>9, <1>10 DEF Turns

\* What appendOutput does.
LEMMA Appended ==
  ASSUME NEW s, appendOutput(s)
  PROVE  output' = LastPart(output \o s)
<1>1. output' = IF BlankLines(output \o s) = {} THEN output \o s
                ELSE SubSeq(output \o s, Max(BlankLines(output \o s)), Len(output \o s))
  BY Zenon DEF appendOutput
<1> QED
  BY <1>1, Zenon DEF LastPart, From

\* A prompt could not be sent: no turn is live, and this one has no stream.
LEMMA SendErrorTurns ==
  ASSUME Orderly, Turns, NEW k \in Sends, OnSendError(k)
  PROVE  Turns'
<1>1. /\ sending[k] = "failed" /\ sending' = [sending EXCEPT ![k] = "over"]
      /\ UNCHANGED <<streamCh, source, channel, reader, event, text, msgs>>
      /\ appendOutput(SendErrorText)
      /\ sending \in [Sends -> {"unused", "posting", "started", "failed", "over"}]
  BY DEF OnSendError, sourceVars, readerVars, Orderly, StreamTypes
<1>2. Live(k) /\ \A j \in Sends : Live(j) => j = k
  BY <1>1 DEF Orderly, Live, Pending
<1>3. streamCh # k /\ source[k] = "none"
  BY <1>1 DEF Orderly, Lifecycle
<1>4. \A j \in Sends : ~Live(j)' /\ (Over(j) => Over(j)') /\ (Over(j)' => Over(j) \/ j = k)
  BY <1>1, <1>2, <1>3 DEF Live, Pending, Over
<1>5. TextTypes'
  <2>1. Newline \in Pieces /\ ErrorText \in Pieces
    BY DEF Newline, ErrorText, Pieces
  <2>2. ASSUME NEW P, NEW a \in P, NEW b \in P PROVE <<a, b>> \in Seq(P)
    OBVIOUS
  <2>3. SendErrorText \in Seq(Pieces)
    BY <2>1, <2>2, Zenon DEF SendErrorText
  <2>4. output \o SendErrorText \in Text
    <3>1. output \in Seq(Pieces)
      BY DEF Turns, TextTypes, Text
    <3>2. output \o SendErrorText \in Seq(Pieces)
      BY <2>3, <3>1, ConcatProperties
    <3> QED
      BY <3>2 DEF Text
  <2>5. output' \in Text
    BY <1>1, <2>4, Appended, LastPartType
  <2> QED
    BY <1>1, <2>5 DEF Turns, TextTypes
<1>6. Kept'
  BY <1>1, <1>4, KeptStays DEF Turns
<1>7. ASSUME NEW j \in Sends PROVE Asking(j)' /\ Fresh(j)' /\ Flowing(j)' /\ Whole(j)'
  <2>1. Fresh(j) /\ Whole(j)
    BY DEF Turns
  <2>2. Asking(j)' /\ Fresh(j)' /\ Flowing(j)'
    BY <1>1, <1>4, <2>1 DEF Asking, Fresh, Flowing
  <2>3. Whole(j)'
    BY <1>1, <1>3, <1>4, <2>1, WholeStays
  <2> QED
    BY <2>2, <2>3
<1> QED
  BY <1>5, <1>6, <1>7 DEF Turns

\* A delta or an error is shown: it moves from the reader to the output.
LEMMA EventTurns ==
  ASSUME Orderly, Turns, NEW k \in Sends, OnEvent(k)
  PROVE  Turns'
<1>1. /\ reader[k] = "bringing" /\ event[k].kind # "done"
      /\ reader' = [reader EXCEPT ![k] = "waiting"]
      /\ event' = [event EXCEPT ![k] = Done]
      /\ UNCHANGED <<streamCh, sending, source, channel, text, msgs>>
      /\ appendOutput(event[k].text)
  BY DEF OnEvent, WaitForStream, sourceVars
<1>2. /\ reader \in [Sends -> {"none", "waiting", "bringing"}]
      /\ event \in [Sends -> Event \cup {Done}]
  BY DEF Orderly, StreamTypes
<1>3. Live(k) /\ \A j \in Sends : Live(j) => j = k
  BY <1>1 DEF Orderly, Lifecycle, Live
<1>4. \A j \in Sends : (Live(j)' <=> Live(j)) /\ (Over(j)' <=> Over(j))
  BY <1>1 DEF Live, Pending, Over
<1>5. Brought(k) = event[k].text /\ Brought(k)' = <<>>
  BY <1>1, <1>2 DEF Brought
<1>6. PICK e \in Text : e = event[k].text
  BY <1>1, <1>2 DEF Event, Done, Text
<1>7. PICK s \in Text : Flows(s, k)
  BY <1>3 DEF Turns, Flowing
<1>8. s \o e \in Text /\ (s \o e) \o <<>> = s \o e /\ Blank \o s \in Text /\ Blank \o (s \o e) = (Blank \o s) \o e
  <2>1. s \in Seq(Pieces) /\ e \in Seq(Pieces) /\ Blank \in Seq(Pieces)
    BY BlankIs DEF Text
  <2>2. s \o e \in Seq(Pieces) /\ Blank \o s \in Seq(Pieces)
    BY <2>1, ConcatProperties
  <2>3. Blank \o (s \o e) = (Blank \o s) \o e
    BY <2>1, ConcatAssociative
  <2>4. (s \o e) \o <<>> = s \o e
    BY <2>2, ConcatEmptySeq
  <2> QED
    BY <2>2, <2>3, <2>4 DEF Text
<1>9. output' = LastPart(Blank \o (s \o e))
  <2>1. output' = LastPart(LastPart(Blank \o s) \o e)
    BY <1>1, <1>6, <1>7, Appended DEF Flows
  <2>2. BlankLines(Blank \o s) # {}
    BY BlankIs, BlankStays
  <2>3. LastPart(LastPart(Blank \o s) \o e) = LastPart((Blank \o s) \o e)
    BY <1>8, <2>2, LastPartAppend
  <2> QED
    BY <1>8, <2>1, <2>3
<1>10. Flows(s \o e, k)'
  <2>1. Joins(s \o e, channel[k], text[k])
    BY <1>5, <1>6, <1>7 DEF Flows
  <2>2. (s \o e) \o Brought(k)' = s \o e
    BY <1>5, <1>8
  <2> QED
    BY <1>1, <1>9, <2>1, <2>2 DEF Flows
<1>11. TextTypes'
  <2>1. Blank \o (s \o e) \in Text
    <3>1. Blank \in Seq(Pieces) /\ s \o e \in Seq(Pieces)
      BY <1>8, BlankIs DEF Text
    <3>2. Blank \o (s \o e) \in Seq(Pieces)
      BY <3>1, ConcatProperties
    <3> QED
      BY <3>2 DEF Text
  <2>2. output' \in Text
    BY <1>9, <2>1, LastPartType
  <2> QED
    BY <1>1, <2>2 DEF Turns, TextTypes
<1>12. Kept'
  BY <1>1, <1>4, KeptStays DEF Turns
<1>13. ASSUME NEW j \in Sends PROVE Asking(j)' /\ Fresh(j)' /\ Flowing(j)' /\ Whole(j)'
  <2>1. Asking(j) /\ Fresh(j) /\ Whole(j)
    BY DEF Turns
  <2>2. Asking(j)' /\ Fresh(j)'
    BY <1>1, <1>4, <2>1 DEF Asking, Fresh
  <2>3. Flowing(j)'
    BY <1>3, <1>4, <1>8, <1>10 DEF Flowing
  <2>4. Whole(j)'
    BY <1>1, <1>4, <2>1, WholeStays
  <2> QED
    BY <2>2, <2>3, <2>4
<1> QED
  BY <1>11, <1>12, <1>13 DEF Turns

\* The assistant messages of a step that adds a message m which is no
\* assistant's, or an answer of a turn that is over.
LEMMA KeptGrows ==
  ASSUME Kept, msgs \in Seq(Message), NEW m \in Message, msgs' = Append(msgs, m), text' = text,
         \A j \in Sends : Over(j) => Over(j)',
         m.role = "assistant" =>
           \E k \in Sends : Over(k)' /\ Len(msgs) + 1 \in AnswersIn(msgs', k) /\ m.content \in EndsOf(text[k])
  PROVE  Kept'
<1>1. /\ Len(msgs) \in Nat /\ DOMAIN msgs = 1 .. Len(msgs) /\ DOMAIN msgs' = 1 .. Len(msgs) + 1
      /\ msgs'[Len(msgs) + 1] = m
      /\ \A i \in 1 .. Len(msgs) : msgs'[i] = msgs[i]
      /\ \A k \in Sends : AnswersIn(msgs, k) \subseteq AnswersIn(msgs', k)
  BY Grows
<1> SUFFICES ASSUME NEW i \in DOMAIN msgs', msgs'[i].role = "assistant"
             PROVE  \E k \in Sends : Over(k)' /\ i \in AnswersIn(msgs', k) /\ msgs'[i].content \in EndsOf(text[k])
  BY DEF Kept
<1>2. CASE i = Len(msgs) + 1
  BY <1>1, <1>2
<1>3. CASE i # Len(msgs) + 1
  <2>1. i \in DOMAIN msgs /\ msgs'[i] = msgs[i]
    BY <1>1, <1>3
  <2>2. PICK k \in Sends : Over(k) /\ i \in AnswersIn(msgs, k) /\ msgs[i].content \in EndsOf(text[k])
    BY <2>1 DEF Kept
  <2>3. Over(k)' /\ i \in AnswersIn(msgs', k)
    BY <1>1, <2>2
  <2> QED
    BY <2>1, <2>2, <2>3
<1> QED
  BY <1>2, <1>3

\* The answers of the turns that were over before a message is added.
LEMMA WholeGrows ==
  ASSUME NEW k \in Sends, Whole(k), msgs \in Seq(Message), NEW m \in Message, msgs' = Append(msgs, m),
         UNCHANGED <<text, source>>, Over(k)' => Over(k)
  PROVE  Whole(k)'
<1>1. /\ DOMAIN msgs = 1 .. Len(msgs)
      /\ \A i \in 1 .. Len(msgs) : msgs'[i] = msgs[i]
      /\ AnswersIn(msgs, k) \subseteq AnswersIn(msgs', k)
  BY Grows
<1> SUFFICES ASSUME Over(k), source[k] = "closed", TrimSpace(text[k]) # <<>>, BlankLines(text[k]) = {}
             PROVE  \E i \in AnswersIn(msgs', k) : msgs'[i].content = TrimSpace(text[k])
  BY DEF Whole
<1>2. PICK i \in AnswersIn(msgs, k) : msgs[i].content = TrimSpace(text[k])
  BY DEF Whole
<1>3. i \in 1 .. Len(msgs)
  BY <1>1 DEF AnswersIn
<1> QED
  BY <1>1, <1>2, <1>3

\* A prompt is sent: it alone is live, after a blank line of its own.
LEMMA EnterTurns ==
  ASSUME Orderly, Turns, NEW k \in Sends, Enter(k), ~hasty'
  PROVE  Turns'
<1>1. /\ \A j \in Sends : ~Pending(j)
      /\ streamCh = NoStream /\ UNCHANGED <<streamCh, source, channel, reader, event, text>>
      /\ sending[k] = "unused" /\ sending' = [sending EXCEPT ![k] = "posting"]
      /\ sending \in [Sends -> {"unused", "posting", "started", "failed", "over"}]
      /\ msgs' = Append(msgs, [role |-> "user", send |-> k, content |-> <<Typed(k)>>])
      /\ appendOutput(PromptText(k))
  BY DEF Enter, IsReady, readerVars, Orderly, StreamTypes
<1>2. \A j \in Sends : (Live(j)' => j = k) /\ (Over(j)' <=> Over(j))
  BY <1>1, Numbers DEF Live, Pending, Over
<1>3. output \in Text /\ text \in [Sends -> Text] /\ msgs \in Seq(Message)
  BY DEF Turns, TextTypes
<1>4. PICK m \in Message : m.role = "user" /\ m.send = k /\ msgs' = Append(msgs, m)
  <2>1. Typed(k) \in Pieces
    BY Numbers DEF Typed, Pieces
  <2>2. ASSUME NEW P, NEW a \in P PROVE <<a>> \in Seq(P)
    OBVIOUS
  <2>3. <<Typed(k)>> \in Text
    BY <2>1, <2>2, Zenon DEF Text
  <2> DEFINE n == [role |-> "user", send |-> k, content |-> <<Typed(k)>>]
  <2>4. n \in Message /\ n.role = "user" /\ n.send = k
    BY <2>3 DEF Message
  <2> QED
    BY <1>1, <2>4
<1>5. output' = Blank
  BY <1>1, <1>3, Appended, AfterPrompt
<1>6. source[k] = "none" /\ reader[k] = "none"
  BY <1>1, Numbers DEF Orderly, Lifecycle
<1>7. text[k] = <<>> /\ channel[k] = <<>> /\ Brought(k)' = <<>>
  BY <1>1, <1>6 DEF Turns, Fresh, Brought
<1>8. Flows(<<>>, k)' /\ <<>> \in Text
  <2>1. <<>> \in Text /\ <<>> \o <<>> = <<>> /\ Blank \o <<>> = Blank
    <3>1. <<>> \in Seq(Pieces) /\ Blank \in Seq(Pieces)
      BY BlankIs DEF Text
    <3> QED
      BY <3>1, ConcatEmptySeq DEF Text
  <2>2. output' = LastPart(Blank \o <<>>)
    BY <1>5, <2>1, BlankIs
  <2>3. Joins(<<>>, <<>>, <<>>)
    BY <2>1, JoinsNothing
  <2>4. Joins(<<>> \o Brought(k)', channel'[k], text'[k])
    BY <1>1, <1>7, <2>1, <2>3
  <2> QED
    BY <2>1, <2>2, <2>4 DEF Flows
<1>9. /\ msgs' \in Seq(Message) /\ Len(msgs) \in Nat /\ Len(msgs') = Len(msgs) + 1 /\ msgs'[Len(msgs) + 1] = m
  BY <1>3, <1>4, Grows
<1>10. TextTypes'
  BY <1>1, <1>3, <1>5, <1>9, BlankIs DEF TextTypes
<1>11. Kept'
  BY <1>1, <1>2, <1>3, <1>4, KeptGrows DEF Turns
<1>12. ASSUME NEW j \in Sends PROVE Asking(j)' /\ Fresh(j)' /\ Flowing(j)' /\ Whole(j)'
  <2>1. Fresh(j) /\ Whole(j)
    BY DEF Turns
  <2>2. Asking(j)'
    <3>1. Len(msgs') > 0 /\ msgs'[Len(msgs')] = m
      BY <1>9
    <3> QED
      BY <1>2, <1>4, <3>1 DEF Asking
  <2>3. Fresh(j)'
    BY <1>1, <2>1 DEF Fresh
  <2>4. Flowing(j)'
    BY <1>2, <1>8 DEF Flowing
  <2>5. Whole(j)'
    BY <1>1, <1>2, <1>3, <1>4, <2>1, WholeGrows
  <2> QED
    BY <2>2, <2>3, <2>4, <2>5
<1> QED
  BY <1>10, <1>11, <1>12 DEF Turns

\* The end of the stream that is shown: its whole text is in the output, and
\* what Update takes from there answers the last message, its prompt.
LEMMA DoneTurns ==
  ASSUME Orderly, Turns, NEW k \in Sends, OnDone(k)
  PROVE  Turns'
<1>1. /\ reader[k] = "bringing" /\ event[k].kind = "done"
      /\ reader' = [reader EXCEPT ![k] = "none"] /\ streamCh' = NoStream
      /\ UNCHANGED <<sending, source, channel, event, text, output>>
      /\ msgs' = IF lastAssistantContent = <<>> THEN msgs
                 ELSE Append(msgs, [role |-> "assistant", send |-> k, content |-> lastAssistantContent])
  BY DEF OnDone
<1>2. event[k] = Done
  BY <1>1, Numbers DEF Orderly, StreamTypes
<1>3. streamCh = k /\ sending[k] = "over" /\ channel[k] = <<>>
  BY <1>1, <1>2 DEF Orderly, Lifecycle
<1>4. Live(k) /\ \A j \in Sends : Live(j) => j = k
  BY <1>3 DEF Orderly, Live
<1>5. \A j \in Sends : ~Live(j)' /\ (Over(j) => Over(j)') /\ (j # k => (Over(j)' => Over(j))) /\ Over(k)'
  BY <1>1, <1>3, <1>4, Numbers DEF Live, Pending, Over
<1>6. output \in Text /\ text \in [Sends -> Text] /\ msgs \in Seq(Message)
  BY DEF Turns, TextTypes
<1>7. output = LastPart(Blank \o text[k])
  <2>1. PICK s \in Text : Flows(s, k)
    BY <1>4 DEF Turns, Flowing
  <2>2. Brought(k) = <<>>
    BY <1>1, <1>2 DEF Brought, Done
  <2>3. s \o <<>> = s
    BY ConcatEmptySeq DEF Text
  <2>4. Joins(s, <<>>, text[k])
    BY <1>3, <2>1, <2>2, <2>3 DEF Flows
  <2>5. s = text[k]
    BY <2>4, JoinsNothing
  <2> QED
    BY <2>1, <2>5 DEF Flows
<1>8. PICK t \in Text : t = text[k]
  BY <1>6
<1>9. PICK c : c = lastAssistantContent
  OBVIOUS
<1>10. c \in Text /\ (c # <<>> => c \in EndsOf(t)) /\ (BlankLines(t) = {} => c = TrimSpace(t))
  <2>1. c = TrimSpace(AfterBlank(output))
    BY <1>9, Zenon DEF lastAssistantContent, AfterBlank
  <2>2. c = TrimSpace(AfterBlank(LastPart(Blank \o t)))
    BY <1>7, <1>8, <2>1
  <2> QED
    BY <2>2, AnswerTaken
<1>11. CASE c = <<>>
  <2>1. msgs' = msgs
    BY <1>1, <1>9, <1>11
  <2>2. TextTypes'
    BY <1>1, <1>6, <2>1 DEF TextTypes
  <2>3. Kept'
    BY <1>1, <1>5, <2>1, KeptStays DEF Turns
  <2>4. ASSUME NEW j \in Sends PROVE Asking(j)' /\ Fresh(j)' /\ Flowing(j)' /\ Whole(j)'
    <3>1. Fresh(j) /\ Whole(j)
      BY DEF Turns
    <3>2. Asking(j)' /\ Fresh(j)' /\ Flowing(j)'
      BY <1>1, <1>5, <3>1 DEF Asking, Fresh, Flowing
    <3>3. CASE j # k
      BY <1>1, <1>5, <2>1, <3>1, <3>2, <3>3, WholeStays
    <3>4. CASE j = k
      <4>1. ~(TrimSpace(text[k]) # <<>> /\ BlankLines(text[k]) = {})
        BY <1>8, <1>10, <1>11
      <4>2. Whole(k)'
        BY <1>1, <4>1 DEF Whole
      <4> QED
        BY <3>2, <3>4, <4>2
    <3> QED
      BY <3>3, <3>4
  <2> QED
    BY <2>2, <2>3, <2>4 DEF Turns
<1>12. CASE c # <<>>
  <2>1. PICK m \in Message : m.role = "assistant" /\ m.content = c /\ msgs' = Append(msgs, m)
    <3> DEFINE n == [role |-> "assistant", send |-> k, content |-> c]
    <3>1. n \in Message /\ n.role = "assistant" /\ n.content = c
      BY <1>10 DEF Message
    <3> QED
      BY <1>1, <1>9, <1>12, <3>1
  <2>2. /\ msgs' \in Seq(Message) /\ Len(msgs) \in Nat /\ DOMAIN msgs' = 1 .. Len(msgs) + 1
        /\ msgs'[Len(msgs) + 1] = m
        /\ \A i \in 1 .. Len(msgs) : msgs'[i] = msgs[i]
    BY <1>6, <2>1, Grows
  <2>3. Len(msgs) + 1 \in AnswersIn(msgs', k)
    <3>1. Len(msgs) > 0 /\ msgs[Len(msgs)].role = "user" /\ msgs[Len(msgs)].send = k
      BY <1>4 DEF Turns, Asking
    <3>2. PICK l \in Nat : l = Len(msgs)
      BY <2>2
    <3>3. l + 1 \in 1 .. l + 1 /\ l + 1 > 1 /\ (l + 1) - 1 = l /\ l \in 1 .. l
      BY <3>1, <3>2
    <3>4. msgs'[l + 1].role = "assistant" /\ msgs'[l].role = "user" /\ msgs'[l].send = k /\ l + 1 \in DOMAIN msgs'
      BY <2>1, <2>2, <3>1, <3>2, <3>3
    <3>5. l + 1 \in AnswersIn(msgs', k)
      BY <3>3, <3>4 DEF AnswersIn
    <3> QED
      BY <3>2, <3>5
  <2>4. TextTypes'
    BY <1>1, <1>6, <2>2 DEF TextTypes
  <2>5. Kept'
    <3>1. Over(k)' /\ m.content \in EndsOf(text[k])
      BY <1>5, <1>8, <1>10, <1>12, <2>1
    <3> QED
      BY <1>1, <1>5, <1>6, <2>1, <2>3, <3>1, KeptGrows DEF Turns
  <2>6. ASSUME NEW j \in Sends PROVE Asking(j)' /\ Fresh(j)' /\ Flowing(j)' /\ Whole(j)'
    <3>1. Fresh(j) /\ Whole(j)
      BY DEF Turns
    <3>2. Asking(j)' /\ Fresh(j)' /\ Flowing(j)'
      BY <1>1, <1>5, <3>1 DEF Asking, Fresh, Flowing
    <3>3. CASE j # k
      <4>1. Whole(j)'
        BY <1>1, <1>5, <1>6, <2>1, <3>1, <3>3, WholeGrows
      <4> QED
        BY <3>2, <4>1
    <3>4. CASE j = k
      <4>1. BlankLines(text[k]) = {} => msgs'[Len(msgs) + 1].content = TrimSpace(text[k])
        BY <1>8, <1>10, <2>1, <2>2
      <4>2. Whole(k)'
        BY <1>1, <2>3, <4>1 DEF Whole
      <4> QED
        BY <3>2, <3>4, <4>2
    <3> QED
      BY <3>3, <3>4
  <2> QED
    BY <2>4, <2>5, <2>6 DEF Turns
<1> QED
  BY <1>11, <1>12

-----------------------------------------------------------------------------

\* For a user who waits until a prompt is sent before the next, output, reader
\* and channel together hold the answer of the turn that is live, behind its
\* prompt, and the turns that are over have their answers.
THEOREM TurnInvariance == Spec => []TurnInv
<1>1. Init => TurnInv
  <2> SUFFICES ASSUME Init PROVE Turns
    BY DEF TurnInv
  <2>1. \A k \in Sends : ~Live(k) /\ ~Over(k) /\ Fresh(k)
    BY Numbers DEF Init, Live, Pending, Over, Fresh, Unsent
  <2>2. TextTypes
    BY DEF Init, TextTypes, Text, Unsent
  <2>3. Kept
    BY DEF Init, Kept
  <2> QED
    BY <2>1, <2>2, <2>3 DEF Turns, Asking, Flowing, Whole
<1>2. ChatInv /\ TurnInv /\ [Next]_vars => TurnInv'
  <2> SUFFICES ASSUME ChatInv, TurnInv, [Next]_vars, ~hasty' PROVE Turns'
    BY DEF TurnInv
  <2>1. ~hasty
    BY DEF Next, Enter, PostSucceeds, PostFails, ParseDelta, ParseError, Close, Receive, OnStarted,
           OnSendError, OnEvent, OnDone, EscCancels, EscQuits, vars
  <2>2. Orderly /\ Turns
    BY <2>1 DEF Orderly, ChatInv, OneAtATime, TurnInv
  <2>3. ASSUME NEW k \in Sends, Enter(k) PROVE Turns'
    BY <2>2, <2>3, EnterTurns
  <2>4. ASSUME NEW k \in Sends, PostSucceeds(k) \/ PostFails(k) PROVE Turns'
    BY <2>2, <2>4, PostTurns
  <2>5. ASSUME NEW k \in Sends, ParseDelta(k) \/ ParseError(k) \/ Close(k) PROVE Turns'
    BY <2>1, <2>2, <2>5, SourceTurns
  <2>6. ASSUME NEW k \in Sends, Receive(k) PROVE Turns'
    BY <2>2, <2>6, ReceiveTurns
  <2>7. ASSUME NEW k \in Sends, OnStarted(k) PROVE Turns'
    BY <2>2, <2>7, StartedTurns
  <2>8. ASSUME NEW k \in Sends, OnSendError(k) PROVE Turns'
    BY <2>2, <2>8, SendErrorTurns
  <2>9. ASSUME NEW k \in Sends, OnEvent(k) PROVE Turns'
    BY <2>2, <2>9, EventTurns
  <2>10. ASSUME NEW k \in Sends, OnDone(k) PROVE Turns'
    BY <2>2, <2>10, DoneTurns
  <2>11. CASE EscCancels \/ EscQuits \/ UNCHANGED vars
    <3>1. UNCHANGED <<streamCh, sending, source, channel, reader, event, text, msgs, output>>
      BY <2>11 DEF EscCancels, EscQuits, vars, uiVars, sourceVars, readerVars
    <3>2. \A j \in Sends : (Live(j)' <=> Live(j)) /\ (Over(j)' <=> Over(j)) /\ Brought(j)' = Brought(j)
      BY <3>1 DEF Live, Pending, Over, Brought
    <3>3. TextTypes' /\ Kept'
      BY <2>2, <3>1, <3>2, KeptStays DEF Turns, TextTypes
    <3>4. ASSUME NEW j \in Sends PROVE Asking(j)' /\ Fresh(j)' /\ Flowing(j)' /\ Whole(j)'
      <4>1. Asking(j) /\ Fresh(j) /\ Flowing(j) /\ Whole(j)
        BY <2>2 DEF Turns
      <4>2. Flowing(j)' /\ Whole(j)'
        BY <3>1, <3>2, <4>1, FlowStays, WholeStays
      <4> QED
        BY <3>1, <3>2, <4>1, <4>2 DEF Asking, Fresh
    <3> QED
      BY <3>3, <3>4 DEF Turns
  <2> QED
    BY <2>3, <2>4, <2>5, <2>6, <2>7, <2>8, <2>9, <2>10, <2>11 DEF Next
<1> QED
  BY ChatInvariance, <1>1, <1>2, PTL DEF Spec

\* For such a user every assistant message stands right after the prompt it
\* answers and is the end of that answer, never a word of another turn, and an
\* answer without a blank line is kept whole: for every number of turns, every
\* length of an answer and every size of the channels.
THEOREM TurnsIntactSafe == Spec => []TurnsIntact
<1>1. ChatInv /\ TurnInv => TurnsIntact
  <2> SUFFICES ASSUME ChatInv, TurnInv, ~hasty PROVE TurnsIntact
    BY DEF TurnsIntact
  <2>1. \A k \in Sends : AnswersOf(k) = AnswersIn(msgs, k)
    BY DEF AnswersOf, AnswersIn
  <2>2. Turns /\ \A k \in Sends : Lifecycle(k)
    BY DEF TurnInv, ChatInv, OneAtATime
  <2>3. ASSUME NEW i \in DOMAIN msgs, msgs[i].role = "assistant"
        PROVE  \E k \in Sends : i \in AnswersOf(k) /\ msgs[i].content \in EndsOf(text[k])
    <3>1. PICK k \in Sends : i \in AnswersIn(msgs, k) /\ msgs[i].content \in EndsOf(text[k])
      BY <2>2, <2>3 DEF Turns, Kept
    <3> QED
      BY <2>1, <3>1
  <2>4. ASSUME NEW k \in Sends, source[k] = "closed", reader[k] = "none", sending[k] = "over",
               TrimSpace(text[k]) # <<>>, BlankLines(text[k]) = {}
        PROVE  \E i \in AnswersOf(k) : msgs[i].content = TrimSpace(text[k])
    <3>1. Over(k)
      BY <2>2, <2>4 DEF Lifecycle, Over
    <3>2. \E i \in AnswersIn(msgs, k) : msgs[i].content = TrimSpace(text[k])
      BY <2>2, <2>4, <3>1 DEF Turns, Whole
    <3> QED
      BY <2>1, <3>2
  <2> QED
    BY <2>3, <2>4 DEF TurnsIntact
<1> QED
  BY ChatInvariance, TurnInvariance, <1>1, PTL

=============================================================================
