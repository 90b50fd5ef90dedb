------------------------------- MODULE Stream -------------------------------
(***************************************************************************)
(* One upstream attempt of internal/proxy: the goroutine of the handler    *)
(* that waits for the first byte (peekFirstByte), copies the body through  *)
(* the interceptor (streamBody, streamInterceptor.Write) and judges the    *)
(* replica, the watchdog goroutine beside it, and the deadline of the      *)
(* attempt.  The replica sends when it likes, in fragments of any size; the*)
(* client may take its bytes slowly, refuse them, or leave.  Timers fire   *)
(* when they are due; what a goroutine computes takes no time.             *)
(***************************************************************************)
EXTENDS SSE, Integers

CONSTANTS Bodies,        \* what the replica may send
          MaxFragment,   \* the most that one Read returns
          StallTimeout,  \* Stream.StallTimeout, positive after applyDefaults
          TickFloor,     \* the 50 ms below which the watchdog does not sample
          Deadline,      \* Retry.Timeout, counted from the start of the attempt
          MaxClock       \* horizon of the run

ASSUME StreamAssumption == /\ Bodies \subseteq Seq(Symbol)
                           /\ MaxFragment \in Nat \ {0}
                           /\ StallTimeout \in Nat \ {0}
                           /\ TickFloor \in Nat \ {0}
                           /\ Deadline \in Nat
                           /\ MaxClock \in Nat

VARIABLES clock,      \* time since the start of the attempt
          body,       \* what the replica has yet to send before it closes
          reader,     \* the place of the handler's goroutine
          since,      \* when peekFirstByte began
          peeked,     \* the byte that MultiReader puts in front of the body
          frag,       \* the argument of the Write in progress
          buf, stats, \* fields of the interceptor
          last,       \* LastActivity, or the watchdog's start before any Write
          watchdog,   \* the place of the watchdog's goroutine
          nextTick,   \* when its ticker is due
          stalled,    \* midStreamStall
          cancelled,  \* the attempt's context is cancelled
          verdict,    \* what the circuit breaker was told
          whole,      \* history: the body as the replica meant it
          written,    \* history: what was passed to Write and has returned
          quiet       \* history: the longest silence under the watchdog's eyes

peekVars == <<since, peeked>>
parseVars == <<frag, buf, stats, written>>
timeVars == <<last, nextTick, quiet>>
vars == <<clock, body, reader, peekVars, parseVars, timeVars, watchdog, stalled, cancelled, verdict, whole>>

tick == IF StallTimeout \div 4 < TickFloor THEN TickFloor ELSE StallTimeout \div 4

Init == /\ clock = 0
        /\ whole \in Bodies /\ body = whole
        /\ reader = "headers"
        /\ since = 0 /\ peeked = <<>>
        /\ frag = <<>> /\ buf = <<>> /\ stats = Nothing /\ written = <<>>
        /\ last = 0 /\ nextTick = 0 /\ quiet = 0
        /\ watchdog = "off"
        /\ stalled = FALSE /\ cancelled = FALSE
        /\ verdict = "none"

-----------------------------------------------------------------------------
(* Before the response is committed *)

\* A status below 500.
Headers == /\ reader = "headers"
           /\ reader' = "peek"
           /\ since' = clock
           /\ UNCHANGED <<clock, body, peeked, parseVars, timeVars, watchdog, stalled, cancelled, verdict, whole>>

\* The attempt is given up: a failure for the breaker, and another replica is
\* tried.
GiveUp == /\ reader' = "done"
          /\ verdict' = "retry"
          /\ cancelled' = TRUE
          /\ UNCHANGED <<clock, body, peekVars, parseVars, timeVars, watchdog, stalled, whole>>

\* A 5xx or a connection error.
UpstreamError == reader = "headers" /\ GiveUp

\* The body closes, or the stall timer fires, before the first byte.
NoFirstByte == /\ reader = "peek"
               /\ body = <<>> \/ clock - since >= StallTimeout
               /\ GiveUp

\* doUpstream or the peek return the error of the context.
Aborted == /\ reader \in {"headers", "peek"}
           /\ cancelled
           /\ GiveUp

\* The first byte: the response is committed, the breaker is told of a
\* success and the watchdog starts.
FirstByte == /\ reader = "peek" /\ body # <<>>
             /\ peeked' = <<Head(body)>>
             /\ body' = Tail(body)
             /\ reader' = "read"
             /\ watchdog' = "wait"
             /\ last' = clock
             /\ nextTick' = clock + tick
             /\ UNCHANGED <<clock, since, parseVars, quiet, stalled, cancelled, verdict, whole>>

-----------------------------------------------------------------------------
(* streamBody and the interceptor *)

\* Read has returned b; Write notes the time before it passes b on.
BeginWrite(b) == /\ frag' = b
                 /\ last' = clock
                 /\ reader' = "write"
                 /\ UNCHANGED <<clock, since, buf, stats, written, nextTick, quiet, watchdog, stalled, cancelled, verdict, whole>>

\* Bug: the peeked byte is forgotten and the body read on.
MutantReplay == /\ reader = "read" /\ peeked # <<>>
                /\ peeked' = <<>>
                /\ UNCHANGED <<clock, body, reader, since, parseVars, timeVars, watchdog, stalled, cancelled, verdict, whole>>

\* MultiReader gives out the peeked byte before it goes on to the body.
Replay == /\ reader = "read" /\ peeked # <<>>
          /\ BeginWrite(peeked)
          /\ peeked' = <<>>
          /\ UNCHANGED body

\* Read returns what has arrived, up to the size of its buffer.
Read == /\ reader = "read" /\ peeked = <<>>
        /\ \E n \in 1 .. Len(body) : /\ n <= MaxFragment
                                     /\ BeginWrite(SubSeq(body, 1, n))
                                     /\ body' = SubSeq(body, n + 1, Len(body))
        /\ UNCHANGED peeked

\* Bug: only the end of the body ends the copy.
MutantReadEnds == /\ reader = "read" /\ peeked = <<>>
                  /\ body = <<>>
                  /\ reader' = "stopping"
                  /\ UNCHANGED <<clock, body, peekVars, parseVars, timeVars, watchdog, stalled, cancelled, verdict, whole>>

\* Read returns an error: the body ended or the context was cancelled.  The
\* watchdog is told to stop.
ReadEnds == /\ reader = "read" /\ peeked = <<>>
            /\ body = <<>> \/ cancelled
            /\ reader' = "stopping"
            /\ UNCHANGED <<clock, body, peekVars, parseVars, timeVars, watchdog, stalled, cancelled, verdict, whole>>

\* Bug: every Write parses its own bytes only.
MutantParse(b) == parseSSE(b, stats)

Parse(b) == parseSSE(buf \o b, stats)

\* The client has taken the bytes, or its connection is broken; the bytes are
\* parsed in either case.
WriteReturns == /\ reader = "write"
                /\ buf' = Parse(frag).buf
                /\ stats' = Parse(frag).stats
                /\ written' = written \o frag
                /\ frag' = <<>>
                /\ reader' \in {"read", "stopping"}
                /\ UNCHANGED <<clock, body, peekVars, timeVars, watchdog, stalled, cancelled, verdict, whole>>

\* Bug: Stop does not wait for the watchdog.
MutantStopped == TRUE

\* Stop returns once the watchdog has ended.
Stopped == watchdog = "gone"

\* The handler judges the replica; cancelUpstream is deferred.
Judge == /\ reader = "stopping" /\ Stopped
         /\ verdict' = IF stalled \/ ~stats.done THEN "dead" ELSE "clean"
         /\ reader' = "done"
         /\ cancelled' = TRUE
         /\ UNCHANGED <<clock, body, peekVars, parseVars, timeVars, watchdog, stalled, whole>>

-----------------------------------------------------------------------------
(* The watchdog *)

\* Bug: a silence of exactly the timeout is let pass.
MutantSilent == clock - last > StallTimeout

\* Bug: the length of the stream is measured, not its silence.
MutantSilentWhole == clock - since >= StallTimeout

Silent == clock - last >= StallTimeout

\* The ticker fires and the last activity is sampled.
Sample == /\ watchdog = "wait" /\ clock >= nextTick
          /\ \/ Silent /\ watchdog' = "firing" /\ UNCHANGED nextTick
             \/ ~Silent /\ nextTick' = nextTick + tick /\ UNCHANGED watchdog
          /\ UNCHANGED <<clock, body, reader, peekVars, parseVars, last, quiet, stalled, cancelled, verdict, whole>>

\* onStall.
Fire == /\ watchdog = "firing"
        /\ watchdog' = "gone"
        /\ stalled' = TRUE
        /\ cancelled' = TRUE
        /\ UNCHANGED <<clock, body, reader, peekVars, parseVars, timeVars, verdict, whole>>

NoticeStop == /\ watchdog = "wait" /\ reader = "stopping"
              /\ watchdog' = "gone"
              /\ UNCHANGED <<clock, body, reader, peekVars, parseVars, timeVars, stalled, cancelled, verdict, whole>>

-----------------------------------------------------------------------------
(* Time and the client *)

\* The client goes away, or the deadline of the attempt passes, which it does
\* during the stream as well.
Cancel == /\ ~cancelled
          /\ cancelled' = TRUE
          /\ UNCHANGED <<clock, body, reader, peekVars, parseVars, timeVars, watchdog, stalled, verdict, whole>>

DeadlinePasses == clock >= Deadline /\ Cancel

\* A timer is due and has not been handled.
Due == \/ watchdog = "firing"
       \/ watchdog = "wait" /\ clock >= nextTick
       \/ reader = "peek" /\ clock - since >= StallTimeout
       \/ clock >= Deadline /\ ~cancelled

Tick == /\ clock < MaxClock /\ ~Due
        /\ clock' = clock + 1
        /\ quiet' = IF watchdog = "wait" /\ clock + 1 - last > quiet THEN clock + 1 - last ELSE quiet
        /\ UNCHANGED <<body, reader, peekVars, parseVars, last, nextTick, watchdog, stalled, cancelled, verdict, whole>>

Handler == NoFirstByte \/ Aborted \/ Replay \/ ReadEnds \/ Judge
Watchdog == Sample \/ Fire \/ NoticeStop
Replica == Headers \/ UpstreamError \/ FirstByte \/ Read

Client == WriteReturns \/ Cancel

Next == Handler \/ Watchdog \/ Replica \/ Client \/ Tick

\* Nothing is assumed of the replica nor of the client.  The handler and the
\* watchdog run when they can, time passes and the deadline fires.
Fairness == WF_vars(Handler) /\ WF_vars(Watchdog) /\ WF_vars(Tick) /\ WF_vars(DeadlinePasses)

Spec == Init /\ [][Next]_vars /\ Fairness

-----------------------------------------------------------------------------
(* Properties *)

\* However the network tears the body apart, also inside an empty line, the
\* interceptor counts the chunks and sees [DONE] exactly as a reader of the
\* whole text would (Write, parseSSE and the buffer between calls).
FragmentsDoNotMatter == stats = Reference(written)

\* The comment on peekFirstByte: what goes to the client is byte-identical to
\* the body, the peeked byte included, at every moment of the copy.
ByteIdentical == reader # "write" => written \o peeked \o body = whole

\* A stream that has been silent for the stall timeout and one sampling
\* interval has been cancelled, the floor of the interval included (the ticker
\* of stallWatchdog).
StallDetected ==
  watchdog \in {"wait", "firing"} => clock - last < StallTimeout + tick

\* The comment on stallWatchdog: a silent stream is cancelled within 1.25 times
\* the stall timeout in the worst case.
DetectedWithinQuarter ==
  watchdog \in {"wait", "firing"} => 4 * (clock - last) <= 5 * StallTimeout

\* A replica whose answer was complete is called dead only if the stream was
\* silent for the stall timeout, whatever the watchdog, the deadline and a
\* client that leaves do while it ends (the judgement after watchdog.Stop).
JustVerdict == verdict = "dead" => ~stats.done \/ quiet >= StallTimeout

\* What the breaker was told stays true: no watchdog of a stream that has been
\* judged can change midStreamStall afterwards (Stop waits for it).
VerdictStands == /\ verdict = "clean" => stats.done /\ ~stalled
                 /\ verdict = "dead" => stalled \/ ~stats.done

\* Every attempt ends, whatever the replica does (stall timers, deadline),
\* unless the client keeps its connection and takes no bytes for ever: neither
\* the watchdog nor the deadline gets a Write back.
AttemptEnds == <>[](reader \in {"done", "write"})

=============================================================================
