------------------------------ MODULE UsageSink ------------------------------
(***************************************************************************)
(* The asynchronous usage sink of internal/usage/sink.go: request          *)
(* goroutines put events on a bounded channel without blocking, one worker *)
(* batches them and hands the batches to the database (postgres.go).       *)
(* Events are numbered in the order in which Enqueue is called.  A flush   *)
(* is a step of its own, so events arrive while the worker is busy.        *)
(***************************************************************************)
EXTENDS Naturals, Sequences

CONSTANTS BufferSize,   \* capacity of the channel
          BatchSize,    \* flush when the batch has this many events
          MaxEvents     \* calls of Enqueue in a behaviour

ASSUME SinkAssumption == /\ BufferSize \in Nat \ {0}
                         /\ BatchSize \in Nat \ {0}
                         /\ MaxEvents \in Nat

VARIABLES ch,           \* BatchSink.ch
          batch,        \* run's local batch
          worker,       \* where run is
          stop,         \* Close has been called
          dropped,      \* BatchSink.dropped
          next,         \* history: number of the next event
          stored,       \* external: events whose usage is in the database
          discarded,    \* history: events of batches that did not get there
          closedAt      \* history: number of the next event when Close came

vars == <<ch, batch, worker, stop, dropped, next, stored, discarded, closedAt>>

Init == /\ ch = <<>>
        /\ batch = <<>>
        /\ worker = "select"
        /\ stop = FALSE
        /\ dropped = 0
        /\ next = 1
        /\ stored = <<>>
        /\ discarded = 0
        /\ closedAt = 0

-----------------------------------------------------------------------------

\* Bug: a full buffer loses the event without counting it.
MutantEnqueue ==
  /\ next <= MaxEvents
  /\ next' = next + 1
  /\ ch' = IF Len(ch) < BufferSize THEN Append(ch, next) ELSE ch
  /\ UNCHANGED <<batch, worker, stop, dropped, stored, discarded, closedAt>>

\* A handler reports usage; nothing keeps it from doing so after Close.
Enqueue ==
  /\ next <= MaxEvents
  /\ next' = next + 1
  /\ \/ Len(ch) < BufferSize /\ ch' = Append(ch, next) /\ UNCHANGED dropped
     \/ Len(ch) >= BufferSize /\ dropped' = dropped + 1 /\ UNCHANGED ch
  /\ UNCHANGED <<batch, worker, stop, stored, discarded, closedAt>>

\* Close closes the stop channel and then waits for the worker.
Close == /\ ~stop
         /\ stop' = TRUE
         /\ closedAt' = next
         /\ UNCHANGED <<ch, batch, worker, dropped, next, stored, discarded>>

Take == ch # <<>> /\ batch' = Append(batch, Head(ch)) /\ ch' = Tail(ch)

\* The worker takes an event and flushes when the batch is full.
Receive == /\ worker = "select"
           /\ Take
           /\ worker' = IF Len(batch') >= BatchSize THEN "flush" ELSE "select"
           /\ UNCHANGED <<stop, dropped, next, stored, discarded, closedAt>>

\* Bug: the ticker, too, flushes only a full batch.
MutantTick ==
  /\ worker = "select"
  /\ Len(batch) >= BatchSize
  /\ worker' = "flush"
  /\ UNCHANGED <<ch, batch, stop, dropped, next, stored, discarded, closedAt>>

\* The ticker fires; flush does nothing with an empty batch.
Tick == /\ worker = "select"
        /\ batch # <<>>
        /\ worker' = "flush"
        /\ UNCHANGED <<ch, batch, stop, dropped, next, stored, discarded, closedAt>>

\* Bug: on stop the worker flushes its batch and leaves the channel alone.
MutantNoticeStop ==
  /\ worker = "select" /\ stop
  /\ worker' = "last_flush"
  /\ UNCHANGED <<ch, batch, stop, dropped, next, stored, discarded, closedAt>>

\* The worker's select picks the stop channel.
NoticeStop == /\ worker = "select" /\ stop
              /\ worker' = "drain"
              /\ UNCHANGED <<ch, batch, stop, dropped, next, stored, discarded, closedAt>>

Drain == /\ worker = "drain"
         /\ Take
         /\ UNCHANGED <<worker, stop, dropped, next, stored, discarded, closedAt>>

DrainEnds == /\ worker = "drain"
             /\ ch = <<>>
             /\ worker' = "last_flush"
             /\ UNCHANGED <<ch, batch, stop, dropped, next, stored, discarded, closedAt>>

\* Bug: the worker returns to its loop after the final flush.
MutantAfterFlush == "select"

AfterFlush == IF worker = "flush" THEN "select" ELSE "done"

\* Bug: the batch is kept after a flush and flushed again.
MutantFlushOk ==
  /\ worker \in {"flush", "last_flush"}
  /\ stored' = stored \o batch
  /\ worker' = AfterFlush
  /\ UNCHANGED <<ch, batch, stop, dropped, next, discarded, closedAt>>

\* The batch is in the database.  flushFn may still have returned an error,
\* when the commit beat the 5 s timeout but its answer did not: the worker
\* does the same in either case.
FlushOk == /\ worker \in {"flush", "last_flush"}
           /\ stored' = stored \o batch
           /\ batch' = <<>>
           /\ worker' = AfterFlush
           /\ UNCHANGED <<ch, stop, dropped, next, discarded, closedAt>>

\* flushFn failed: the batch is given up.
FlushFails == /\ worker \in {"flush", "last_flush"}
              /\ discarded' = discarded + Len(batch)
              /\ batch' = <<>>
              /\ worker' = AfterFlush
              /\ UNCHANGED <<ch, stop, dropped, next, stored, closedAt>>

Flush == FlushOk \/ FlushFails

Work == Receive \/ Tick \/ NoticeStop \/ Drain \/ DrainEnds \/ Flush

Next == Enqueue \/ Close \/ Work

\* The worker's goroutine runs, its ticker fires, and select does not pass
\* over a ready case for ever (Go picks among ready cases at random); a flush
\* ends because its context expires after 5 s.
Fairness == /\ WF_vars(Receive) /\ WF_vars(Tick) /\ SF_vars(NoticeStop)
            /\ WF_vars(Drain) /\ WF_vars(DrainEnds) /\ WF_vars(Flush)

Spec == Init /\ [][Next]_vars /\ Fairness

-----------------------------------------------------------------------------

TypeOK == /\ ch \in Seq(Nat)
          /\ batch \in Seq(Nat)
          /\ worker \in {"select", "flush", "drain", "last_flush", "done"}
          /\ stop \in BOOLEAN
          /\ dropped \in Nat
          /\ next \in Nat \ {0}
          /\ stored \in Seq(Nat)
          /\ discarded \in Nat
          /\ closedAt \in Nat
          /\ Len(ch) <= BufferSize

\* Every event is accounted for at every moment: stored, in the worker's
\* batch, on the channel, counted as dropped, or part of a failed batch
\* (Enqueue, run).
Conserved ==
  next - 1 = Len(stored) + Len(batch) + Len(ch) + dropped + discarded

\* Usage is stored in the order it was reported and never twice, across
\* batches, failed flushes and the final drain (run, flush).
StoredOnceInOrder ==
  LET pipeline == stored \o batch \o ch
  IN  \A i, j \in DOMAIN pipeline : i < j => pipeline[i] < pipeline[j]

\* Close drains: when the worker is gone, nothing that was reported before
\* Close was called is left on the channel (Close, run).
DrainedOnClose ==
  worker \in {"last_flush", "done"} => \A i \in DOMAIN ch : ch[i] >= closedAt

\* When handlers stop reporting, everything they reported is flushed: nothing
\* stays on the channel or in a partial batch while the worker lives (the
\* ticker of run).
EventsMove == []<>(worker = "done" \/ (ch = <<>> /\ batch = <<>>))

=============================================================================
