----------------------------- MODULE Accounting -----------------------------
(***************************************************************************)
(* What a request leaves behind when it ends (the last part of ServeHTTP): *)
(* an audit record, an entry of the usage tracker and an event for the     *)
(* usage sink, written one after the other by concurrent handlers, and the *)
(* shutdown of the main program: Shutdown waits for the handlers, but no   *)
(* longer than 10 s; then the sink is closed and the process exits, also   *)
(* under handlers that still run.                                          *)
(***************************************************************************)
EXTENDS UsageSink, AuditTrail, FiniteSets

ASSUME AccountingAssumption == IsFiniteSet(Records)

VARIABLES handler,    \* the place of each request's goroutine
          usage,      \* Tracker.data: requests recorded (one tenant)
          server,     \* where main is
          timedOut    \* Shutdown gave up on handlers that still ran

accountVars == <<handler, usage, server, timedOut>>
allVars == <<vars, trailVars, accountVars>>

AccountingInit == /\ Init
                  /\ TrailInit
                  /\ handler = [q \in Records |-> "idle"]
                  /\ usage = 0
                  /\ server = "up"
                  /\ timedOut = FALSE

Step(q, from, to) == /\ server # "exited"
                     /\ handler[q] = from
                     /\ handler' = [handler EXCEPT ![q] = to]

Active == {q \in Records : handler[q] \in {"serving", "audited", "tracked"}}

\* A request is accepted while the listener is open.
Accept(q) == /\ server = "up"
             /\ Step(q, "idle", "serving")
             /\ UNCHANGED <<vars, trailVars, usage, server, timedOut>>

\* No replica served it: an audit record with status 503, and no usage.
AuditUnserved(q) == /\ Step(q, "serving", "done")
                    /\ Record(q)
                    /\ UNCHANGED <<vars, usage, server, timedOut>>

AuditServed(q) == /\ Step(q, "serving", "audited")
                  /\ Record(q)
                  /\ UNCHANGED <<vars, usage, server, timedOut>>

\* Bug: the increment is lost.
MutantTrack(q) == /\ Step(q, "audited", "tracked")
                  /\ UNCHANGED <<vars, trailVars, usage, server, timedOut>>

\* Tracker.Record.
Track(q) == /\ Step(q, "audited", "tracked")
            /\ usage' = usage + 1
            /\ UNCHANGED <<vars, trailVars, server, timedOut>>

\* Enqueue, after which the handler returns.
Charge(q) == /\ Step(q, "tracked", "done")
             /\ Enqueue
             /\ UNCHANGED <<trailVars, usage, server, timedOut>>

\* SIGTERM: the listener closes and Shutdown begins to wait.
Signal == /\ server = "up"
          /\ server' = "shutdown"
          /\ UNCHANGED <<vars, trailVars, handler, usage, timedOut>>

\* Bug: the process does not wait for its handlers.
MutantHandlersDone == TRUE

HandlersDone == Active = {}

\* Shutdown returns; main ends and its deferred sink.Close is called.
ShutdownReturns == /\ server = "shutdown" /\ HandlersDone
                   /\ server' = "closing"
                   /\ Close
                   /\ UNCHANGED <<trailVars, handler, usage, timedOut>>

\* The 10 s are over.
ShutdownTimesOut == /\ server = "shutdown" /\ Active # {}
                    /\ server' = "closing"
                    /\ timedOut' = TRUE
                    /\ Close
                    /\ UNCHANGED <<trailVars, handler, usage>>

\* Close returns when the worker has; every goroutine dies with the process.
Exit == /\ server = "closing" /\ worker = "done"
        /\ server' = "exited"
        /\ UNCHANGED <<vars, trailVars, handler, usage, timedOut>>

SinkWorks == /\ server # "exited"
             /\ Work
             /\ UNCHANGED <<trailVars, accountVars>>

AccountingNext ==
  \/ \E q \in Records : Accept(q) \/ AuditUnserved(q) \/ AuditServed(q) \/ Track(q) \/ Charge(q)
  \/ Signal \/ ShutdownReturns \/ ShutdownTimesOut \/ Exit \/ SinkWorks

\* The fairness of the sink, and main runs on; handlers may take any time.
AccountingFairness == /\ Fairness
                      /\ WF_allVars(ShutdownReturns \/ ShutdownTimesOut)
                      /\ WF_allVars(Exit)

AccountingSpec == AccountingInit /\ [][AccountingNext]_allVars /\ AccountingFairness

-----------------------------------------------------------------------------
(* Properties *)

\* The three books agree whatever the order of the handlers: the tracker is
\* ahead of the sink by the requests between Tracker.Record and Enqueue, and
\* no usage is charged for a request that the audit trail does not know
\* (the last part of ServeHTTP).
BooksAgree ==
  /\ usage = next - 1 + Cardinality({q \in Records : handler[q] = "tracked"})
  /\ usage <= Len(log)

\* A shutdown that does not time out loses nothing: when the process ends, all
\* usage that the tracker has seen is in the database, or counted as dropped,
\* or was given up with a failed flush; nothing is left in memory (main, Close,
\* run).
NothingLeftAtExit ==
  server = "exited" /\ ~timedOut =>
    /\ ch = <<>> /\ batch = <<>>
    /\ usage = Len(stored) + dropped + discarded

\* A signal ends the process, even under handlers that never end.
ShutdownEnds == server = "shutdown" ~> server = "exited"

=============================================================================
