----------------------------- MODULE AuditTrail -----------------------------
(***************************************************************************)
(* The ring buffer of internal/audit/trail.go next to the log of all       *)
(* records it was ever given.  Record holds the write lock and Recent the  *)
(* read lock for their whole bodies.                                       *)
(***************************************************************************)
EXTENDS Integers, Sequences

CONSTANTS Capacity,     \* audit.buffer_size
          Records,      \* audit records
          Empty         \* the zero Record of an unused slot

ASSUME TrailAssumption == /\ Capacity \in Nat \ {0}
                          /\ Empty \notin Records

VARIABLES records,      \* Trail.records
          head,         \* Trail.head
          count,        \* Trail.count
          log           \* history: everything recorded, oldest first

trailVars == <<records, head, count, log>>

Slots == 0 .. Capacity - 1

TrailInit == /\ records = [i \in Slots |-> Empty]
             /\ head = 0
             /\ count = 0
             /\ log = <<>>

Record(r) ==
  /\ records' = [records EXCEPT ![head] = r]
  /\ head' = (head + 1) % Capacity
  /\ count' = IF count < Capacity THEN count + 1 ELSE count
  /\ log' = Append(log, r)

\* Bug: the newest record is skipped.
MutantRecent(n) ==
  [i \in 1 .. (IF n > count THEN count ELSE n) |->
     records[(head - 1 - i + Capacity) % Capacity]]

\* The newest n records, newest first.
Recent(n) ==
  [i \in 1 .. (IF n > count THEN count ELSE n) |->
     records[(head - 1 - (i - 1) + Capacity) % Capacity]]

-----------------------------------------------------------------------------

\* Recent returns the last n records of the log, newest first, however often
\* the ring has wrapped; it returns fewer only when fewer exist or the
\* capacity is reached, and never an empty slot (Record, Recent).
RecentIsNewestFirst ==
  \A n \in 1 .. Capacity + 1 :
    LET kept == IF Len(log) < Capacity THEN Len(log) ELSE Capacity
        size == IF n < kept THEN n ELSE kept
    IN  Recent(n) = [i \in 1 .. size |-> log[Len(log) - i + 1]]

=============================================================================
