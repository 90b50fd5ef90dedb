CONSTANTS
  Records = {q1, q2, q3, q4}
  Empty = Empty
  Capacity = 2
  BufferSize = 1
  BatchSize = 2
  MaxEvents = 4
SPECIFICATION AccountingSpec
INVARIANTS Conserved StoredOnceInOrder DrainedOnClose RecentIsNewestFirst BooksAgree NothingLeftAtExit
PROPERTIES EventsMove ShutdownEnds
CHECK_DEADLOCK FALSE
