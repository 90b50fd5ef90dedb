-------------------------------- MODULE SSE ---------------------------------
(***************************************************************************)
(* The event parser of internal/proxy/stream.go.  A body is a sequence of  *)
(* symbols that may be torn apart anywhere: "data" is the prefix that      *)
(* starts a data line, "token" a JSON chunk with content, "done" the       *)
(* [DONE] sentinel, "nl" a newline and "other" anything else.  A chunk     *)
(* counts as one, whatever the length of its content.                      *)
(***************************************************************************)
EXTENDS Naturals, Sequences, FiniteSetsExt

Symbol == {"data", "token", "done", "nl", "other"}

\* bytes.TrimSpace.
TrimSpace(s) ==
  LET ink == {i \in DOMAIN s : s[i] # "nl"}
  IN  IF ink = {} THEN <<>> ELSE SubSeq(s, Min(ink), Max(ink))

IsDone(event)  == TrimSpace(event) = <<"data", "done">>
IsChunk(event) == TrimSpace(event) = <<"data", "token">>

Nothing == [chunks |-> 0, done |-> FALSE]

\* Events that are neither are skipped without an error.
processEvent(stats, event) ==
  [chunks |-> stats.chunks + (IF IsChunk(event) THEN 1 ELSE 0),
   done   |-> stats.done \/ IsDone(event)]

\* Where the events in a buffer end: before an empty line.
Cuts(buf) == {i \in 1 .. Len(buf) - 1 : buf[i] = "nl" /\ buf[i + 1] = "nl"}

\* The buffer and the statistics of an interceptor.
Interceptor == [buf : Seq(Symbol), stats : [chunks : Nat, done : BOOLEAN]]

\* One round of the loop: the first event is processed and cut off.
TakeEvent(p) ==
  LET idx == Min(Cuts(p.buf))
  IN  [buf   |-> SubSeq(p.buf, idx + 2, Len(p.buf)),
       stats |-> processEvent(p.stats, SubSeq(p.buf, 1, idx - 1))]

\* The loop of parseSSE, from a buffer and the statistics so far.
parseSSE(buffer, stats) ==
  LET loop[p \in Interceptor] == IF Cuts(p.buf) = {} THEN p ELSE loop[TakeEvent(p)]
  IN  loop[[buf |-> buffer, stats |-> stats]]

\* Reference: a reader that takes the body one symbol at a time and ends an
\* event whenever it has just seen two newlines.
Feed(acc, x) ==
  IF x = "nl" /\ acc.event # <<>> /\ acc.event[Len(acc.event)] = "nl"
  THEN [event |-> <<>>, stats |-> processEvent(acc.stats, acc.event)]
  ELSE [event |-> Append(acc.event, x), stats |-> acc.stats]

Reference(body) ==
  LET after[n \in 0 .. Len(body)] ==
        IF n = 0 THEN [event |-> <<>>, stats |-> Nothing] ELSE Feed(after[n - 1], body[n])
  IN  after[Len(body)].stats

=============================================================================
