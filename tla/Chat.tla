-------------------------------- MODULE Chat --------------------------------
(***************************************************************************)
(* The command line client: the Update loop of its terminal interface, the *)
(* goroutines that Bubble Tea starts for its commands, and the goroutine   *)
(* of Send that parses the router's stream.  Update runs alone, but the    *)
(* results of commands reach it in any order and do not say which stream   *)
(* they belong to.                                                         *)
(*                                                                         *)
(* Send k is the k-th prompt; its stream has the number k too.  A stream   *)
(* that starts brings one reader goroutine, whose every event makes Update *)
(* start the next: reader k stands for that chain, which need not stay     *)
(* with stream k.  The router, the network and the user are external.      *)
(***************************************************************************)
EXTENDS Integers, Sequences, FiniteSetsExt

CONSTANTS MaxSends,     \* prompts of a behaviour
          MaxDeltas,    \* content deltas of one stream
          ChannelSize   \* buffer of a stream's channel (64)

Sends == 1 .. MaxSends

NoStream == 0

ASSUME ChatAssumption == {MaxSends, MaxDeltas, ChannelSize} \subseteq Nat \ {0}

VARIABLES running,      \* the program has not quit
          msgs,         \* the conversation so far
          output,       \* m.output, as words and newlines, from its last blank
                        \* line on: Update reads no more of it
          streamCh,     \* the stream that Update reads
          cancel,       \* the stream that m.cancel stops
          sending,      \* startSend's goroutine and its sendStartedMsg
          source,       \* the goroutine in Send that parses a stream
          cancelled,    \* the context of a stream is cancelled
          channel,      \* its channel
          deltas,       \* content deltas so far
          reader,       \* what each chain of waitForStream commands does
          reads,        \* the stream it waits for
          event,        \* the streamEventMsg it brings
          text,         \* history: what a stream sent, while hasty is FALSE
          hasty         \* history: a prompt was sent while another was pending

uiVars     == <<running, msgs, output, streamCh, cancel>>
sourceVars == <<source, cancelled, channel, deltas, text>>
readerVars == <<reader, reads, event>>
vars == <<uiVars, sending, sourceVars, readerVars, hasty>>

Newline     == <<0, 0>>
ErrorText   == <<0, 1>>
Typed(k)    == <<k, 0>>
Word(k, n)  == <<k, n>>

\* What Update writes to the output for a prompt, a failed send, an error of
\* a stream.  Bug: no blank line after the prompt.
MutantPromptText(k) == <<Newline, Typed(k), Newline>>

PromptText(k) == <<Newline, Typed(k), Newline, Newline>>

SendErrorText == <<ErrorText, Newline>>

StreamErrorText == <<Newline, ErrorText, Newline>>

BlankLines(s) == {i \in 1 .. Len(s) - 1 : s[i] = Newline /\ s[i + 1] = Newline}

appendOutput(s) ==
  LET all == output \o s
  IN  output' = IF BlankLines(all) = {} THEN all
                ELSE SubSeq(all, Max(BlankLines(all)), Len(all))

\* The last one is a closed channel.
Delta(s) == [kind |-> "delta", text |-> s]
Error    == [kind |-> "error", text |-> StreamErrorText]
Done     == [kind |-> "done", text |-> <<>>]

Unsent == [k \in Sends |-> <<>>]

\* newModel; nothing has been sent.
Init == /\ running = TRUE
        /\ msgs = <<>> /\ output = <<>>
        /\ streamCh = NoStream /\ cancel = NoStream
        /\ sending = [k \in Sends |-> "unused"]
        /\ source = [k \in Sends |-> "none"]
        /\ cancelled = [k \in Sends |-> FALSE]
        /\ channel = [k \in Sends |-> <<>>]
        /\ deltas = [k \in Sends |-> 0]
        /\ text = Unsent
        /\ reader = [k \in Sends |-> "none"]
        /\ reads = [k \in Sends |-> NoStream]
        /\ event = [k \in Sends |-> Done]
        /\ hasty = FALSE

-----------------------------------------------------------------------------
(* Update: keys *)

\* Bug: prompts are accepted while an answer is streaming.
MutantIsReady == TRUE

IsReady == streamCh = NoStream

Pending(k) == sending[k] \in {"posting", "started", "failed"}

\* Enter with a prompt that is not blank.
Enter(k) ==
  /\ running /\ IsReady
  /\ sending[k] = "unused" /\ \A j \in 1 .. k - 1 : sending[j] # "unused"
  /\ msgs' = Append(msgs, [role |-> "user", send |-> k, content |-> <<Typed(k)>>])
  /\ appendOutput(PromptText(k))
  /\ sending' = [sending EXCEPT ![k] = "posting"]
  /\ hasty' = (hasty \/ \E j \in Sends : Pending(j))
  /\ text' = IF hasty' THEN Unsent ELSE text
  /\ UNCHANGED <<running, streamCh, cancel, source, cancelled, channel, deltas, readerVars>>

\* m.cancel of the stream it belongs to.
Cancel == cancelled' = [k \in Sends |-> cancelled[k] \/ k = cancel]

\* Esc while a stream is read ...
EscCancels == /\ running /\ streamCh # NoStream
              /\ Cancel
              /\ UNCHANGED <<uiVars, sending, source, channel, deltas, text, readerVars, hasty>>

\* ... and otherwise: the process ends with all its goroutines.
EscQuits == /\ running /\ streamCh = NoStream
            /\ running' = FALSE
            /\ UNCHANGED <<msgs, output, streamCh, cancel, sending, sourceVars, readerVars, hasty>>

-----------------------------------------------------------------------------
(* startSend and Send *)

\* The router answers with a status below 400, and the stream begins.
PostSucceeds(k) ==
  /\ running /\ sending[k] = "posting"
  /\ sending' = [sending EXCEPT ![k] = "started"]
  /\ source' = [source EXCEPT ![k] = "parsing"]
  /\ UNCHANGED <<uiVars, cancelled, channel, deltas, text, readerVars, hasty>>

PostFails(k) ==
  /\ running /\ sending[k] = "posting"
  /\ sending' = [sending EXCEPT ![k] = "failed"]
  /\ UNCHANGED <<uiVars, sourceVars, readerVars, hasty>>

\* The goroutine sends to the channel, which blocks while it is full.
Push(k, e) == /\ Len(channel[k]) < ChannelSize
              /\ channel' = [channel EXCEPT ![k] = Append(@, e)]
              /\ text' = IF hasty THEN text ELSE [text EXCEPT ![k] = @ \o e.text]

\* A content may begin or end a line; two of them can make a blank line.
Contents(w) == {<<w, Newline>>, <<Newline, w>>}

\* A data line with content; other lines are skipped.
ParseDelta(k) ==
  /\ running /\ source[k] = "parsing" /\ deltas[k] < MaxDeltas
  /\ \E s \in Contents(Word(k, deltas[k] + 1)) : Push(k, Delta(s))
  /\ deltas' = [deltas EXCEPT ![k] = @ + 1]
  /\ UNCHANGED <<uiVars, sending, source, cancelled, readerVars, hasty>>

\* The body fails, as it does when the context is cancelled.
ParseError(k) ==
  /\ running /\ source[k] = "parsing"
  /\ Push(k, Error)
  /\ source' = [source EXCEPT ![k] = "ending"]
  /\ UNCHANGED <<uiVars, sending, cancelled, deltas, readerVars, hasty>>

\* [DONE], the end of the body, or the return after an error: close(ch).
Close(k) ==
  /\ running /\ source[k] \in {"parsing", "ending"}
  /\ source' = [source EXCEPT ![k] = "closed"]
  /\ deltas' = [deltas EXCEPT ![k] = 0]
  /\ UNCHANGED <<uiVars, sending, cancelled, channel, text, readerVars, hasty>>

-----------------------------------------------------------------------------
(* waitForStream *)

\* The next command of chain k waits for stream c, for ever if there is none.
WaitForStream(k, c) == /\ reader' = [reader EXCEPT ![k] = "waiting"]
                       /\ reads' = [reads EXCEPT ![k] = c]
                       /\ event' = [event EXCEPT ![k] = Done]

\* It gets an event, or finds the channel closed and empty.
Receive(k) ==
  /\ running /\ reader[k] = "waiting" /\ reads[k] # NoStream
  /\ LET c == reads[k] IN
       \/ /\ channel[c] # <<>>
          /\ event' = [event EXCEPT ![k] = Head(channel[c])]
          /\ channel' = [channel EXCEPT ![c] = Tail(@)]
       \/ /\ channel[c] = <<>> /\ source[c] = "closed"
          /\ event' = [event EXCEPT ![k] = Done]
          /\ UNCHANGED channel
  /\ reader' = [reader EXCEPT ![k] = "bringing"]
  /\ reads' = [reads EXCEPT ![k] = NoStream]
  /\ UNCHANGED <<uiVars, sending, source, cancelled, deltas, text, hasty>>

-----------------------------------------------------------------------------
(* Update: results of commands *)

\* sendStartedMsg
OnStarted(k) ==
  /\ running /\ sending[k] = "started"
  /\ sending' = [sending EXCEPT ![k] = "over"]
  /\ streamCh' = k /\ cancel' = k
  /\ WaitForStream(k, k)
  /\ UNCHANGED <<running, msgs, output, sourceVars, hasty>>

OnSendError(k) ==
  /\ running /\ sending[k] = "failed"
  /\ sending' = [sending EXCEPT ![k] = "over"]
  /\ appendOutput(SendErrorText)
  /\ UNCHANGED <<running, msgs, streamCh, cancel, sourceVars, readerVars, hasty>>

\* strings.TrimSpace
TrimSpace(s) ==
  LET solid == {i \in DOMAIN s : s[i] # Newline}
  IN  IF solid = {} THEN <<>> ELSE SubSeq(s, Min(solid), Max(solid))

\* What follows the last blank line.
lastAssistantContent ==
  TrimSpace(IF BlankLines(output) = {} THEN output
            ELSE SubSeq(output, Max(BlankLines(output)) + 2, Len(output)))

\* Bug: an error ends the reading but not the streaming state.
MutantOnEvent(k) ==
  /\ running /\ reader[k] = "bringing" /\ event[k].kind # "done"
  /\ appendOutput(event[k].text)
  /\ IF event[k].kind = "error" THEN WaitForStream(k, NoStream) ELSE WaitForStream(k, streamCh)
  /\ UNCHANGED <<running, msgs, streamCh, cancel, sending, sourceVars, hasty>>

\* A delta or an error; the next command waits for the stream that is read
\* now, whichever stream the event came from.
OnEvent(k) ==
  /\ running /\ reader[k] = "bringing" /\ event[k].kind # "done"
  /\ appendOutput(event[k].text)
  /\ WaitForStream(k, streamCh)
  /\ UNCHANGED <<running, msgs, streamCh, cancel, sending, sourceVars, hasty>>

\* The end of a stream is taken for the end of the one that is read now.
OnDone(k) ==
  /\ running /\ reader[k] = "bringing" /\ event[k].kind = "done"
  /\ msgs' = IF lastAssistantContent = <<>> THEN msgs
             ELSE Append(msgs, [role |-> "assistant", send |-> k, content |-> lastAssistantContent])
  /\ Cancel
  /\ cancel' = NoStream /\ streamCh' = NoStream
  /\ reader' = [reader EXCEPT ![k] = "none"]
  /\ UNCHANGED <<running, output, sending, source, channel, deltas, text, reads, event, hasty>>

Next == \/ EscCancels \/ EscQuits
        \/ \E k \in Sends : \/ Enter(k) \/ PostSucceeds(k) \/ PostFails(k)
                            \/ ParseDelta(k) \/ ParseError(k) \/ Close(k) \/ Receive(k)
                            \/ OnStarted(k) \/ OnSendError(k) \/ OnEvent(k) \/ OnDone(k)

\* Update takes the results of commands as they come, and a goroutine that can
\* go on does.  A stream need not end, unless it is cancelled: then its body
\* fails at the next read.  Nothing is assumed of the user and of the router.
Fairness ==
  /\ WF_vars(\E k \in Sends : OnStarted(k) \/ OnSendError(k) \/ OnEvent(k) \/ OnDone(k))
  /\ WF_vars(\E k \in Sends : Receive(k))
  /\ WF_vars(\E k \in Sends : cancelled[k] /\ (ParseError(k) \/ Close(k)))

Spec == Init /\ [][Next]_vars /\ Fairness

-----------------------------------------------------------------------------
(* Properties *)

\* The stream that is shown is cancelled; another one is not when it starts.
Cancelling == \E k \in Sends : streamCh = k /\ cancelled[k]

\* Esc while an answer is streaming gets the user back to the prompt, even if
\* the router never ends the stream and even if prompts overlapped and readers
\* have changed streams: whoever reads, somebody reads the stream that is
\* shown until its end (Update, waitForStream).
EscEndsStream == Cancelling ~> ~Cancelling

AnswersOf(k) == {i \in DOMAIN msgs : i > 1 /\ msgs[i].role = "assistant"
                                           /\ msgs[i - 1].role = "user" /\ msgs[i - 1].send = k}

EndsOf(s) == {TrimSpace(SubSeq(s, n, Len(s))) : n \in DOMAIN s}

\* For a user who waits until a prompt is sent before the next, every assistant
\* message in the conversation stands right after the prompt it answers and is
\* the end of that answer, never a word of another turn; and an answer without
\* a blank line is kept whole once it has ended (Update, lastAssistantContent).
TurnsIntact ==
  ~hasty =>
    /\ \A i \in DOMAIN msgs : msgs[i].role = "assistant" =>
         \E k \in Sends : i \in AnswersOf(k) /\ msgs[i].content \in EndsOf(text[k])
    /\ \A k \in Sends :
         /\ source[k] = "closed" /\ reader[k] = "none" /\ sending[k] = "over"
         /\ TrimSpace(text[k]) # <<>> /\ BlankLines(text[k]) = {}
         => \E i \in AnswersOf(k) : msgs[i].content = TrimSpace(text[k])

\* What the model answered in stream k; the text of an error is not its own.
Response(k) == TrimSpace(SelectSeq(text[k], LAMBDA x : x # ErrorText))

\* The comments on lastAssistantContent and in Update: what follows the last
\* blank line is the latest response, and it is persisted, so for the same user
\* the response of every stream that was read to its end is in the conversation.
LatestResponseKept ==
  ~hasty => \A k \in Sends :
              /\ source[k] = "closed" /\ reader[k] = "none" /\ sending[k] = "over"
              /\ Response(k) # <<>>
              => \E i \in AnswersOf(k) : msgs[i].content = Response(k)

\* The same user leaves no goroutine behind: when no prompt is pending and no
\* answer is shown, every stream is closed and read to its end, and nobody
\* waits for one (Send's goroutine blocks for ever on a full channel that has
\* lost its reader).
NothingLeaks ==
  ~hasty /\ streamCh = NoStream /\ (\A k \in Sends : ~Pending(k)) =>
    \A k \in Sends : /\ source[k] \in {"none", "closed"}
                     /\ channel[k] = <<>>
                     /\ reader[k] = "none"

=============================================================================
