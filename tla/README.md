# A specification of the prompt-response router

TLA+ modules, TLC configurations and TLAPS proofs for the Go program under
`src/`: a reverse proxy that classifies chat-completion requests by
complexity, picks a replica of a language model for each, streams the answer
back and keeps books about it.

## 1. The system

| Component | Source | State it keeps | Operations | What makes it hard |
|---|---|---|---|---|
| Circuit breaker, one per replica | `internal/circuit/breaker.go` | state, ring of 10 buckets, `openedAt` | `Allow`, `RecordSuccess`, `RecordFailure`, `State`, `ErrorRate` | reports arrive late and unordered; reads change state; time by integer division |
| Scorer | `internal/scorer/scorer.go` | none (reads store, poller, breakers) | `Pick`, `RecordHit` | calls a state-changing `Allow` on every candidate before it chooses |
| Health poller | `internal/poller/poller.go` | health and failure count per replica | one `pollLoop` per replica, `Snapshot` | runs beside the requests; a panic takes the process down |
| Proxy handler | `internal/proxy/handler.go` | locals of a request; shared: everything above and below | `ServeHTTP`, status, audit, usage, models, readiness endpoints | retries, timeouts, concurrent turns of one conversation |
| Dead-replica detection, stream interception | `internal/proxy/deadreplica.go`, `stream.go` | last activity, SSE buffer | `peekFirstByte`, watchdog, `Write` | a watchdog goroutine races the stream |
| Routing store | `internal/store` | affinity and conversation pins with a TTL, in Redis | get and set of both | reads may miss, writes may fail, entries expire, no compare-and-set |
| Rate limiter | `internal/ratelimit` | token bucket per tenant or address | `Allow` | fractions, bursts, refused calls refill too |
| Usage sink | `internal/usage/sink.go`, `postgres.go` | bounded channel, batch | `Enqueue`, worker, `Close` | full buffer, failing flushes, shutdown |
| Usage tracker | `internal/usage/tracker.go` | totals per tenant | `Record` (`Reset` has no caller but tests) | written beside audit trail and sink, without a common lock |
| Audit trail | `internal/audit/trail.go` | ring buffer | `Record`, `Recent` | wrap-around |
| Configuration, tiers | `internal/config`, `internal/types` | read once at start | defaults, validation, tier priorities | limits that validation does not set |
| Classifier client | `internal/classifier/classifier_router.go` | none | one HTTP call with a timeout of 2 s | may fail; its address is the router's own default address |
| Classifier service | `internal/classifier/app` (Python) | none | `classify`, `pick` | ranks tiers by a table of its own |
| Middleware, auth | `internal/middleware`, `internal/auth` | API keys | request id, timeout, body limit, key check | order of the chain; which client a request counts for |
| Command line client | `cmd/cli` | conversation, output, current stream | `Update`, `Send`, `waitForStream` | results of commands come in any order and do not name their stream |
| Main program | `cmd/router/main.go` | - | wiring, signal handling, shutdown | `sink.Close` runs while handlers may still stream |

How they interact: a request passes the chain that `main` builds (request id,
authentication, rate limiter, body limit and deadline) and the checks at the
head of `ServeHTTP`, which then looks up the conversation's pinned tier in the
store, asks the classifier, raises the answer to the pin, and then loops:
`Scorer.Pick` reads the affinity entry and the poller's snapshot and asks the
breaker of each candidate; the request is sent; the breaker is told about a
failure (and another replica is tried) or, at the first byte, about a
success. The answer is streamed; a stream that stalls or ends without
`[DONE]` is reported to the breaker as a failure after all. Then the affinity
entry and the pin are written, the breaker's state is read for a gauge, and
the audit record and the usage event are produced. Pollers, the sink's
worker and other requests run beside this at all times.

## 2. Modules

| Module | Models | Composed of |
|---|---|---|
| `SlidingWindow` | the ring of buckets, as operators on a record | |
| `WindowHistory` | the ring with its clock, next to the exact history of results | `SlidingWindow` |
| `BreakerStates` | what each breaker method does to the state a caller can tell apart | |
| `AbstractBreaker` | the contract of a breaker, without clock and window | `BreakerStates` |
| `CircuitBreaker`, `MCCircuitBreaker` | one breaker with clock, window and its concurrent callers; implements `AbstractBreaker` | `WindowHistory` |
| `WindowProofs` | proofs | `WindowHistory` |
| `CircuitBreakerProofs` | proofs | `CircuitBreaker`, `WindowProofs` |
| `Poller` | health, failure counts, the effect of a scrape | |
| `PollerOutage` | the poller next to replicas that go and come back | `Poller` |
| `Router`, `MCRouter` | the request path: handler, scorer, store, poller, one abstract breaker per replica | `Poller`, `BreakerStates` |
| `RouterProofs` | proofs | `Router` |
| `RateLimiter` | token buckets with observers of grants | |
| `Gateway`, `MCGateway` | the middleware chain, the checks of the body, the classifier call and its way back into the router | `RateLimiter` |
| `GatewayProofs` | proofs, of the limiter alone and behind the chain | `Gateway` |
| `SSE` | `parseSSE` and `processEvent`, as operators on sequences | |
| `Stream`, `MCStream` | one upstream attempt: handler, watchdog, deadline, replica and client | `SSE` |
| `StreamProofs` | proofs | `Stream` |
| `UsageSink` | channel, worker, flushes, `Close` | |
| `AuditTrail` | the audit ring next to the full log | |
| `Accounting` | the end of `ServeHTTP` for concurrent requests, the tracker, and the shutdown of `main` | `UsageSink`, `AuditTrail` |
| `AccountingProofs` | proofs, of the sink alone and between the handlers | `Accounting` |
| `Tiers` | rule matching, tier selection, `HigherTier`, as operators on a replica list | |
| `ModelSelect` | the classifier service's choice of a tier and its clamp, as operators | |
| `Config`, `MCConfig` | `Load` with defaults and validation, restarts, and a pin that outlives them, between service and router | `Tiers`, `ModelSelect` |
| `ConfigProofs` | proofs | `Config` |
| `Chat`, `ChatProofs` | the command line client | |

### How state and steps correspond to the code

*CircuitBreaker.* Every method of `Breaker` holds the mutex throughout, so
each is one atomic step; `state`, `window` and `openedAt` are the struct's
fields, `clock` is `time.Now`. The callers are the requests of the handler:
`granted` is the time between `Allow` and the first byte or failure,
`streaming` the time until the body ends. Variables marked *history* are
not in the code and never guard a step, except that `Recorded`, the number of
results in the histories `ok` and `bad`, bounds a run through `MaxResults`. What
the methods do to the window is taken from `WindowHistory`, whose own
specification allows these steps in any order; closing the breaker makes a new
window and empties the histories with it. `Benign` selects which of two ways a request can end as
a failure without a fault of the replica: the client goes away before the first
byte (`Disconnect`), or the answer ends without `[DONE]` (`NoDone`), because it is
no event stream or because the client went away in the middle.

*Router.* One action per call that touches shared state. `pc` is the line the
goroutine of a request has reached; `Pick` is one step per replica it visits,
because each visit calls `Allow` under that breaker's own lock. A store read
returns the entry or nothing (error, timeout); a write happens or not. The
breakers are those of `BreakerStates`: `cooled` is an open breaker whose
cooldown has elapsed, and `CircuitBreaker` is shown to behave like that
(`ImplementsAbstractBreaker`). Tiers are their priorities; `NoTier` is the
absence of a pin. Handler locals return to their initial value when they go
out of scope, which the code does by returning. A successful scrape ends the
process (see finding 1): requests in flight are `lost`, memory is as at
start, and `Restart` starts it again with whatever the store still holds.
The affinity entry is read twice, by `Pick` and again when the answer has begun
(`LookUpHit`); the second read decides what is reported as a cache hit.
Since a successful scrape is never stored, queue depth and cache use stay
zero in every snapshot and the score depends on the affinity alone.

*RateLimiter.* Tokens are counted in fractions (`TokenUnits` per token,
`RatePerTick` added per tick) so that the `float64` is an integer; rounding of
`float64` is not modelled. `Mark` is an observer that may start to count the
grants of a key at any time.

*Gateway.* A slot is a connection of a client or the request that the router
sends to itself on account of it; `stage` is the middleware or handler it has
reached. `enabled` and `selfAddress` are chosen at the start: which parts of
the chain are configured, and whether the router listens where
`InitializeClassifier` expects the classifier. Keys are presented in either
header or both; two entries with one key leave the last. Bodies are the classes
that the checks tell apart. A bucket is made in a step of its own, because
`getOrCreate` and `Allow` take different locks. What follows the classification
is `Router`, here one step; the paths `/metrics` and `/dashboard` do not pass
the chain. `reached` counts the requests of an observed client that pass the
limiter, independently of the bucket they were charged to.

*UsageSink.* `worker` is the place of the goroutine in `run`; a flush is a
step of its own during which events arrive. The batch of upserts is one
implicit transaction, so it is stored or not. `FlushOk` also stands for a
flush whose commit succeeded and whose answer was lost: the worker treats
both alike. `Enqueue` stays enabled after `Close`, as it does in the code.

*Stream.* `reader` is the place of the handler between `doUpstream` and the
judgement, `watchdog` that of the goroutine of `newStallWatchdog`; they share
the time of the last activity, the flag and the cancelled context. A body is
a sequence of symbols (`data`, a token, `[DONE]`, a newline, anything else)
that the replica delivers in fragments of any size, or stops delivering. The
first byte is peeked and replayed. A write to the client may take any time,
and the client may leave. Time passes only while nothing is due that a timer
would already have done, so a bound like that of `StallDetected` is one of the
code and not of the scheduler. Inter-token times, which only feed metrics, are
left out.

*AuditTrail.* Both methods hold the lock throughout.

*Accounting.* `handler` is the place of each request's goroutine between its
acceptance and its return; audit record, `Tracker.Record` and `Enqueue` are
one step each, since each takes its own lock or channel. `server` is the place
of `main`: up, in `Shutdown`, in the deferred `Close`, exited. `Shutdown`
returns when no handler runs, or times out (10 s) while one does. There is one
tenant; token counts are not modelled.

*Config.* `Load(file)` is a start of the router that succeeds; a file that
`validate` refuses ends the process at once and changes nothing. Between a
start and the next `Stop`, `Turn` is a served turn of one conversation, one
after the other (their races are `Router`'s). The five thresholds of a rule
are a function over `Dims`, since the code treats them alike; a model name is
the size that `parseModelSize` finds in it. `TierForClassification` is called
by tests only: the running router gets its tier from the classifier service.
That is `ModelSelect`: the numbers that the network gives a prompt are inputs, a
model is its tier, and what `CODE_SIGNALS` finds in the name of a task is
listed. `Turn` composes the two clamps: the service raises its choice to the pin
it is told, the router raises the answer again. `Sorted` is what `sort.Slice`
promises, a list of the same tiers in the order of their priorities, and not how
it gets there; validation makes that list unique. `FileAssumption` says what the
YAML decoder makes of any file: numbers are numbers, lists are lists.

*Chat.* Update runs alone; a result of a command waits in the goroutine that
made it until Update takes it. The chain of `waitForStream` commands that a
stream starts is one reader: every event makes Update start the next command of
the chain, for the stream that is shown then. The output is kept from its last
blank line on, as words and newlines, which is all that `lastAssistantContent`
reads. The history `text` is kept while `hasty` is false, that is, while the
user has not sent a prompt with another one pending.

## 3. Properties

The properties are aimed at the hazards that `PROJECT.json` lists. Type
invariants are stated where a proof needs them (`CircuitBreaker`,
`RateLimiter`, `UsageSink`, `RouterProofs`, `GatewayProofs`, `ChatProofs`,
`WindowProofs`) and proved.

* `CooldownRespected`, `SingleProbe`, `TripNeedsFreshEvidence`: whatever the
  order of late reports, a breaker that opened lets nothing through before its
  cooldown, one probe per episode, and opens only on evidence gathered since
  it last closed.
* `WedgeIsPermanent` (breaker and router): a half-open breaker that no request
  owes a report can never be left. This is what makes finding 2 serious.
* `RecentResultsCounted`, `OldResultsForgotten`: lower and upper bound of what
  the ring counts, against the exact history. The upper bound,
  `(N-1)(2d-1) + d-1` for `N` buckets of `d` ticks, is tight; it is almost
  twice the configured window.
* `RetriesReachFreshReplicas`, `AuditMatchesSends`: a request is never sent to
  a replica twice nor more than `1 + MaxRetries` times, and the audit record
  says what happened.
* `HitsAreReal`: a cache hit in the audit trail is one that another request
  made possible, never the request's own, and at the replica that it names.
* `StepsComeNearer`, `PickNeverStuck`: a measure of what a request has still to
  do (attempts, stages, replicas to look at) falls with each of its steps, and
  in `Pick`, where breakers change under it, there is always a step to take.
  With the fairness of `Router` this means that every request is answered
  unless the process dies; stated so, the first can be proved and both can be
  checked with symmetry on two requests.
* `PickIsBest`: `Pick` returns what it should, given who admitted the request,
  although everything changes while it looks. A replica whose score does not
  exceed the value that `Pick` starts from is never returned, and the property
  says so; the comment on `Pick` promises more (section 6).
* `DowngradeNeedsStaleRead`: a pin is lowered only if the request's own read
  of it was out of date or missed; the clamp is otherwise effective.
* `RetryAfterHonoured`: a client that obeys `Retry-After` is served. That the
  limiter grants at most burst plus refill in any interval (`IntervalBound`) is
  proved; the run checks what a client sees of it, the next property.
* `QuotaPerClient`, `RefusedForOwnUse`: what this means for clients, through
  authentication and key choice: a tenant has one quota whatever its keys and
  addresses, and is refused only because of what it used itself. The exception
  is stated in the property: without authentication, a client on the router's
  own host shares its bucket with the calls that the router makes to itself.
* `SelfCallFallsBack`: with the classifier at the router's own address (the
  default of both) a request that the router sends to itself is turned away
  before it would be classified, so there is no endless recursion, and its
  answer is never taken for a classification.
* `FragmentsDoNotMatter`, `ByteIdentical`: what is counted and copied depends
  on the body and not on how the network cut it; the reference is a reader that
  takes the delivered text one symbol at a time and has no buffer to search.
* `StallDetected`, `JustVerdict`, `VerdictStands`, `AttemptEnds`: a stalled
  stream is cancelled within the timeout and one sampling interval (the bound of
  the code; the comment's bound of 1.25 timeouts, `DetectedWithinQuarter`, fails for
  short timeouts, finding 6); a complete
  answer is called dead only after a silence of the stall timeout; the verdict
  does not change after it was used; and the copy ends unless the client
  neither reads nor leaves.
* `Conserved`, `StoredOnceInOrder`, `DrainedOnClose`, `EventsMove`: the sink's
  books balance at every moment, `Close` drains what was reported before it,
  and a partial batch does not wait for ever.
* `BooksAgree`, `NothingLeftAtExit`, `ShutdownEnds`: tracker, sink and audit
  trail agree at every moment up to the requests between two of them; after a
  shutdown that did not time out everything is stored or counted; and the
  process ends after a signal.
* `AssumptionsMet`, `SelectsFirstMatch`, `PinIsHighest`: what the other modules
  assume of their constants follows from validation; tiers are selected in
  priority order from any file; and a pin is the highest tier answered, across
  changes of the configuration. The last is what allows `Router` to treat
  tiers as numbers.
* `ClampsAgree`: the clamp in the service and the one in the router together do
  what the router's alone would do, for every file that orders the shared tiers
  as the service does and every pin to a tier of the file (section 6 says what
  happens to others).
* `TurnsIntact`, `NothingLeaks`, `EscEndsStream`: for a user who does not send a
  prompt while another is being sent, each answer is stored after its prompt,
  as an end of what the stream sent and whole if it has no blank line, and no
  goroutine is left behind; for every user, Esc ends the stream that is shown.
  The comments promise more, that what is stored is the response
  (`LatestResponseKept`, finding 7).
* `RecentIsNewestFirst`: the audit ring equals the end of the log, across
  every wrap.

## 4. Runs

| Run | Bounds | Why they are enough |
|---|---|---|
| `breaker` | 2 callers, 2 buckets of 2 ticks, cooldown 2, 2 samples, 7 ticks, 4 results between closings | a trip, a cooldown, a probe, a failed probe and a second cooldown fit; a stale report needs a second caller; longer than the horizon of `OldResultsForgotten` (4 ticks), so that forgetting happens, and 2 ticks per bucket leave a remainder to lose |
| `router` | 2 requests of one conversation, 2 replicas of 2 tiers, 1 retry | every race of two turns, each replica tried and retried, an affinity entry written by one turn and read twice by the other; `FailureLimit` is 1, as the count of failures is no one else's concern |
| `gateway` | 2 connections, 2 tenants with 3 keys between them, 2 hosts, burst 1, half a token per tick, 3 ticks | two requests of one client at once, by different keys or from different hosts; a bucket runs empty and refills; a request and the router's own request beside another client's |
| `stream` | stall timeout 4, sampling at least every 2, deadline 7, 8 ticks, fragments up to 3, six bodies | the floor of the sampling interval is in force; a stall can begin and be detected before the deadline, and the deadline can come first; the bodies include one without final blank line, one with extra blank lines, one that is no event stream and an empty one |
| `accounting` | 4 requests, ring of 2, channel of 1, batch of 2 | two turns of the ring, full channel, full and partial batches, drops, events after `Close` |
| `config` | 1 to 3 tiers in every order of priorities, each flaw that `validate` looks for, each number absent, negative, small or too large, every choice of options | every pair of tiers and the fallback in every place; every flaw also occurs alone, so that no check hides another; a file with the five tiers of `config.yaml` and one that the service does not know |
| `chat` | 2 prompts, 2 deltas per stream, a channel of 1 | two overlapping streams, readers that change streams, a producer blocked on a full channel, blank lines made of two deltas or of a delta and an error |

Five more runs each check one statement that a comment, a test or a document
makes and that the code does not keep; see section 6. Their bounds are those of
the passing run of the same module, with these differences:

| Run | Statement | Differs in |
|---|---|---|
| `breaker_shut_out` | `HealthyReplicaHasProbe` | the default `min_samples` of 5, 8 ticks, 6 results |
| `poller_recovery` | `RecoversAfterOutage` | a module of its own, `PollerOutage` |
| `router_downgrade` | `TierNeverDecreases` | - |
| `stream_late` | `DetectedWithinQuarter` | the stall timeout is as short as the sampling floor (50 ms), 12 ticks |
| `chat_truncated` | `LatestResponseKept` | - |

Symmetry is used only in runs without liveness properties. The runs of `Stream`,
`Accounting`, `Chat` and `PollerOutage` do not check for deadlock, because
their behaviours end: the attempt is judged, the process has exited, or it is
down.

### Fairness

* `Router`: weak fairness of every step of a request's goroutine. No step can
  block for ever: reads of the store time out after 50 ms, the classifier
  after 2 s, an attempt after `retry.timeout`, a silent body after
  `stream.stall_timeout`. Nothing is assumed of clients, replicas, pollers or
  cooldowns.
* `UsageSink`: weak fairness of the worker's steps (a flush ends because of
  its 5 s context; the ticker keeps firing) and strong fairness of noticing
  the stop channel: Go's `select` chooses at random among the ready cases, so
  it does not pass over one for ever.
* `Stream`: weak fairness of the handler's own steps, of the watchdog, of the
  deadline and of time. Nothing is assumed of the replica or of the client:
  the server sets no `WriteTimeout`, so a client that takes no bytes holds the
  handler in `Write`, and `AttemptEnds` says so.
* `Accounting`: that of `UsageSink`, and `main` goes on: `Shutdown` returns or
  times out, `Close` returns once the worker is gone. Nothing is assumed of the
  handlers, which may stream for ever.
* `Chat`: Update takes the results of commands, readers receive what is there,
  and the body of a cancelled request fails at the next read. Nothing is assumed
  of a stream that is not cancelled, nor of the user.
* `PollerOutage`: the ticker of each `pollLoop` keeps firing.

## 5. Proofs

TLAPS checks these for every value of the constants that satisfies the named
assumptions (positive sizes, durations and rates). Each assumption is what
`applyDefaults` and `validate` in `internal/config/config.go` establish
(`AssumptionsMet`, proved in `ConfigProofs`), with these exceptions, which `validate`
leaves unchecked: `Cooldown` and `MaxRetries` are assumed positive, `Deadline`
not negative, and a bucket of the window at least one unit of time. Of what is
not configured, `Router` assumes that replica ids are distinct (see section 6)
and that an affinity never lowers a score; `Gateway` assumes that tenants and hosts
are keys of the limiter and that the value that stands for "no tenant" is not a
tenant, as `TenantFromContext` returns a flag beside the name. A tenant may
well be called like a host.

* `CircuitBreakerProofs`. Every step of a breaker is a step of `WindowHistory` or
  leaves the window alone (`WindowDriven`), so what `WindowProofs` shows holds of
  it. The inductive invariant of the rest says that `tripped` equals `openedAt`,
  that a breaker that is not open has outlived its cooldown, and that a half-open
  one has admitted at most one request. `CooldownSafe`, `SingleProbeSafe` and
  `TypeCorrect` follow; `WedgeForever` goes action by action. `Refinement` shows
  initial states and steps map to those of `AbstractBreaker`: a tick is a stutter or
  `CooldownElapses`, every method its namesake. `FreshEvidence` needs what the
  buckets add up to: by `OldResultsForgotten` the totals are at most those of a
  part of the history, which begins with the last closing.
* `WindowProofs`, for every number and duration of buckets. The totals are sums
  over sets, which the library defines by recursion over finite sets; the first
  part proves from that definition what a sum does when a set grows, shrinks or is
  partitioned (see below for how). The invariant gives the ring the boundaries
  that it does not store: from when on each slot was the current one. Neighbours
  are one to two bucket durations apart, because `advance` forgets the fraction
  that was left, and every slot holds exactly the results recorded between its
  boundaries; a new window starts with boundaries one bucket duration apart and
  nothing between them. `RecentResultsCounted` and `OldResultsForgotten` are the two ends of
  that interval, summed over the ring.
* `ConfigProofs`, for every set of files, tiers and classifications. A sorted list
  exists, because the number of tiers before each one gives it its place; where
  names and priorities are distinct, as `validate` demands, the flattened list has
  the tiers in that order, each with its own replicas in a row. So `PriorityOf`
  and `TierForClassification`, which walk through the list, find what the file
  says (`Ranking`, `Selection`). `PinIsHighest` needs beside itself that a router
  that is up has the list of an accepted file and that a conversation without
  answers has no pin. `ClampsAgree` goes through the cases of who knows which tier.
* `GatewayProofs`, the limiter alone. `IntervalBound` is not inductive: it does not say what
  the bucket still holds. `Budget` adds the level of the bucket to the grants;
  `Saved` says that a bucket is full or holds what the rate added since the
  last grant, from which `RetryAfterHonoured` follows by rounding the division
  up.
* `AccountingProofs`, the sink alone. `StoredOnceInOrder` speaks of a concatenation; the
  invariant `Pipeline` states it of the three stages separately (each
  increasing, each older than the next, all older than the next event), which
  every step changes at one end only. `Closing` says that only `Close` sends
  the worker to its drain loop, which `DrainedOnClose` needs.
* `StreamProofs`. The invariant relates the watchdog's next sample to the last
  activity: while the watchdog waits, the next sample is at most one interval
  away and the previous one found no stall; when it fires, the silence has
  lasted. `StallDetected`, `JustVerdict` and `VerdictStands` follow for every
  body, timeout and floor. `ByteIdentical` needs a second invariant, `Copied`,
  which also says what the chunk in hand adds while a write is under way; its
  steps rest on lemmas that regroup concatenations. For `FragmentsDoNotMatter`,
  `LoopExists` shows that the loop of `parseSSE` ends on every buffer, each round
  leaving a shorter one. `ParseInParts` says that parsing a buffer and then more
  text is parsing all of it, so between two `Write`s the interceptor is where a
  parser of everything written would be (`Intercepted`); `ReferenceIsParse` says
  that this parser has counted what the reader of single symbols has.
* `AccountingProofs`, with the handlers. Every step of `Accounting` is a step or a stutter of
  `UsageSink` (`SimulatesSink`), so the sink's invariant carries over. Two
  facts are added: the tracker is ahead of the sink by the handlers between
  the two, and unless the shutdown timed out there is no such handler once
  `Close` was called. `NothingLeftAtExit` follows from these, `Conserved` and
  `DrainedOnClose`; `BooksAgree` from the first and from `TrailAhead`, which
  counts the handlers between audit record and tracker. For the ring, `RingInv`
  ties the slots to the log, counted backwards from `head`. Lemmas about small
  remainders say which slot that is across the wrap, and that one more record
  overwrites the oldest only.
* `RouterProofs`, for any number of requests, replicas, tiers and retries. The
  loop invariant says, for each stage of a request, what its locals are: the
  replicas it has been sent to are exactly those it has excluded, plus the one
  it is being sent to; their number is the loop counter; `Pick` looks at and
  returns only replicas that are not excluded. `RetriesReachFreshReplicas` and
  `AuditMatchesSends` follow. For `PickIsBest`, `BestSoFar` says that `best` and
  `fallback` are the first best of the replicas seen so far, all of which come
  before those still to see. `DowngradeNeedsStaleRead` needs only that a
  classified request asks for no lower tier than it read. `HitsAreReal` needs that
  every affinity entry was written by a request that filled it, and that a
  request fills none before it has looked up its own hit. `WedgeIsPermanent` goes action by action:
  only a report or an `Allow` that admits leaves the state. `StepsComeNearer` bounds the
  measure within one round of the loop (`OneRound`) and shows that the next
  round starts below it; the cardinality of the replicas still to look at is
  what falls inside `Pick`.
* `GatewayProofs`, the chain, for any number of connections, tenants, hosts and keys. Every
  step of the chain is a step or a stutter of `RateLimiter`
  (`GatewayImplementsLimiter`), so that `IntervalBound` and
  `RetryAfterHonoured` hold behind it. `ChainInv` says what is known at each
  stage: there is a tenant only with authentication, and then every request at
  the limiter has one; the router's request to itself comes from the loopback
  address, never gets as far as the classifier, and its answer is never a success.
  `SelfCallFallsBack` follows. `Counted` relates what has reached the handler on
  a client's account to the grants of that client's bucket, which gives
  `QuotaPerClient`; `OwnUse` says that the bucket of a client that shares it with
  nobody is full or was last drawn on by that client, which with `Saved` gives
  `RefusedForOwnUse`. Two entries of the key file may hold one key: `Greatest`
  finds the last of them by the least-number principle.
* `ChatProofs`, for any number of prompts and deltas and any size of the
  channels. `NothingLeaks` is not inductive: it says nothing while a turn is
  going on. `OneAtATime` says that at most one turn is live, and `Lifecycle` what
  a turn owns at each stage: a stream that is produced or not yet read belongs to
  a live turn, the reader is there exactly while the stream is shown and reads
  that stream, and it learns of the end only when the channel is closed and
  empty. `TurnsIntact` needs in addition where an answer is while its turn is
  live: `Flowing` says that the output after the prompt's blank line, the event
  that the reader brings and the events in the channel, joined, are what the
  stream has sent, and `Asking` that the prompt is the last message. At the end
  nothing is left to join, and `AnswerTaken` says what `lastAssistantContent` makes
  of that output. It rests on lemmas about blank lines: appending to the part of
  the output after the last blank line is appending to the whole (`LastPartAppend`),
  and after a prompt that part is empty (`AfterPrompt`).

Recursive definitions. The library's induction theorems take a predicate as a
parameter, which the provers cannot instantiate. The proofs use the least-number
principle instead, for a set of numbers or of finite sets in place of the
predicate (`SubsetInduction`, `NatAll`, `ParseInduction`): if the statement failed
anywhere it would fail at a least one. That a recursive function exists at all is
proved in the same way, as the functions that satisfy its equation up to a bound
and agree where both are defined (`RoundExists`, `LoopExists`, `JoinedExists`,
`ReadsExist`).

Only model-checked, and why:

* `AttemptEnds`, `EventsMove`, `ShutdownEnds`, `EscEndsStream`: liveness.
* `PickNeverStuck`, which says ENABLED.

The prover handles neither. Every other property of a passing run is a theorem.

## 6. Where the code and its documentation disagree

1. `poller_recovery`: the first successful scrape panics
   (`println(err.Error())` before `err` is tested, `poller.go:77`).
2. `breaker_shut_out`: `State()` ends a cooldown without sending a probe, or
   `Pick` spends the probe of a replica that it does not choose; the replica is
   refused for ever after. The run shows it for a replica that never did anything
   wrong; what opens its breaker are findings 4 and 5.
3. `router_downgrade`: concurrent turns lower a conversation's tier, which is
   said never to decrease.
4. `breaker_shut_out`, too: complete answers that are not event streams count as
   failures of the replica (`handler.go:356`).
5. Likewise clients that go away before the first byte, whose context is that of
   the attempt (`handler.go:221`).
6. `stream_late`: the comment on the watchdog promises detection within 1.25
   times the stall timeout by sampling at a quarter of it, but the code samples
   no more often than every 50 ms (`deadreplica.go:84`), so below a timeout of
   200 ms the bound is the timeout and one interval, which is `StallDetected`.
7. `chat_truncated`: the comment on `lastAssistantContent` says that everything
   after the last blank line is the latest response (`tui.go:154`), but a response
   that has a blank line itself loses what is before it, and the text of a stream
   error becomes part of it or takes its place. `TurnsIntact` says what is true of
   the stored message.

Noted, without a run: the ring counts results older than the window, up to the
horizon of `OldResultsForgotten` (`breaker.go:68` forgets the elapsed fraction
of a bucket); the comment on `HigherTier` says `b` is returned when
both tiers are unknown, the code returns `a` (`types.go:369`); the help text of
`router_circuit_state` swaps open and half-open (`metrics.go:83`); the comment
on the watchdog says a zero activity defers the deadline, the code counts from
the start (`deadreplica.go:77`); replica ids are not checked for duplicates;
the classifier endpoint is the router's own default address
(`classifier_router.go:60`), so that with the shipped configuration every
classification fails and falls back to the lowest tier; a JSON body `null`
passes `Unmarshal` and `injectDefaults` then writes to a nil map, so the
connection is closed without an answer (`handler.go:797`); the comment at
`handler.go:373` says `requestStart` is before classification, it is set after
(`handler.go:207`); the tier `reasoning` of the shipped `config.yaml`
is never selected by its rules, because every classification that satisfies
them satisfies those of `large`, which is looked at first; `validate` accepts a
negative cooldown, retry timeout, number of retries (every request then gets
503), poll interval (`NewTicker` panics) and affinity time, and a window
shorter than ten nanoseconds, by a tenth of which `advance` divides; in the
classifier service "class" is one of `CODE_SIGNALS` and part of
"Classification", so those tasks go to the tier `code` and the branch for them
is not reached (`model_select.py:53`), and `classify` does not pass the text of
the prompt to `pick`, so code in it has no effect (`main.py:27`); `validate` bounds
`miss_penalty` only from below, and with the default weights one of 1.5 or more
puts the score of every replica without the prefix below the -1.0 that `Pick`
starts from (`scorer.go:55`), so that a request gets 503 although healthy replicas
admitted it, where the comment says that `Pick` "falls back to any healthy
replica"; the service ranks a pin to a tier that the file in effect does not have
(`model_select.py:80`), so such a conversation stays there, where the router's
clamp alone would move on, though the comment at `handler.go:185` says that the
service applies the same clamp; a prompt sent while another is being sent may be
answered with the other's text, and leaves the first stream without a reader, whose
goroutine then blocks on a full channel for ever, though the comment on `Send` says
that the caller drains it (`client.go:44`).

## 7. Plan

Done: breaker and window, poller, request path with cache hits, stream, rate
limiter, middleware chain and classifier call, usage sink, accounting and
shutdown, configuration, tiers and the classifier service's choice, command line
client; the safety proofs of all of these. What would come next:

1. *Router*: queue depth and cache use, once a scrape can succeed.
2. *Breaker*: a contract for `State` and `Pick` that does not lose probes, for
   `Router` and `CircuitBreaker` to be checked against once finding 2 is settled.

## 8. Not modelled

The neural network of the classification service (it may say anything), its
score bucket and `types.ScoreBucket`, which nothing reads; the deprecated
classifiers, which are commented out; metrics, logging and the request id; what
the read-only endpoints show, except that the status endpoint changes breakers;
the times in usage records (`LastSeen` may go back when two requests of a tenant
end together, `tracker.go:54`); typing and layout of the command line client;
the web interface, the mock replica, the test helpers and the load generators.
Redis, PostgreSQL, the replicas, the clients, Bubble Tea and the supervisor that
restarts the process are external and modelled by what they can do to the
program. `float64` rounding is not modelled, nor is the growth of the limiter's
registry, which never removes a bucket.
