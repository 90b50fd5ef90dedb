------------------------------- MODULE Router -------------------------------
(***************************************************************************)
(* The request path of the router: Handler.ServeHTTP with Scorer.Pick, the *)
(* breakers of all replicas, the health poller, and the conversation and   *)
(* affinity entries in the shared store.  Requests run concurrently, one   *)
(* goroutine each; every call that touches shared state is an action of    *)
(* its own, so what a request read can be stale when it is used.  Local    *)
(* variables get their initial value back when they go out of scope.       *)
(*                                                                         *)
(* Breakers are AbstractBreaker's, whose contract CircuitBreaker keeps.    *)
(* Redis, the classifier, the replicas and the clients are external: reads *)
(* may miss, writes may fail, answers may be anything.                     *)
(***************************************************************************)
EXTENDS Poller, Sequences, FiniteSets, BreakerStates

CONSTANTS Requests,      \* the requests of a behaviour
          ReplicaOrder,  \* Scorer.replicas, in configuration order
          TierOf,        \* tier of each replica, as its priority
          Tiers,         \* configured tiers; 1 is the lowest
          ConvOf,        \* conversation hash of each request
          PrefixOf,      \* prefix hash of each request
          MaxRetries,    \* Retry.MaxRetries
          HitScore,      \* score of a replica the prefix has affinity to ...
          MissScore,     \* ... and of any other, scaled and shifted to naturals
          FloorScore,    \* the -1.0 that a score must exceed, likewise
          NoReplica,     \* the zero config.Replica
          WarmStore      \* whether the store may hold entries of an earlier
                         \* life of the router when it starts

NoTier == 0

Convs == {ConvOf[q] : q \in Requests}

Prefixes == {PrefixOf[q] : q \in Requests}

MaxAttempts == 1 + MaxRetries

ASSUME RouterAssumption ==
  /\ ReplicaOrder \in Seq(Replicas)
  /\ \A r \in Replicas : \E i \in DOMAIN ReplicaOrder : ReplicaOrder[i] = r
  /\ \A i, j \in DOMAIN ReplicaOrder : ReplicaOrder[i] = ReplicaOrder[j] => i = j
  /\ Tiers \subseteq Nat \ {NoTier}
  /\ TierOf \in [Replicas -> Tiers]
  /\ MaxRetries \in Nat \ {0}
  /\ {HitScore, MissScore, FloorScore} \subseteq Nat
  /\ HitScore >= MissScore
  /\ NoReplica \notin Replicas
  /\ WarmStore \in BOOLEAN

VARIABLES breaker,       \* abstract state of each replica's breaker
          affinity,      \* store: prefix hash -> replica
          conv,          \* store: conversation -> tier it is pinned to
          pc,            \* where each request is
          seen,          \* prevConv.Tier, NoTier when there is none
          tier,          \* result.Tier
          attempt,       \* retry loop counter
          excluded,      \* replicas this request failed on
          todo,          \* Pick: replicas of the snapshot still to look at
          aff,           \* Pick: affinityID
          best,          \* Pick: best tier-matched replica so far
          fallback,      \* Pick: best other replica so far
          target,        \* chosen replica
          hit,           \* cacheHit
          trail,         \* audit records
          granted,       \* history: replicas that Allow admitted in this Pick
          sent,          \* history: replicas this request was sent to
          filled         \* history: replica each request made the affinity of
                         \* its prefix

storeVars == <<affinity, conv, filled>>
pickVars  == <<todo, aff, best, fallback, granted>>
loopVars  == <<attempt, excluded, target, sent, hit>>
reqVars   == <<seen, tier>>
vars == <<pollerVars, breaker, storeVars, pc, reqVars, loopVars, pickVars, trail>>

\* Breakers and handler locals that nothing has happened to yet.
AllClosed  == [r \in Replicas |-> "closed"]
Nowhere    == [q \in Requests |-> NoReplica]
Nothing    == [q \in Requests |-> {}]
Untiered   == [q \in Requests |-> NoTier]
Unattempted == [q \in Requests |-> 0]
Unsent     == [q \in Requests |-> <<>>]
AllMiss    == [q \in Requests |-> FALSE]

Init == /\ PollerInit
        /\ affinity \in [Prefixes -> {NoReplica} \cup IF WarmStore THEN Replicas ELSE {}]
        /\ conv \in [Convs -> {NoTier} \cup IF WarmStore THEN Tiers ELSE {}]
        /\ pc = [q \in Requests |-> "idle"]
        /\ breaker = AllClosed
        /\ seen = Untiered /\ tier = Untiered
        /\ attempt = Unattempted /\ excluded = Nothing
        /\ target = Nowhere /\ sent = Unsent /\ hit = AllMiss
        /\ filled = Nowhere
        /\ todo = Nothing /\ granted = Nothing
        /\ aff = Nowhere /\ best = Nowhere /\ fallback = Nowhere
        /\ trail = {}

\* The goroutine of q moves on; it can only while the process runs.
Goto(q, from, to) == up /\ pc[q] = from /\ pc' = [pc EXCEPT ![q] = to]

-----------------------------------------------------------------------------
(* ServeHTTP up to the retry loop *)

\* Method, body or messages are not acceptable: a 4xx before anything shared
\* is touched.
Reject(q) == /\ Goto(q, "idle", "done")
             /\ UNCHANGED <<pollerVars, breaker, storeVars, reqVars, loopVars, pickVars, trail>>

\* The request is well formed and its conversation is looked up; an error or
\* a timeout of the store is a miss.
Arrive(q) ==
  /\ Goto(q, "idle", "classify")
  /\ \E found \in {conv[ConvOf[q]], NoTier} : seen' = [seen EXCEPT ![q] = found]
  /\ UNCHANGED <<pollerVars, breaker, storeVars, tier, loopVars, pickVars, trail>>

HigherTier(a, b) == IF a >= b THEN a ELSE b

\* Bug: the re-clamp of the classifier's answer is lost.
MutantClamp(q, t) == t

\* Up-tier-only enforcement against the pin that was read.
Clamp(q, t) == IF seen[q] = NoTier THEN t ELSE HigherTier(seen[q], t)

\* The classifier may answer any tier; an error means the lowest, 1.
Classify(q) ==
  /\ Goto(q, "classify", "pick")
  /\ \E t \in Tiers : tier' = [tier EXCEPT ![q] = Clamp(q, t)]
  /\ UNCHANGED <<pollerVars, breaker, storeVars, seen, loopVars, pickVars, trail>>

-----------------------------------------------------------------------------
(* Scorer.Pick *)

\* Bug: a replica that failed this request is a candidate again.
MutantCandidates(q) == Snapshot

Candidates(q) == Snapshot \ excluded[q]

\* GetAffinity, which may miss, and the poller's snapshot.
BeginPick(q) ==
  /\ Goto(q, "pick", "visit")
  /\ \E a \in {affinity[PrefixOf[q]], NoReplica} : aff' = [aff EXCEPT ![q] = a]
  /\ todo' = [todo EXCEPT ![q] = Candidates(q)]
  /\ UNCHANGED <<pollerVars, breaker, storeVars, reqVars, loopVars, best, fallback, granted, trail>>

Position(r) == CHOOSE i \in DOMAIN ReplicaOrder : ReplicaOrder[i] = r

\* The replica the loop comes to next.
IsNext(q, r) == /\ r \in todo[q]
                /\ \A s \in todo[q] : Position(r) <= Position(s)

\* Queue depth and cache use are zero in every snapshot (see Poller), so the
\* score of a replica depends on the affinity alone.
score(q, r) == IF aff[q] = r THEN HitScore ELSE MissScore

BarOf(q, r) == IF r = NoReplica THEN FloorScore ELSE score(q, r)

\* Bug: the loop waits for the probe of a half-open replica to end.
MutantVisitRefused(q) ==
  /\ up /\ pc[q] = "visit"
  /\ \E r \in todo[q] : /\ IsNext(q, r)
                        /\ breaker[r] = "open"
                        /\ todo' = [todo EXCEPT ![q] = @ \ {r}]
  /\ UNCHANGED <<pollerVars, breaker, storeVars, pc, reqVars, loopVars, aff, best, fallback, granted, trail>>

\* The loop skips r: its breaker does not admit the request.
VisitRefused(q) ==
  /\ up /\ pc[q] = "visit"
  /\ \E r \in todo[q] : /\ IsNext(q, r)
                        /\ ~Admits(breaker[r])
                        /\ todo' = [todo EXCEPT ![q] = @ \ {r}]
  /\ UNCHANGED <<pollerVars, breaker, storeVars, pc, reqVars, loopVars, aff, best, fallback, granted, trail>>

\* Bug: the tier of the replica is not looked at.
MutantConsider(q, r) ==
  /\ best' = [best EXCEPT ![q] = IF score(q, r) > BarOf(q, @) THEN r ELSE @]
  /\ UNCHANGED fallback

\* A candidate replaces the best one of its kind only with a higher score.
Consider(q, r) ==
  \/ /\ TierOf[r] = tier[q]
     /\ best' = [best EXCEPT ![q] = IF score(q, r) > BarOf(q, @) THEN r ELSE @]
     /\ UNCHANGED fallback
  \/ /\ TierOf[r] # tier[q]
     /\ fallback' = [fallback EXCEPT ![q] = IF score(q, r) > BarOf(q, @) THEN r ELSE @]
     /\ UNCHANGED best

\* Allow admits r, which may spend its only probe, whether or not r is chosen.
VisitAdmitted(q) ==
  /\ up /\ pc[q] = "visit"
  /\ \E r \in todo[q] : /\ IsNext(q, r)
                        /\ Admits(breaker[r])
                        /\ breaker' = [breaker EXCEPT ![r] = AfterAllow(@)]
                        /\ todo' = [todo EXCEPT ![q] = @ \ {r}]
                        /\ granted' = [granted EXCEPT ![q] = @ \cup {r}]
                        /\ Consider(q, r)
  /\ UNCHANGED <<pollerVars, storeVars, pc, reqVars, loopVars, aff, trail>>

Choice(q) == IF best[q] # NoReplica THEN best[q] ELSE fallback[q]

\* Pick's locals go out of scope.
EndPick(q) == /\ todo' = [todo EXCEPT ![q] = {}]
              /\ aff' = [aff EXCEPT ![q] = NoReplica]
              /\ best' = [best EXCEPT ![q] = NoReplica]
              /\ fallback' = [fallback EXCEPT ![q] = NoReplica]
              /\ granted' = [granted EXCEPT ![q] = {}]

\* Bug: the loop waits for a replica instead of giving up.
MutantPickNone(q) ==
  /\ todo[q] = {} /\ Choice(q) = NoReplica
  /\ Goto(q, "visit", "pick")
  /\ EndPick(q)
  /\ UNCHANGED <<pollerVars, breaker, storeVars, reqVars, loopVars, trail>>

\* Pick returns no replica: the retry loop breaks.
PickNone(q) ==
  /\ todo[q] = {} /\ Choice(q) = NoReplica
  /\ Goto(q, "visit", "unserved")
  /\ EndPick(q)
  /\ UNCHANGED <<pollerVars, breaker, storeVars, reqVars, loopVars, trail>>

\* Pick returns a replica and doUpstream sends the request to it.
Send(q) ==
  /\ todo[q] = {} /\ Choice(q) # NoReplica
  /\ Goto(q, "visit", "upstream")
  /\ target' = [target EXCEPT ![q] = Choice(q)]
  /\ sent' = [sent EXCEPT ![q] = Append(@, Choice(q))]
  /\ EndPick(q)
  /\ UNCHANGED <<pollerVars, breaker, storeVars, reqVars, attempt, excluded, hit, trail>>

-----------------------------------------------------------------------------
(* The retry loop *)

RecordFailure(r) == \E b \in AfterFailure(breaker[r]) : breaker' = [breaker EXCEPT ![r] = b]

RecordSuccess(r) == breaker' = [breaker EXCEPT ![r] = AfterSuccess(@)]

\* The attempt is over; the loop goes on while attempts are left.
AttemptFailed(q) ==
  /\ attempt' = [attempt EXCEPT ![q] = @ + 1]
  /\ excluded' = [excluded EXCEPT ![q] = @ \cup {target[q]}]
  /\ target' = [target EXCEPT ![q] = NoReplica]
  /\ pc' = [pc EXCEPT ![q] = IF attempt[q] + 1 < MaxAttempts THEN "pick" ELSE "unserved"]

\* A connection error, a 5xx, a timeout, a client that went away, or no first
\* byte before the stall timeout.
UpstreamFails(q) ==
  /\ up /\ pc[q] = "upstream"
  /\ RecordFailure(target[q])
  /\ AttemptFailed(q)
  /\ UNCHANGED <<pollerVars, storeVars, reqVars, sent, hit, pickVars, trail>>

\* A status below 500 and a first byte: the response is committed.
FirstByte(q) ==
  /\ Goto(q, "upstream", "lookup")
  /\ RecordSuccess(target[q])
  /\ UNCHANGED <<pollerVars, storeVars, reqVars, loopVars, pickVars, trail>>

\* Bug: an entry of the prefix counts whichever replica it names.
MutantIsHit(q, a) == a # NoReplica

IsHit(q, a) == a = target[q]

\* The affinity is read a second time, and may miss, to label the request;
\* other requests may have changed it since Pick.
LookUpHit(q) ==
  /\ Goto(q, "lookup", "stream")
  /\ \E a \in {affinity[PrefixOf[q]], NoReplica} : hit' = [hit EXCEPT ![q] = IsHit(q, a)]
  /\ UNCHANGED <<pollerVars, breaker, storeVars, reqVars, attempt, excluded, target, sent, pickVars, trail>>

-----------------------------------------------------------------------------
(* Streaming and what follows it *)

\* The body ended and [DONE] was seen.
StreamDone(q) ==
  /\ Goto(q, "stream", "hit")
  /\ UNCHANGED <<pollerVars, breaker, storeVars, reqVars, loopVars, pickVars, trail>>

\* The watchdog cancelled a silent stream, or it ended without [DONE].
StreamDead(q) ==
  /\ Goto(q, "stream", "hit")
  /\ RecordFailure(target[q])
  /\ UNCHANGED <<pollerVars, storeVars, reqVars, loopVars, pickVars, trail>>

\* SetAffinity, which may fail silently.
RecordHit(q) ==
  /\ Goto(q, "hit", "pin")
  /\ \/ /\ affinity' = [affinity EXCEPT ![PrefixOf[q]] = target[q]]
        /\ filled' = [filled EXCEPT ![q] = target[q]]
     \/ UNCHANGED <<affinity, filled>>
  /\ UNCHANGED <<pollerVars, breaker, conv, reqVars, loopVars, pickVars, trail>>

\* SetConversation, which may fail silently.
PinConversation(q) ==
  /\ Goto(q, "pin", "account")
  /\ conv' \in {conv, [conv EXCEPT ![ConvOf[q]] = tier[q]]}
  /\ UNCHANGED <<pollerVars, breaker, affinity, filled, reqVars, loopVars, pickVars, trail>>

\* Bug: the served attempt is not counted.
MutantServedRecord(q) ==
  [request |-> q, replica |-> target[q], hit |-> hit[q], attempts |-> Cardinality(excluded[q])]

ServedRecord(q) ==
  [request |-> q, replica |-> target[q], hit |-> hit[q], attempts |-> Cardinality(excluded[q]) + 1]

UnservedRecord(q) ==
  [request |-> q, replica |-> NoReplica, hit |-> FALSE, attempts |-> Cardinality(excluded[q])]

\* The handler returns: its locals go out of scope, the history stays.
Return(q) == /\ seen' = [seen EXCEPT ![q] = NoTier]
             /\ tier' = [tier EXCEPT ![q] = NoTier]
             /\ attempt' = [attempt EXCEPT ![q] = 0]
             /\ excluded' = [excluded EXCEPT ![q] = {}]
             /\ target' = [target EXCEPT ![q] = NoReplica]
             /\ hit' = [hit EXCEPT ![q] = FALSE]

\* The circuit gauge is set from State(), then the audit record written.
Account(q) ==
  /\ Goto(q, "account", "done")
  /\ breaker' = [breaker EXCEPT ![target[q]] = AfterState(@)]
  /\ trail' = trail \cup {ServedRecord(q)}
  /\ Return(q)
  /\ UNCHANGED <<pollerVars, storeVars, sent, pickVars>>

\* No replica served the request: 503.
AnswerUnavailable(q) ==
  /\ Goto(q, "unserved", "done")
  /\ trail' = trail \cup {UnservedRecord(q)}
  /\ Return(q)
  /\ UNCHANGED <<pollerVars, breaker, storeVars, sent, pickVars>>

-----------------------------------------------------------------------------
(* What runs beside the requests *)

\* The cooldown of an open breaker elapses.
Cool(r) == /\ breaker[r] = "open"
           /\ breaker' = [breaker EXCEPT ![r] = AfterCooldown(@)]
           /\ UNCHANGED <<pollerVars, storeVars, pc, reqVars, loopVars, pickVars, trail>>

\* The status endpoint reads State() of every replica.
ReadStatus(r) == /\ up
                 /\ breaker' = [breaker EXCEPT ![r] = AfterState(@)]
                 /\ UNCHANGED <<pollerVars, storeVars, pc, reqVars, loopVars, pickVars, trail>>

ScrapeFails(r) ==
  /\ PollFailure(r)
  /\ UNCHANGED <<breaker, storeVars, pc, reqVars, loopVars, pickVars, trail>>

\* The entries of the store expire.
Expire == /\ \/ \E k \in Convs : conv' = [conv EXCEPT ![k] = NoTier] /\ UNCHANGED affinity
             \/ \E p \in Prefixes : affinity' = [affinity EXCEPT ![p] = NoReplica] /\ UNCHANGED conv
          /\ UNCHANGED <<pollerVars, breaker, filled, pc, reqVars, loopVars, pickVars, trail>>

Running == {"classify", "pick", "visit", "upstream", "lookup", "stream",
            "hit", "pin", "account", "unserved"}

\* A successful scrape panics the process: every request in flight is lost,
\* and so is all memory; only the store survives.
ScrapeSucceeds(r) ==
  /\ PollSuccess(r)
  /\ breaker' = AllClosed
  /\ seen' = Untiered /\ tier' = Untiered
  /\ attempt' = Unattempted /\ excluded' = Nothing
  /\ target' = Nowhere /\ sent' = Unsent /\ hit' = AllMiss
  /\ todo' = Nothing /\ granted' = Nothing
  /\ aff' = Nowhere /\ best' = Nowhere /\ fallback' = Nowhere
  /\ trail' = {}
  /\ pc' = [q \in Requests |-> IF pc[q] \in Running THEN "lost" ELSE pc[q]]
  /\ UNCHANGED storeVars

\* The operator starts the router again.
Restart == /\ ~up
           /\ up' = TRUE
           /\ UNCHANGED <<failures, healthy, breaker, storeVars, pc, reqVars, loopVars, pickVars, trail>>

\* A step of the goroutine that serves q.
Serve(q) == \/ Classify(q) \/ BeginPick(q) \/ VisitRefused(q) \/ VisitAdmitted(q) \/ PickNone(q) \/ Send(q)
            \/ UpstreamFails(q) \/ FirstByte(q) \/ LookUpHit(q) \/ StreamDone(q) \/ StreamDead(q)
            \/ RecordHit(q) \/ PinConversation(q) \/ Account(q) \/ AnswerUnavailable(q)

Next == \/ \E q \in Requests : Arrive(q) \/ Reject(q) \/ Serve(q)
        \/ \E r \in Replicas : Cool(r) \/ ReadStatus(r) \/ ScrapeFails(r) \/ ScrapeSucceeds(r)
        \/ Expire \/ Restart

\* The goroutine of a request never blocks for ever: reads of the store time
\* out after 50 ms, the classifier after 2 s, an attempt after Retry.Timeout
\* and a silent body after Stream.StallTimeout.
Fairness == \A q \in Requests : WF_vars(Serve(q))

Spec == Init /\ [][Next]_vars /\ Fairness

-----------------------------------------------------------------------------
(* Properties *)

\* A request is never sent to the same replica twice, whatever its breaker or
\* the poller say in between, and never more than 1 + MaxRetries times (the
\* retry loop and its excluded set).
RetriesReachFreshReplicas ==
  \A q \in Requests : /\ Len(sent[q]) <= MaxAttempts
                      /\ \A i, j \in DOMAIN sent[q] : sent[q][i] = sent[q][j] => i = j

\* Every audit record tells the truth: Attempts is the number of times the
\* request was sent upstream, and the replica it names is the last of them,
\* or none when the client got a 503 (both calls of audit.Record).
AuditMatchesSends ==
  \A rec \in trail :
    LET s == sent[rec.request]
    IN  /\ rec.attempts = Len(s)
        /\ rec.replica # NoReplica => rec.replica = s[Len(s)]

\* A cache hit in the audit trail is never a hit on the request's own entry:
\* another request with this prefix was answered by that very replica before,
\* unless the entry is from an earlier life of the router.  That is so although
\* the entry is read after the replica was chosen and others write it in the
\* meantime (the second GetAffinity in ServeHTTP, RecordHit after it).
HitsAreReal ==
  \A rec \in trail : rec.hit =>
    \/ WarmStore
    \/ \E p \in Requests \ {rec.request} :
         PrefixOf[p] = PrefixOf[rec.request] /\ filled[p] = rec.replica

\* The replicas that Pick could return: they admitted the request, and their
\* score exceeds the one that Pick starts from.
Usable(q) == {r \in granted[q] : score(q, r) > FloorScore}

\* What Pick is meant to return: a replica of the requested tier if one is
\* left, the highest score among those, and the first of the highest in
\* configuration order.
PickChoices(q) ==
  LET matched == {r \in Usable(q) : TierOf[r] = tier[q]}
      pool    == IF matched # {} THEN matched ELSE Usable(q)
      top     == {r \in pool : \A s \in pool : score(q, r) >= score(q, s)}
  IN  {r \in top : \A s \in top : Position(r) <= Position(s)}

\* Whatever other requests, the poller and the breakers do while Pick visits
\* the replicas one by one, it returns that replica, and none only if no
\* replica is usable (Scorer.Pick).
PickIsBest ==
  [][\A q \in Requests :
       pc[q] = "visit" /\ up' => /\ pc'[q] = "upstream" => target'[q] \in PickChoices(q)
                                 /\ pc'[q] = "unserved" => Usable(q) = {}]_vars

\* q holds r's admission or its answer, and may still report on it.
MayReport(q, r) == \/ pc[q] = "visit" /\ r \in granted[q]
                   \/ pc[q] \in {"upstream", "lookup", "stream"} /\ target[q] = r

\* r is half-open and nobody is left to report on it.
Wedged(r) == breaker[r] = "half_open" /\ \A q \in Requests : ~MayReport(q, r)

\* A wedged replica never gets another request in the life of the process:
\* neither new requests nor the status endpoint nor time help it (Allow,
\* State, Pick).
WedgeIsPermanent ==
  [][\A r \in Replicas : Wedged(r) /\ up /\ up' => Wedged(r)']_vars

\* A pin is lowered only by a request whose own read of the pin was stale: it
\* had missed, or another turn has raised the pin since (the clamp in
\* ServeHTTP is against the value read before classification).
DowngradeNeedsStaleRead ==
  [][\A q \in Requests :
       /\ pc[q] = "pin" /\ pc'[q] = "account"
       /\ conv'[ConvOf[q]] < conv[ConvOf[q]]
       => seen[q] < conv[ConvOf[q]]]_vars

\* How far q is from its answer: attempts left, then stages of the attempt and
\* replicas it has still to look at.
PerAttempt == Cardinality(Replicas) + 3

After == [lookup |-> 6, stream |-> 5, hit |-> 4, pin |-> 3, account |-> 2, unserved |-> 1]

Distance(q) ==
  CASE pc[q] = "classify" -> MaxAttempts * PerAttempt + 7
    [] pc[q] = "pick"     -> (MaxAttempts - attempt[q]) * PerAttempt + 6
    [] pc[q] = "visit"    -> (MaxAttempts - attempt[q]) * PerAttempt + 5
                               - (Cardinality(Replicas) - Cardinality(todo[q]))
    [] pc[q] = "upstream" -> (MaxAttempts - attempt[q] - 1) * PerAttempt + 7
    [] pc[q] \in DOMAIN After -> After[pc[q]]
    [] OTHER -> 0

\* Each step of a request's goroutine brings it nearer to its answer and
\* nothing that others do takes it back, so no schedule of failures, refusals
\* and retries keeps it in the loop (the retry loop of ServeHTTP, Pick).
StepsComeNearer ==
  [][\A q \in Requests :
       pc[q] \in Running /\ (pc'[q] # pc[q] \/ todo'[q] # todo[q]) => Distance(q)' < Distance(q)]_vars

\* In Pick, where what a request may do next depends on breakers that others
\* change under it, it always has a step to take; with StepsComeNearer: a
\* request that has arrived is answered, unless the process dies under it.
PickNeverStuck == \A q \in Requests : up /\ pc[q] = "visit" => ENABLED Serve(q)

\* ServeHTTP's comment: a conversation's tier never decreases (while its pin
\* lives in the store).
TierNeverDecreases ==
  [][\A k \in Convs : conv'[k] # NoTier => conv'[k] >= conv[k]]_vars

=============================================================================
