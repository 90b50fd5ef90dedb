---------------------------- MODULE RouterProofs ----------------------------
(***************************************************************************)
(* Proofs about the request path, for every number of requests, replicas,  *)
(* tiers and retries, every assignment of conversations and prefixes, and  *)
(* with or without entries of an earlier life in the store.                *)
(***************************************************************************)
EXTENDS Router, FiniteSetTheorems, TLAPS

MaybeReplica == Replicas \cup {NoReplica}

MaybeTier == Tiers \cup {NoTier}

Stages == {"idle", "done", "lost"} \cup Running

\* From the choice of a replica to the end of the handler.
Served == {"upstream", "lookup", "stream", "hit", "pin", "account"}

-----------------------------------------------------------------------------
(* Types *)

EnvTypes == /\ up \in BOOLEAN
            /\ healthy \in [Replicas -> BOOLEAN]
            /\ breaker \in [Replicas -> BreakerState]
            /\ affinity \in [Prefixes -> MaybeReplica]
            /\ conv \in [Convs -> MaybeTier]
            /\ filled \in [Requests -> MaybeReplica]

LoopTypes == /\ pc \in [Requests -> Stages]
             /\ seen \in [Requests -> MaybeTier]
             /\ tier \in [Requests -> MaybeTier]
             /\ attempt \in [Requests -> Nat]
             /\ excluded \in [Requests -> SUBSET Replicas]
             /\ target \in [Requests -> MaybeReplica]
             /\ hit \in [Requests -> BOOLEAN]
             /\ sent \in [Requests -> Seq(Replicas)]
             /\ \A q \in Requests : pc[q] \in Served => target[q] \in Replicas

PickTypes == /\ todo \in [Requests -> SUBSET Replicas]
             /\ granted \in [Requests -> SUBSET Replicas]
             /\ aff \in [Requests -> MaybeReplica]
             /\ best \in [Requests -> MaybeReplica]
             /\ fallback \in [Requests -> MaybeReplica]

TypeInv == EnvTypes /\ LoopTypes /\ PickTypes

\* The initial values have their types.
LEMMA TypeInit == Init => TypeInv
<1> SUFFICES ASSUME Init PROVE TypeInv
  OBVIOUS
<1>1. EnvTypes
  BY RouterAssumption DEF Init, PollerInit, AllHealthy, AllClosed, BreakerState, Nowhere, EnvTypes,
     MaybeReplica, MaybeTier
<1>2. LoopTypes
  BY DEF Init, Untiered, Unattempted, Nothing, Nowhere, AllMiss, Unsent, LoopTypes,
     MaybeReplica, MaybeTier, Stages, Running, Served
<1>3. PickTypes
  BY DEF Init, Nothing, Nowhere, PickTypes, MaybeReplica
<1> QED
  BY <1>1, <1>2, <1>3 DEF TypeInv

\* What the methods of a breaker make of its state is a state again.
LEMMA BreakerClosed ==
  ASSUME NEW s \in BreakerState
  PROVE  /\ AfterAllow(s) \in BreakerState
         /\ AfterState(s) \in BreakerState
         /\ AfterSuccess(s) \in BreakerState
         /\ AfterFailure(s) \subseteq BreakerState
         /\ AfterCooldown(s) \in BreakerState
BY DEF BreakerState, AfterAllow, AfterState, AfterSuccess, AfterFailure, AfterCooldown

\* The poller, the breakers and the store keep their types.
LEMMA EnvStep == TypeInv /\ [Next]_vars => EnvTypes'
<1> SUFFICES ASSUME TypeInv, [Next]_vars PROVE EnvTypes'
  OBVIOUS
<1> USE DEF TypeInv, EnvTypes
<1>1. ASSUME NEW q \in Requests,
             \/ Arrive(q) \/ Reject(q) \/ Classify(q) \/ BeginPick(q) \/ VisitRefused(q) \/ PickNone(q)
             \/ Send(q) \/ LookUpHit(q) \/ StreamDone(q) \/ AnswerUnavailable(q)
      PROVE  EnvTypes'
  BY <1>1 DEF Arrive, Reject, Classify, BeginPick, VisitRefused, PickNone, Send, LookUpHit, StreamDone,
     AnswerUnavailable, pollerVars, storeVars
<1>2. ASSUME NEW q \in Requests, VisitAdmitted(q) \/ UpstreamFails(q) \/ FirstByte(q) \/ StreamDead(q) \/ Account(q)
      PROVE  EnvTypes'
  BY <1>2, BreakerClosed
  DEF VisitAdmitted, UpstreamFails, FirstByte, StreamDead, Account, RecordFailure, RecordSuccess,
      pollerVars, storeVars
<1>3. ASSUME NEW q \in Requests, RecordHit(q) \/ PinConversation(q) PROVE EnvTypes'
  BY <1>3 DEF RecordHit, PinConversation, pollerVars, storeVars, LoopTypes
<1>4. ASSUME NEW r \in Replicas, Cool(r) \/ ReadStatus(r) PROVE EnvTypes'
  BY <1>4, BreakerClosed DEF Cool, ReadStatus, pollerVars, storeVars
<1>5. ASSUME NEW r \in Replicas, ScrapeFails(r) \/ ScrapeSucceeds(r) PROVE EnvTypes'
  BY <1>5 DEF ScrapeFails, ScrapeSucceeds, PollFailure, PollSuccess, AllHealthy, AllClosed, BreakerState, storeVars
<1>6. CASE Expire
  BY <1>6 DEF Expire, MaybeReplica, MaybeTier, pollerVars
<1>7. CASE Restart
  BY <1>7 DEF Restart, storeVars
<1>8. CASE UNCHANGED vars
  BY <1>8 DEF vars, pollerVars, storeVars
<1> QED
  BY <1>1, <1>2, <1>3, <1>4, <1>5, <1>6, <1>7, <1>8 DEF Next, Serve

\* The locals of ServeHTTP keep their types, and a request that is being
\* served has a replica.
LEMMA LoopTypeStep == TypeInv /\ [Next]_vars => LoopTypes'
<1> SUFFICES ASSUME TypeInv, [Next]_vars PROVE LoopTypes'
  OBVIOUS
<1> USE DEF TypeInv, LoopTypes, Served, Stages, Running
<1>1. ASSUME NEW q \in Requests, Arrive(q) \/ Reject(q) PROVE LoopTypes'
  <2>1. conv[ConvOf[q]] \in MaybeTier /\ NoTier \in MaybeTier
    BY DEF EnvTypes, Convs, MaybeTier
  <2>2. CASE Arrive(q)
    <3>1. PICK found \in MaybeTier : seen' = [seen EXCEPT ![q] = found]
      BY <2>1, <2>2 DEF Arrive
    <3> QED
      BY <2>2, <3>1 DEF Arrive, Goto, loopVars
  <2>3. CASE Reject(q)
    BY <2>3 DEF Reject, Goto, reqVars, loopVars
  <2> QED
    BY <1>1, <2>2, <2>3
<1>2. ASSUME NEW q \in Requests, Classify(q) PROVE LoopTypes'
  BY <1>2 DEF Classify, Goto, Clamp, HigherTier, loopVars, MaybeTier
<1>3. ASSUME NEW q \in Requests, BeginPick(q) \/ VisitRefused(q) \/ VisitAdmitted(q) \/ PickNone(q) PROVE LoopTypes'
  BY <1>3 DEF BeginPick, VisitRefused, VisitAdmitted, PickNone, Goto, reqVars, loopVars
<1>4. ASSUME NEW q \in Requests, Send(q) PROVE LoopTypes'
  BY <1>4 DEF Send, Goto, Choice, PickTypes, MaybeReplica, reqVars
<1>5. ASSUME NEW q \in Requests, UpstreamFails(q) PROVE LoopTypes'
  BY <1>5 DEF UpstreamFails, AttemptFailed, MaybeReplica, reqVars
<1>6. ASSUME NEW q \in Requests, FirstByte(q) \/ StreamDone(q) \/ StreamDead(q) \/ RecordHit(q) \/ PinConversation(q)
      PROVE  LoopTypes'
  BY <1>6 DEF FirstByte, StreamDone, StreamDead, RecordHit, PinConversation, Goto, reqVars, loopVars
<1>7. ASSUME NEW q \in Requests, LookUpHit(q) PROVE LoopTypes'
  BY <1>7 DEF LookUpHit, IsHit, Goto, reqVars
<1>8. ASSUME NEW q \in Requests, Account(q) \/ AnswerUnavailable(q) PROVE LoopTypes'
  <2>1. /\ Return(q) /\ sent' = sent /\ pc' = [pc EXCEPT ![q] = "done"]
        /\ NoTier \in MaybeTier /\ NoReplica \in MaybeReplica
    BY <1>8 DEF Account, AnswerUnavailable, Goto, MaybeReplica, MaybeTier
  <2> QED
    BY <2>1 DEF Return
<1>9. ASSUME NEW r \in Replicas, ScrapeSucceeds(r) PROVE LoopTypes'
  BY <1>9 DEF ScrapeSucceeds, Untiered, Unattempted, Nothing, Nowhere, AllMiss, Unsent, MaybeReplica, MaybeTier
<1>10. CASE \/ \E r \in Replicas : Cool(r) \/ ReadStatus(r) \/ ScrapeFails(r)
            \/ Expire \/ Restart \/ UNCHANGED vars
  BY <1>10 DEF Cool, ReadStatus, ScrapeFails, Expire, Restart, vars, reqVars, loopVars
<1> QED
  BY <1>1, <1>2, <1>3, <1>4, <1>5, <1>6, <1>7, <1>8, <1>9, <1>10 DEF Next, Serve

\* The locals of Pick keep their types.
LEMMA PickTypeStep == TypeInv /\ [Next]_vars => PickTypes'
<1> SUFFICES ASSUME TypeInv, [Next]_vars PROVE PickTypes'
  OBVIOUS
<1> USE DEF TypeInv, PickTypes
<1>1. ASSUME NEW q \in Requests,
             \/ Arrive(q) \/ Reject(q) \/ Classify(q) \/ UpstreamFails(q) \/ FirstByte(q) \/ LookUpHit(q)
             \/ StreamDone(q) \/ StreamDead(q) \/ RecordHit(q) \/ PinConversation(q) \/ Account(q)
             \/ AnswerUnavailable(q)
      PROVE  PickTypes'
  BY <1>1 DEF Arrive, Reject, Classify, UpstreamFails, FirstByte, LookUpHit, StreamDone, StreamDead, RecordHit,
     PinConversation, Account, AnswerUnavailable, pickVars
<1>2. ASSUME NEW q \in Requests, BeginPick(q) PROVE PickTypes'
  BY <1>2 DEF BeginPick, Candidates, Snapshot, EnvTypes, Prefixes, MaybeReplica
<1>3. ASSUME NEW q \in Requests, VisitRefused(q) PROVE PickTypes'
  BY <1>3 DEF VisitRefused
<1>4. ASSUME NEW q \in Requests, VisitAdmitted(q) PROVE PickTypes'
  BY <1>4 DEF VisitAdmitted, Consider, MaybeReplica
<1>5. ASSUME NEW q \in Requests, PickNone(q) \/ Send(q) PROVE PickTypes'
  BY <1>5 DEF PickNone, Send, EndPick, MaybeReplica
<1>6. ASSUME NEW r \in Replicas, ScrapeSucceeds(r) PROVE PickTypes'
  BY <1>6 DEF ScrapeSucceeds, Nothing, Nowhere, MaybeReplica
<1>7. CASE \/ \E r \in Replicas : Cool(r) \/ ReadStatus(r) \/ ScrapeFails(r)
           \/ Expire \/ Restart \/ UNCHANGED vars
  BY <1>7 DEF Cool, ReadStatus, ScrapeFails, Expire, Restart, vars, pickVars
<1> QED
  BY <1>1, <1>2, <1>3, <1>4, <1>5, <1>6, <1>7 DEF Next, Serve

\* Every variable keeps its type, and a request being served has a replica.
THEOREM TypeCorrect == Spec => []TypeInv
<1>1. TypeInv /\ [Next]_vars => TypeInv'
  BY EnvStep, LoopTypeStep, PickTypeStep DEF TypeInv
<1> QED
  BY <1>1, TypeInit, PTL DEF Spec

-----------------------------------------------------------------------------
(* Steps of one request and the others *)

\* The locals of request p, and what is remembered of it, stay as they are.
SameLocals(p) ==
  /\ pc'[p] = pc[p] /\ seen'[p] = seen[p] /\ tier'[p] = tier[p]
  /\ attempt'[p] = attempt[p] /\ excluded'[p] = excluded[p] /\ target'[p] = target[p]
  /\ hit'[p] = hit[p] /\ sent'[p] = sent[p] /\ filled'[p] = filled[p]
  /\ todo'[p] = todo[p] /\ aff'[p] = aff[p] /\ best'[p] = best[p]
  /\ fallback'[p] = fallback[p] /\ granted'[p] = granted[p]

\* The locals of every request are back at their initial values, and no
\* request is in flight.
AllReset ==
  /\ \A p \in Requests : /\ pc'[p] \in {"idle", "done", "lost"}
                         /\ pc'[p] = "lost" \/ pc'[p] = pc[p]
                         /\ pc[p] \in Running => pc'[p] = "lost"
                         /\ seen'[p] = NoTier /\ tier'[p] = NoTier
                         /\ attempt'[p] = 0 /\ excluded'[p] = {} /\ target'[p] = NoReplica
                         /\ hit'[p] = FALSE /\ sent'[p] = <<>> /\ filled'[p] = filled[p]
                         /\ todo'[p] = {} /\ aff'[p] = NoReplica /\ best'[p] = NoReplica
                         /\ fallback'[p] = NoReplica /\ granted'[p] = {}
  /\ affinity' = affinity /\ conv' = conv
  /\ trail' = {}
  /\ up' = FALSE

\* The steps of the environment that leave the requests alone.
Aside == \/ \E r \in Replicas : Cool(r) \/ ReadStatus(r) \/ ScrapeFails(r)
         \/ Expire \/ Restart \/ UNCHANGED vars

\* A goroutine writes its own locals only.
LEMMA OthersUntouched ==
  ASSUME TypeInv, NEW q \in Requests, Arrive(q) \/ Reject(q) \/ Serve(q),
         NEW p \in Requests, p # q
  PROVE  SameLocals(p)
<1> USE DEF TypeInv, EnvTypes, LoopTypes, PickTypes, SameLocals, Goto, storeVars, reqVars, loopVars, pickVars
<1>1. CASE Arrive(q) \/ Reject(q) \/ Classify(q) \/ BeginPick(q) \/ VisitRefused(q)
  BY <1>1 DEF Arrive, Reject, Classify, BeginPick, VisitRefused
<1>2. CASE VisitAdmitted(q)
  BY <1>2 DEF VisitAdmitted, Consider
<1>3. CASE PickNone(q) \/ Send(q)
  BY <1>3 DEF PickNone, Send, EndPick
<1>4. CASE UpstreamFails(q) \/ FirstByte(q) \/ LookUpHit(q) \/ StreamDone(q) \/ StreamDead(q)
  BY <1>4 DEF UpstreamFails, AttemptFailed, FirstByte, LookUpHit, StreamDone, StreamDead
<1>5. CASE RecordHit(q) \/ PinConversation(q)
  BY <1>5 DEF RecordHit, PinConversation
<1>6. CASE Account(q) \/ AnswerUnavailable(q)
  BY <1>6 DEF Account, AnswerUnavailable, Return
<1> QED
  BY <1>1, <1>2, <1>3, <1>4, <1>5, <1>6 DEF Serve

\* Neither do time, the poller, the status endpoint and the store.
LEMMA AsideUntouched ==
  ASSUME Aside
  PROVE  trail' = trail /\ \A p \in Requests : SameLocals(p)
BY DEF Aside, Cool, ReadStatus, ScrapeFails, Expire, Restart, SameLocals, vars, storeVars, reqVars, loopVars, pickVars

\* A panic of the poller takes all requests with it.
LEMMA PanicResets ==
  ASSUME TypeInv, NEW r \in Replicas, ScrapeSucceeds(r)
  PROVE  AllReset
BY DEF TypeInv, LoopTypes, ScrapeSucceeds, PollSuccess, AllReset, Untiered, Unattempted, Nothing, Nowhere,
   AllMiss, Unsent, storeVars, Stages, Running

\* The three kinds of steps.
LEMMA StepKinds ==
  ASSUME [Next]_vars
  PROVE  \/ \E q \in Requests : Arrive(q) \/ Reject(q) \/ Serve(q)
         \/ \E r \in Replicas : ScrapeSucceeds(r)
         \/ Aside
BY DEF Next, Aside

\* So whatever happens to the locals of q, its own goroutine does, or a panic.
LEMMA WhoMoved ==
  ASSUME TypeInv, [Next]_vars, NEW q \in Requests
  PROVE  SameLocals(q) \/ Arrive(q) \/ Reject(q) \/ Serve(q) \/ AllReset
BY StepKinds, OthersUntouched, AsideUntouched, PanicResets

-----------------------------------------------------------------------------
(* The invariant of the retry loop *)

\* The replicas that request q has tried and given up.
Tried(q) == {sent[q][i] : i \in 1 .. attempt[q]}

\* What the locals of the loop say of the replicas q was sent to.
Ledger(q) ==
  /\ pc[q] \in Running => /\ excluded[q] = Tried(q)
                          /\ IsFiniteSet(excluded[q])
                          /\ Cardinality(excluded[q]) = attempt[q]
  /\ pc[q] \in {"idle", "classify"} => sent[q] = <<>> /\ attempt[q] = 0 /\ excluded[q] = {}
  /\ pc[q] \in Running \ Served => Len(sent[q]) = attempt[q]
  /\ pc[q] \in Served => Len(sent[q]) = attempt[q] + 1 /\ target[q] = sent[q][Len(sent[q])]
  /\ pc[q] \in {"classify", "pick", "visit"} \cup Served => attempt[q] < MaxAttempts

\* The send list of q: no replica twice, and never too many.
FreshSends(q) ==
  /\ Len(sent[q]) <= MaxAttempts
  /\ \A i, j \in DOMAIN sent[q] : sent[q][i] = sent[q][j] => i = j

\* Pick looks at replicas that q has not tried, and returns one that admitted
\* the request; outside Pick its locals are empty.
Candidacy(q) ==
  /\ todo[q] \cap excluded[q] = {} /\ granted[q] \cap excluded[q] = {}
  /\ best[q] \in granted[q] \cup {NoReplica}
  /\ fallback[q] \in granted[q] \cup {NoReplica}
  /\ pc[q] # "visit" => todo[q] = {} /\ granted[q] = {}

LoopInv == \A q \in Requests : Ledger(q) /\ FreshSends(q) /\ Candidacy(q)

\* Every record of the audit trail is of a request that has been answered.
TrailInv == \A rec \in trail : rec.request \in Requests /\ pc[rec.request] = "done"

\* One more attempt has been counted out.
LEMMA OneMoreTried ==
  ASSUME TypeInv, NEW q \in Requests, Ledger(q), FreshSends(q), pc[q] \in Served
  PROVE  /\ target[q] \notin excluded[q]
         /\ excluded[q] \cup {target[q]} = {sent[q][i] : i \in 1 .. attempt[q] + 1}
         /\ IsFiniteSet(excluded[q] \cup {target[q]})
         /\ Cardinality(excluded[q] \cup {target[q]}) = attempt[q] + 1
<1>1. /\ attempt[q] \in Nat /\ sent[q] \in Seq(Replicas)
      /\ Len(sent[q]) = attempt[q] + 1 /\ target[q] = sent[q][attempt[q] + 1]
      /\ excluded[q] = Tried(q) /\ IsFiniteSet(excluded[q]) /\ Cardinality(excluded[q]) = attempt[q]
      /\ \A i, j \in DOMAIN sent[q] : sent[q][i] = sent[q][j] => i = j
  BY DEF TypeInv, LoopTypes, Ledger, FreshSends, Served, Running
<1>2. target[q] \notin excluded[q]
  BY <1>1 DEF Tried
<1>3. excluded[q] \cup {target[q]} = {sent[q][i] : i \in 1 .. attempt[q] + 1}
  BY <1>1 DEF Tried
<1>4. IsFiniteSet(excluded[q] \cup {target[q]}) /\ Cardinality(excluded[q] \cup {target[q]}) = attempt[q] + 1
  BY <1>1, <1>2, FS_AddElement
<1> QED
  BY <1>2, <1>3, <1>4

\* A step of q keeps the invariant of its own loop.
LEMMA OwnLoopStep ==
  ASSUME TypeInv, NEW q \in Requests, Ledger(q), FreshSends(q), Candidacy(q),
         Arrive(q) \/ Reject(q) \/ Serve(q)
  PROVE  Ledger(q)' /\ FreshSends(q)' /\ Candidacy(q)'
<1> USE DEF TypeInv, LoopTypes, PickTypes
<1>0. MaxAttempts \in Nat /\ MaxAttempts > 0
  BY RouterAssumption DEF MaxAttempts
<1>1. CASE Arrive(q)
  <2>1. /\ pc[q] = "idle" /\ pc'[q] = "classify"
        /\ UNCHANGED <<attempt, excluded, target, sent, todo, granted, best, fallback>>
    BY <1>1 DEF Arrive, Goto, loopVars, pickVars
  <2>2. sent[q] = <<>> /\ attempt[q] = 0 /\ excluded[q] = {}
    BY <2>1 DEF Ledger
  <2>3. IsFiniteSet({}) /\ Cardinality({}) = 0
    BY FS_EmptySet
  <2>4. Ledger(q)'
    BY <1>0, <2>1, <2>2, <2>3 DEF Ledger, Tried, Running, Served
  <2>5. FreshSends(q)' /\ Candidacy(q)'
    BY <2>1 DEF FreshSends, Candidacy
  <2> QED
    BY <2>4, <2>5
<1>2. CASE Reject(q) \/ Account(q) \/ AnswerUnavailable(q)
  <2>1. /\ pc'[q] = "done" /\ sent' = sent /\ excluded'[q] \in {{}, excluded[q]}
        /\ UNCHANGED <<todo, granted, best, fallback>>
    BY <1>2 DEF Reject, Account, AnswerUnavailable, Return, Goto, loopVars, pickVars
  <2>2. Ledger(q)'
    BY <2>1 DEF Ledger, Running, Served
  <2>3. FreshSends(q)' /\ Candidacy(q)'
    BY <2>1, <1>2 DEF FreshSends, Candidacy, Reject, Account, AnswerUnavailable, Goto
  <2> QED
    BY <2>2, <2>3
<1>3. CASE Classify(q) \/ FirstByte(q) \/ LookUpHit(q) \/ StreamDone(q) \/ StreamDead(q)
           \/ RecordHit(q) \/ PinConversation(q)
  <2>1. /\ UNCHANGED <<attempt, excluded, target, sent, todo, granted, best, fallback>>
        /\ \/ pc[q] = "classify" /\ pc'[q] = "pick"
           \/ pc[q] \in Served /\ pc'[q] \in Served
    BY <1>3 DEF Classify, FirstByte, LookUpHit, StreamDone, StreamDead, RecordHit, PinConversation, Goto,
       loopVars, pickVars, Served
  <2>2. Ledger(q)'
    BY <2>1 DEF Ledger, Tried, Running, Served
  <2>3. FreshSends(q)' /\ Candidacy(q)'
    BY <2>1 DEF FreshSends, Candidacy, Served
  <2> QED
    BY <2>2, <2>3
<1>4. CASE BeginPick(q) \/ VisitRefused(q) \/ VisitAdmitted(q) \/ PickNone(q)
  <2>1. /\ UNCHANGED <<attempt, excluded, target, sent>>
        /\ pc[q] \in {"pick", "visit"} /\ pc'[q] \in {"visit", "unserved"}
    BY <1>4 DEF BeginPick, VisitRefused, VisitAdmitted, PickNone, Goto, loopVars
  <2>2. Ledger(q)'
    BY <2>1 DEF Ledger, Tried, Running, Served
  <2>3. FreshSends(q)'
    BY <2>1 DEF FreshSends
  <2>4. CASE BeginPick(q)
    BY <2>1, <2>2, <2>3, <2>4 DEF BeginPick, Candidates, Goto, Candidacy
  <2>5. CASE VisitRefused(q)
    BY <2>1, <2>2, <2>3, <2>5 DEF VisitRefused, Candidacy
  <2>6. CASE VisitAdmitted(q)
    BY <2>1, <2>2, <2>3, <2>6 DEF VisitAdmitted, Consider, Candidacy
  <2>7. CASE PickNone(q)
    BY <2>1, <2>2, <2>3, <2>7 DEF PickNone, EndPick, Candidacy
  <2> QED
    BY <1>4, <2>2, <2>3, <2>4, <2>5, <2>6, <2>7
<1>5. CASE Send(q)
  <2>1. /\ pc[q] = "visit" /\ pc'[q] = "upstream"
        /\ UNCHANGED <<attempt, excluded>>
        /\ target'[q] = Choice(q) /\ sent'[q] = Append(sent[q], Choice(q))
    BY <1>5 DEF Send, Goto
  <2>2. Choice(q) \in Replicas /\ Choice(q) \notin excluded[q]
    BY <1>5 DEF Send, Choice, Candidacy
  <2>3. /\ sent[q] \in Seq(Replicas) /\ attempt[q] \in Nat
        /\ Len(sent[q]) = attempt[q] /\ attempt[q] < MaxAttempts
        /\ excluded[q] = Tried(q) /\ IsFiniteSet(excluded[q]) /\ Cardinality(excluded[q]) = attempt[q]
    BY <2>1 DEF Ledger, Running, Served
  <2>4. /\ Len(sent'[q]) = attempt[q] + 1 /\ sent'[q][attempt[q] + 1] = Choice(q)
        /\ \A i \in 1 .. attempt[q] : sent'[q][i] = sent[q][i]
        /\ DOMAIN sent'[q] = 1 .. attempt[q] + 1
    BY <2>1, <2>2, <2>3
  <2>5. Ledger(q)'
    BY <2>1, <2>3, <2>4 DEF Ledger, Tried, Running, Served
  <2>6. FreshSends(q)'
    <3>1. \A i, j \in 1 .. attempt[q] : sent[q][i] = sent[q][j] => i = j
      <4>1. DOMAIN sent[q] = 1 .. attempt[q]
        BY <2>3
      <4> QED
        BY <4>1 DEF FreshSends
    <3>2. \A i \in 1 .. attempt[q] : sent'[q][i] # Choice(q)
      BY <2>2, <2>3, <2>4 DEF Tried
    <3> QED
      BY <1>0, <2>3, <2>4, <3>1, <3>2 DEF FreshSends
  <2>7. Candidacy(q)'
    BY <1>5, <2>1 DEF Send, EndPick, Candidacy
  <2> QED
    BY <2>5, <2>6, <2>7
<1>6. CASE UpstreamFails(q)
  <2>1. /\ pc[q] = "upstream"
        /\ pc'[q] = IF attempt[q] + 1 < MaxAttempts THEN "pick" ELSE "unserved"
        /\ attempt'[q] = attempt[q] + 1 /\ excluded'[q] = excluded[q] \cup {target[q]}
        /\ sent' = sent
        /\ UNCHANGED <<todo, granted, best, fallback>>
    BY <1>6 DEF UpstreamFails, AttemptFailed, pickVars
  <2>2. /\ attempt[q] \in Nat /\ Len(sent[q]) = attempt[q] + 1
    BY <2>1 DEF Ledger, Served
  <2>3. Ledger(q)'
    <3>1. excluded'[q] = Tried(q)' /\ IsFiniteSet(excluded'[q]) /\ Cardinality(excluded'[q]) = attempt'[q]
      BY <2>1, OneMoreTried DEF Tried, Served
    <3> QED
      BY <1>0, <2>1, <2>2, <3>1 DEF Ledger, Running, Served
  <2>4. FreshSends(q)'
    BY <2>1 DEF FreshSends
  <2>5. Candidacy(q)'
    BY <2>1 DEF Candidacy
  <2> QED
    BY <2>3, <2>4, <2>5
<1> QED
  BY <1>1, <1>2, <1>3, <1>4, <1>5, <1>6 DEF Serve

\* The locals of the loop keep their books for all requests.
LEMMA LoopStep == TypeInv /\ LoopInv /\ [Next]_vars => LoopInv'
<1> SUFFICES ASSUME TypeInv, LoopInv, [Next]_vars, NEW p \in Requests
             PROVE  (Ledger(p) /\ FreshSends(p) /\ Candidacy(p))'
  BY DEF LoopInv
<1>0. Ledger(p) /\ FreshSends(p) /\ Candidacy(p)
  BY DEF LoopInv
<1>1. ASSUME SameLocals(p) PROVE (Ledger(p) /\ FreshSends(p) /\ Candidacy(p))'
  BY <1>0, <1>1 DEF SameLocals, Ledger, Tried, FreshSends, Candidacy
<1>2. ASSUME NEW q \in Requests, Arrive(q) \/ Reject(q) \/ Serve(q)
      PROVE  (Ledger(p) /\ FreshSends(p) /\ Candidacy(p))'
  BY <1>0, <1>1, <1>2, OwnLoopStep, OthersUntouched
<1>3. ASSUME NEW r \in Replicas, ScrapeSucceeds(r)
      PROVE  (Ledger(p) /\ FreshSends(p) /\ Candidacy(p))'
  <2>1. AllReset
    BY <1>3, PanicResets
  <2>2. Ledger(p)'
    BY <2>1 DEF AllReset, Ledger, Running, Served
  <2>3. FreshSends(p)' /\ Candidacy(p)'
    BY <2>1, RouterAssumption DEF AllReset, FreshSends, Candidacy, MaxAttempts
  <2> QED
    BY <2>2, <2>3
<1> QED
  BY <1>1, <1>2, <1>3, StepKinds, AsideUntouched

\* The same holds at the start.
LEMMA LoopInit == Init => LoopInv
<1> SUFFICES ASSUME Init, NEW q \in Requests PROVE Ledger(q) /\ FreshSends(q) /\ Candidacy(q)
  BY DEF LoopInv
<1>1. /\ pc[q] = "idle" /\ sent[q] = <<>> /\ attempt[q] = 0 /\ excluded[q] = {}
      /\ todo[q] = {} /\ granted[q] = {} /\ best[q] = NoReplica /\ fallback[q] = NoReplica
  BY DEF Init, Unsent, Unattempted, Nothing, Nowhere
<1> QED
  BY <1>1, RouterAssumption DEF Ledger, FreshSends, Candidacy, Running, Served, MaxAttempts

\* The invariant of the retry loop holds throughout.
THEOREM LoopInvariance == Spec => []LoopInv
BY LoopInit, LoopStep, TypeCorrect, PTL DEF Spec

\* No request is sent to a replica twice, nor more often than retries allow.
THEOREM RetriesReachFreshReplicasSafe == Spec => []RetriesReachFreshReplicas
<1>1. LoopInv => RetriesReachFreshReplicas
  BY DEF LoopInv, FreshSends, RetriesReachFreshReplicas
<1> QED
  BY <1>1, LoopInvariance, PTL

-----------------------------------------------------------------------------
(* Pick *)

\* b is the first replica of the highest score in pool, among those above the
\* floor, or none if there is no such replica.
IsFirstBest(q, b, pool) ==
  \/ b = NoReplica /\ \A r \in pool : score(q, r) <= FloorScore
  \/ /\ b \in pool /\ score(q, b) > FloorScore
     /\ \A s \in pool : /\ score(q, b) >= score(q, s)
                        /\ score(q, b) = score(q, s) => Position(b) <= Position(s)

Matched(q) == {r \in granted[q] : TierOf[r] = tier[q]}

Unmatched(q) == {r \in granted[q] : TierOf[r] # tier[q]}

\* While Pick visits the replicas in order, best and fallback are what it
\* would return for those it has seen.
BestSoFar(q) ==
  /\ \A s \in granted[q], r \in todo[q] : Position(s) < Position(r)
  /\ IsFirstBest(q, best[q], Matched(q))
  /\ IsFirstBest(q, fallback[q], Unmatched(q))

PickInv == \A q \in Requests : pc[q] = "visit" => BestSoFar(q)

-----------------------------------------------------------------------------
(* Pins and cache hits *)

\* A classified request asks for no lower tier than it was pinned to.
ClampInv == \A q \in Requests : pc[q] \in Running \ {"classify"} => seen[q] <= tier[q]

\* Another request than q has left replica r behind for q's prefix.
LeftByOther(q, r) == \E p \in Requests \ {q} : PrefixOf[p] = PrefixOf[q] /\ filled[p] = r

\* Who wrote the affinity entries, and what a hit was read from.
HitInv ==
  /\ \A q \in Requests : filled[q] # NoReplica => pc[q] \in {"pin", "account", "done", "lost"}
  /\ ~WarmStore =>
       /\ \A x \in Prefixes : affinity[x] # NoReplica =>
            \E p \in Requests : PrefixOf[p] = x /\ filled[p] = affinity[x]
       /\ \A q \in Requests : hit[q] => LeftByOther(q, target[q])
  /\ \A q \in Requests : hit[q] => pc[q] \in {"stream", "hit", "pin", "account"}

\* A request that takes a step has not been answered, and only the two last
\* steps of the handler write to the trail.
LEMMA TrailGrowth ==
  ASSUME TypeInv, LoopInv, NEW q \in Requests, Arrive(q) \/ Reject(q) \/ Serve(q)
  PROVE  /\ pc[q] # "done"
         /\ \/ trail' = trail
            \/ /\ pc[q] = "account" /\ pc'[q] = "done" /\ sent' = sent
               /\ trail' = trail \cup {ServedRecord(q)}
            \/ /\ pc[q] = "unserved" /\ pc'[q] = "done" /\ sent' = sent
               /\ trail' = trail \cup {UnservedRecord(q)}
<1> USE DEF Goto
<1>1. CASE Arrive(q) \/ Reject(q) \/ Classify(q) \/ BeginPick(q) \/ VisitRefused(q) \/ VisitAdmitted(q)
           \/ PickNone(q) \/ Send(q) \/ UpstreamFails(q) \/ FirstByte(q) \/ LookUpHit(q) \/ StreamDone(q)
           \/ StreamDead(q) \/ RecordHit(q) \/ PinConversation(q)
  BY <1>1 DEF Arrive, Reject, Classify, BeginPick, VisitRefused, VisitAdmitted, PickNone, Send, UpstreamFails,
     FirstByte, LookUpHit, StreamDone, StreamDead, RecordHit, PinConversation
<1>2. CASE Account(q) \/ AnswerUnavailable(q)
  BY <1>2 DEF TypeInv, LoopTypes, Account, AnswerUnavailable
<1> QED
  BY <1>1, <1>2 DEF Serve

\* Records stay true when others go on, and the new one is true.
LEMMA AuditStep ==
  TypeInv /\ LoopInv /\ TrailInv /\ AuditMatchesSends /\ [Next]_vars => TrailInv' /\ AuditMatchesSends'
<1> SUFFICES ASSUME TypeInv, LoopInv, TrailInv, AuditMatchesSends, [Next]_vars
             PROVE  TrailInv' /\ AuditMatchesSends'
  OBVIOUS
<1> DEFINE True(rec) == /\ rec.request \in Requests /\ pc[rec.request] = "done"
                        /\ rec.attempts = Len(sent[rec.request])
                        /\ rec.replica # NoReplica => rec.replica = sent[rec.request][Len(sent[rec.request])]
<1>0. (TrailInv /\ AuditMatchesSends <=> \A rec \in trail : True(rec))
      /\ (TrailInv /\ AuditMatchesSends <=> \A rec \in trail : True(rec))'
  BY DEF TrailInv, AuditMatchesSends
<1>1. ASSUME NEW rec, True(rec), SameLocals(rec.request) PROVE True(rec)'
  BY <1>1 DEF SameLocals
<1>2. ASSUME NEW q \in Requests, Arrive(q) \/ Reject(q) \/ Serve(q) PROVE \A rec \in trail' : True(rec)'
  <2>1. ASSUME NEW rec \in trail PROVE True(rec)'
    <3>1. True(rec) /\ rec.request # q
      BY <1>0, <1>2, <2>1, TrailGrowth
    <3> QED
      BY <1>1, <1>2, <3>1, OthersUntouched
  <2>2. attempt[q] \in Nat
    BY DEF TypeInv, LoopTypes
  <2>3. ASSUME pc[q] = "account", pc'[q] = "done", sent' = sent,
               NEW rec, rec = ServedRecord(q)
        PROVE  True(rec)'
    <3>1. /\ Cardinality(excluded[q]) + 1 = Len(sent[q])
          /\ target[q] = sent[q][Len(sent[q])]
      BY <2>2, <2>3 DEF LoopInv, Ledger, Running, Served
    <3>2. rec.request = q /\ rec.attempts = Cardinality(excluded[q]) + 1 /\ rec.replica = target[q]
      BY <2>3 DEF ServedRecord
    <3> QED
      BY <2>3, <3>1, <3>2
  <2>4. ASSUME pc[q] = "unserved", pc'[q] = "done", sent' = sent,
               NEW rec, rec = UnservedRecord(q)
        PROVE  True(rec)'
    <3>1. Cardinality(excluded[q]) = Len(sent[q])
      BY <2>2, <2>4 DEF LoopInv, Ledger, Running, Served
    <3>2. rec.request = q /\ rec.attempts = Cardinality(excluded[q]) /\ rec.replica = NoReplica
      BY <2>4 DEF UnservedRecord
    <3> QED
      BY <2>4, <3>1, <3>2
  <2> QED
    BY <1>2, <2>1, <2>3, <2>4, TrailGrowth
<1>3. ASSUME NEW r \in Replicas, ScrapeSucceeds(r) PROVE trail' = {}
  BY <1>3, PanicResets DEF AllReset
<1>4. ASSUME Aside PROVE \A rec \in trail' : True(rec)'
  BY <1>0, <1>1, <1>4, AsideUntouched
<1> QED
  BY <1>0, <1>2, <1>3, <1>4, StepKinds

\* The records of the trail are of requests that have been answered, and true.
THEOREM AuditMatchesSendsSafe == Spec => []AuditMatchesSends
<1>1. Init => TrailInv /\ AuditMatchesSends
  BY DEF Init, TrailInv, AuditMatchesSends
<1> QED
  BY <1>1, AuditStep, TypeCorrect, LoopInvariance, PTL DEF Spec

\* No request asks for a lower tier than it read.
LEMMA ClampStep == TypeInv /\ ClampInv /\ [Next]_vars => ClampInv'
<1> SUFFICES ASSUME TypeInv, ClampInv, [Next]_vars, NEW p \in Requests, pc'[p] \in Running \ {"classify"}
             PROVE  seen'[p] <= tier'[p]
  BY DEF ClampInv
<1>1. ASSUME SameLocals(p) PROVE seen'[p] <= tier'[p]
  BY <1>1 DEF SameLocals, ClampInv
<1>2. ASSUME Arrive(p) \/ Reject(p) \/ Serve(p) PROVE seen'[p] <= tier'[p]
  <2>1. CASE Classify(p)
    <3>1. PICK t \in Tiers : tier'[p] = Clamp(p, t)
      BY <2>1 DEF Classify, TypeInv, LoopTypes
    <3>2. seen'[p] = seen[p] /\ seen[p] \in MaybeTier /\ MaybeTier \subseteq Nat
      BY <2>1, RouterAssumption DEF Classify, TypeInv, LoopTypes, MaybeTier, NoTier
    <3>3. seen[p] <= Clamp(p, t) 
      BY <3>1, <3>2, RouterAssumption DEF Clamp, HigherTier, MaybeTier, NoTier
    <3> QED
      BY <3>1, <3>2, <3>3
  <2>2. CASE Arrive(p) \/ Reject(p) \/ Account(p) \/ AnswerUnavailable(p)
    BY <2>2 DEF Arrive, Reject, Account, AnswerUnavailable, Goto, Running, TypeInv, LoopTypes
  <2>3. CASE BeginPick(p) \/ VisitRefused(p) \/ VisitAdmitted(p) \/ PickNone(p) \/ Send(p) \/ UpstreamFails(p)
             \/ FirstByte(p) \/ LookUpHit(p) \/ StreamDone(p) \/ StreamDead(p) \/ RecordHit(p) \/ PinConversation(p)
    <3>1. seen' = seen /\ tier' = tier /\ pc[p] \in Running \ {"classify"}
      BY <2>3 DEF BeginPick, VisitRefused, VisitAdmitted, PickNone, Send, UpstreamFails, FirstByte, LookUpHit,
         StreamDone, StreamDead, RecordHit, PinConversation, Goto, Running, reqVars
    <3> QED
      BY <3>1 DEF ClampInv
  <2> QED
    BY <1>2, <2>1, <2>2, <2>3 DEF Serve
<1>3. ASSUME NEW r \in Replicas, ScrapeSucceeds(r) PROVE FALSE
  BY <1>3, PanicResets DEF AllReset, Running
<1> QED
  BY <1>1, <1>2, <1>3, StepKinds, OthersUntouched, AsideUntouched

\* A pin is lowered only on the strength of a stale read.
THEOREM DowngradeNeedsStaleReadSafe == Spec => DowngradeNeedsStaleRead
<1>1. Init => ClampInv
  BY DEF Init, ClampInv, Running
<1>2. Spec => []ClampInv
  BY <1>1, ClampStep, TypeCorrect, PTL DEF Spec
<1>3. ASSUME TypeInv, ClampInv, [Next]_vars, NEW q \in Requests,
             pc[q] = "pin", pc'[q] = "account", conv'[ConvOf[q]] < conv[ConvOf[q]]
      PROVE  seen[q] < conv[ConvOf[q]]
  <2>1. ConvOf[q] \in Convs /\ conv \in [Convs -> MaybeTier] /\ MaybeTier \subseteq Nat
    BY <1>3, RouterAssumption DEF Convs, TypeInv, EnvTypes, MaybeTier, NoTier
  <2>2. tier[q] \in Nat /\ seen[q] \in Nat /\ seen[q] <= tier[q]
    BY <1>3, <2>1 DEF ClampInv, Running, TypeInv, LoopTypes
  <2>3. conv[ConvOf[q]] \in Nat
    BY <2>1
  <2>4. PinConversation(q)
    <3>1. Arrive(q) \/ Reject(q) \/ Serve(q)
      BY <1>3, WhoMoved DEF SameLocals, AllReset
    <3> QED
      BY <1>3, <3>1 DEF Serve, Arrive, Reject, Classify, BeginPick, VisitRefused, VisitAdmitted, PickNone, Send,
         UpstreamFails, FirstByte, LookUpHit, StreamDone, StreamDead, RecordHit, Account, AnswerUnavailable, Goto
  <2>5. conv'[ConvOf[q]] \in {conv[ConvOf[q]], tier[q]}
    BY <2>1, <2>4 DEF PinConversation
  <2> QED
    BY <1>3, <2>2, <2>3, <2>5
<1>4. TypeInv /\ ClampInv /\ [Next]_vars =>
        [\A q \in Requests :
           /\ pc[q] = "pin" /\ pc'[q] = "account"
           /\ conv'[ConvOf[q]] < conv[ConvOf[q]]
           => seen[q] < conv[ConvOf[q]]]_vars
  BY <1>3
<1> QED
  BY <1>2, <1>4, TypeCorrect, PTL DEF Spec, DowngradeNeedsStaleRead

-----------------------------------------------------------------------------
(* Cache hits *)

\* The last stages of a request, the only ones with a hit or an entry.
Labelled == {"stream", "hit", "pin", "account"}

\* Only RecordHit touches the entry of a request, and only once.
LEMMA FilledPersists ==
  ASSUME TypeInv, HitInv, [Next]_vars, NEW p \in Requests, filled[p] # NoReplica
  PROVE  filled'[p] = filled[p]
<1>1. ASSUME Arrive(p) \/ Reject(p) \/ Serve(p) PROVE filled' = filled
  <2>1. pc[p] \in {"pin", "account", "done", "lost"}
    BY DEF HitInv
  <2> QED
    BY <1>1, <2>1 DEF Serve, Arrive, Reject, Classify, BeginPick, VisitRefused, VisitAdmitted, PickNone, Send,
       UpstreamFails, FirstByte, LookUpHit, StreamDone, StreamDead, RecordHit, PinConversation, Account,
       AnswerUnavailable, Goto, storeVars
<1> QED
  BY <1>1, WhoMoved DEF SameLocals, AllReset

\* So what others have left stays.
LEMMA LeftStays ==
  ASSUME TypeInv, HitInv, [Next]_vars, NEW q \in Requests, NEW r \in Replicas, LeftByOther(q, r)
  PROVE  LeftByOther(q, r)'
BY FilledPersists, RouterAssumption DEF LeftByOther

\* An entry of the store that this life of the router made is remembered.
LEMMA EntryStep ==
  ASSUME TypeInv, HitInv, [Next]_vars, ~WarmStore, NEW x \in Prefixes, affinity'[x] # NoReplica
  PROVE  \E p \in Requests : PrefixOf[p] = x /\ filled'[p] = affinity'[x]
<1>1. CASE affinity'[x] = affinity[x]
  <2>1. PICK p \in Requests : PrefixOf[p] = x /\ filled[p] = affinity[x]
    BY <1>1 DEF HitInv
  <2> QED
    BY <1>1, <2>1, FilledPersists
<1>2. CASE affinity'[x] # affinity[x]
  <2>1. PICK q \in Requests : RecordHit(q)
    <3>1. affinity \in [Prefixes -> MaybeReplica]
      BY DEF TypeInv, EnvTypes
    <3>2. CASE \E q \in Requests : Arrive(q) \/ Reject(q) \/ Serve(q)
      BY <1>2, <3>2 DEF Serve, Arrive, Reject, Classify, BeginPick, VisitRefused, VisitAdmitted, PickNone, Send,
         UpstreamFails, FirstByte, LookUpHit, StreamDone, StreamDead, PinConversation, Account,
         AnswerUnavailable, storeVars
    <3>3. CASE \E r \in Replicas : ScrapeSucceeds(r)
      BY <1>2, <3>3 DEF ScrapeSucceeds, storeVars
    <3>4. CASE Aside
      BY <1>2, <3>1, <3>4 DEF Aside, Cool, ReadStatus, ScrapeFails, Expire, Restart, vars, storeVars
    <3> QED
      BY <3>2, <3>3, <3>4, StepKinds
  <2>2. PrefixOf[q] = x /\ affinity'[x] = target[q] /\ filled'[q] = target[q]
    BY <1>2, <2>1 DEF RecordHit, TypeInv, EnvTypes
  <2> QED
    BY <2>2
<1> QED
  BY <1>1, <1>2

\* Entries and hits of a request, after a step of its own.
LEMMA OwnHitStep ==
  ASSUME TypeInv, HitInv, NEW q \in Requests, [Next]_vars, Arrive(q) \/ Reject(q) \/ Serve(q)
  PROVE  /\ filled'[q] # NoReplica => pc'[q] \in {"pin", "account", "done", "lost"}
         /\ hit'[q] => pc'[q] \in Labelled
         /\ hit'[q] /\ ~WarmStore => LeftByOther(q, target[q])'
<1> USE DEF TypeInv, LoopTypes, EnvTypes
<1>0. /\ filled[q] # NoReplica => pc[q] \in {"pin", "account", "done", "lost"}
      /\ hit[q] => pc[q] \in Labelled
      /\ hit[q] /\ ~WarmStore => LeftByOther(q, target[q])
  BY DEF HitInv, Labelled
<1>1. CASE LookUpHit(q)
  <2>1. /\ pc[q] = "lookup" /\ pc'[q] = "stream" /\ filled' = filled /\ target' = target
        /\ target[q] \in Replicas
    BY <1>1 DEF LookUpHit, Goto, storeVars, Served
  <2>2. hit'[q] => affinity[PrefixOf[q]] = target[q]
    <3>1. PICK a \in {affinity[PrefixOf[q]], NoReplica} : hit' = [hit EXCEPT ![q] = IsHit(q, a)]
      BY <1>1 DEF LookUpHit
    <3>2. hit'[q] = (a = target[q])
      BY <3>1, Zenon DEF IsHit
    <3>3. a = target[q] => affinity[PrefixOf[q]] = target[q]
      BY <2>1, <3>1, RouterAssumption
    <3> QED
      BY <3>2, <3>3, Zenon
  <2>3. ASSUME hit'[q], ~WarmStore PROVE LeftByOther(q, target[q])'
    <3>1. PICK p \in Requests : PrefixOf[p] = PrefixOf[q] /\ filled[p] = target[q]
      <4>1. affinity[PrefixOf[q]] = target[q] /\ PrefixOf[q] \in Prefixes
        BY <2>2, <2>3, Zenon DEF Prefixes
      <4>2. affinity[PrefixOf[q]] # NoReplica
        BY <2>1, <4>1, RouterAssumption
      <4>3. \A x \in Prefixes : affinity[x] # NoReplica =>
              \E p \in Requests : PrefixOf[p] = x /\ filled[p] = affinity[x]
        BY <2>3, Zenon DEF HitInv
      <4>4. \E p \in Requests : PrefixOf[p] = PrefixOf[q] /\ filled[p] = affinity[PrefixOf[q]]
        BY <4>1, <4>2, <4>3, Zenon
      <4> QED
        BY <4>1, <4>4, Zenon
    <3>2. p # q
      BY <1>0, <2>1, <3>1, RouterAssumption
    <3> QED
      BY <2>1, <3>1, <3>2 DEF LeftByOther
  <2> QED
    BY <1>0, <2>1, <2>3 DEF Labelled
<1>2. CASE RecordHit(q)
  <2>1. pc[q] = "hit" /\ pc'[q] = "pin" /\ hit' = hit /\ target' = target /\ target[q] \in Replicas
    BY <1>2 DEF RecordHit, Goto, loopVars, Served
  <2> QED
    BY <1>0, <2>1, LeftStays DEF Labelled
<1>3. CASE StreamDone(q) \/ StreamDead(q) \/ PinConversation(q)
  <2>1. /\ pc[q] \in {"stream", "pin"} /\ pc'[q] \in Labelled
        /\ pc[q] = "pin" => pc'[q] = "account"
        /\ hit' = hit /\ target' = target /\ filled' = filled /\ target[q] \in Replicas
    BY <1>3 DEF StreamDone, StreamDead, PinConversation, Goto, loopVars, storeVars, Served, Labelled
  <2> QED
    BY <1>0, <2>1, LeftStays
<1>4. CASE Account(q) \/ AnswerUnavailable(q)
  BY <1>0, <1>4 DEF Account, AnswerUnavailable, Return, Goto, storeVars
<1>5. CASE Arrive(q) \/ Reject(q) \/ Classify(q) \/ BeginPick(q) \/ VisitRefused(q) \/ VisitAdmitted(q)
           \/ PickNone(q) \/ Send(q) \/ UpstreamFails(q) \/ FirstByte(q)
  <2>1. hit' = hit /\ filled' = filled /\ pc[q] \notin Labelled /\ pc[q] \notin {"pin", "account", "done", "lost"}
    BY <1>5 DEF Arrive, Reject, Classify, BeginPick, VisitRefused, VisitAdmitted, PickNone, Send, UpstreamFails,
       FirstByte, Goto, loopVars, storeVars, Labelled
  <2> QED
    BY <1>0, <2>1
<1> QED
  BY <1>1, <1>2, <1>3, <1>4, <1>5 DEF Serve

\* The books of the affinity entries are kept.
LEMMA HitStep == TypeInv /\ HitInv /\ [Next]_vars => HitInv'
<1> SUFFICES ASSUME TypeInv, HitInv, [Next]_vars PROVE HitInv'
  OBVIOUS
<1>1. ASSUME NEW q \in Requests
      PROVE  /\ filled'[q] # NoReplica => pc'[q] \in {"pin", "account", "done", "lost"}
             /\ hit'[q] => pc'[q] \in Labelled
             /\ hit'[q] /\ ~WarmStore => LeftByOther(q, target[q])'
  <2>0. /\ filled[q] # NoReplica => pc[q] \in {"pin", "account", "done", "lost"}
        /\ hit[q] => pc[q] \in Labelled
        /\ hit[q] /\ ~WarmStore => LeftByOther(q, target[q])
        /\ pc[q] \in Labelled => target[q] \in Replicas
    BY DEF HitInv, Labelled, TypeInv, LoopTypes, Served
  <2>1. CASE SameLocals(q)
    BY <2>0, <2>1, LeftStays DEF SameLocals
  <2>2. CASE AllReset
    BY <2>0, <2>2 DEF AllReset, Running
  <2> QED
    BY <2>1, <2>2, OwnHitStep, WhoMoved
<1> QED
  BY <1>1, EntryStep DEF HitInv, Labelled

\* Who fills entries and what hits are read from, in every state.
LEMMA HitInvariance == Spec => []HitInv
<1>1. Init => HitInv
  BY DEF Init, Nowhere, AllMiss, HitInv
<1> QED
  BY <1>1, HitStep, TypeCorrect, PTL DEF Spec

\* A hit in the audit trail is one that another request left behind.
THEOREM HitsAreRealSafe == Spec => []HitsAreReal
<1> DEFINE Real(rec) == /\ rec.request \in Requests
                        /\ rec.hit /\ ~WarmStore => rec.replica \in Replicas /\ LeftByOther(rec.request, rec.replica)
           RealTrail == \A rec \in trail : Real(rec)
<1>1. Init => RealTrail
  BY DEF Init
<1>2. TypeInv /\ LoopInv /\ HitInv /\ RealTrail /\ [Next]_vars => RealTrail'
  <2> SUFFICES ASSUME TypeInv, LoopInv, HitInv, RealTrail, [Next]_vars, NEW rec \in trail'
               PROVE  Real(rec)'
    OBVIOUS
  <2>1. CASE rec \in trail
    BY <2>1, LeftStays
  <2>2. ASSUME NEW q \in Requests, pc[q] = "account", rec = ServedRecord(q) PROVE Real(rec)'
    <3>1. rec.request = q /\ rec.replica = target[q] /\ rec.hit = hit[q] /\ target[q] \in Replicas
      BY <2>2 DEF ServedRecord, TypeInv, LoopTypes, Served
    <3>2. hit[q] /\ ~WarmStore => LeftByOther(q, target[q])
      BY DEF HitInv
    <3> QED
      BY <2>2, <3>1, <3>2, LeftStays
  <2>3. ASSUME NEW q \in Requests, rec = UnservedRecord(q) PROVE Real(rec)'
    BY <2>3 DEF UnservedRecord
  <2>4. CASE \E q \in Requests : Arrive(q) \/ Reject(q) \/ Serve(q)
    BY <2>1, <2>2, <2>3, <2>4, TrailGrowth
  <2>5. CASE Aside
    BY <2>1, <2>5, AsideUntouched
  <2>6. CASE \E r \in Replicas : ScrapeSucceeds(r)
    BY <2>6, PanicResets DEF AllReset
  <2> QED
    BY <2>4, <2>5, <2>6, StepKinds
<1>3. RealTrail => HitsAreReal
  BY RouterAssumption DEF HitsAreReal, LeftByOther
<1> QED
  BY <1>1, <1>2, <1>3, TypeCorrect, LoopInvariance, HitInvariance, PTL DEF Spec

-----------------------------------------------------------------------------
(* The wedge *)

\* A request that may not report on a half-open replica gets no admission of
\* it and does not touch its breaker.
LEMMA WedgedStep ==
  ASSUME TypeInv, LoopInv, NEW r \in Replicas, breaker[r] = "half_open",
         NEW q \in Requests, ~MayReport(q, r), Arrive(q) \/ Reject(q) \/ Serve(q)
  PROVE  breaker'[r] = "half_open" /\ ~MayReport(q, r)'
<1> USE DEF TypeInv, EnvTypes, LoopTypes, PickTypes, Goto
<1>0. ~Admits(breaker[r]) /\ AfterState(breaker[r]) = "half_open"
  BY DEF Admits, AfterState
<1>1. CASE VisitAdmitted(q)
  <2>1. PICK s \in todo[q] : /\ Admits(breaker[s])
                             /\ breaker' = [breaker EXCEPT ![s] = AfterAllow(@)]
                             /\ granted' = [granted EXCEPT ![q] = @ \cup {s}]
    BY <1>1 DEF VisitAdmitted
  <2>2. s # r /\ pc' = pc /\ target' = target
    BY <1>0, <1>1, <2>1 DEF VisitAdmitted, loopVars
  <2> QED
    BY <2>1, <2>2 DEF MayReport
<1>2. CASE Send(q)
  <2>1. /\ pc[q] = "visit" /\ breaker' = breaker /\ granted'[q] = {} /\ pc'[q] = "upstream"
        /\ target'[q] = Choice(q) /\ Choice(q) \in granted[q]
    BY <1>2 DEF Send, EndPick, LoopInv, Candidacy, Choice
  <2> QED
    BY <2>1 DEF MayReport
<1>3. CASE UpstreamFails(q) \/ FirstByte(q) \/ StreamDead(q)
  <2>1. pc[q] \in {"upstream", "stream"} /\ target[q] # r
    BY <1>3 DEF UpstreamFails, FirstByte, StreamDead, MayReport
  <2>2. breaker'[r] = breaker[r]
    BY <1>3, <2>1 DEF UpstreamFails, FirstByte, StreamDead, RecordFailure, RecordSuccess
  <2>3. /\ granted' = granted
        /\ pc'[q] # "visit"
        /\ target'[q] = target[q] \/ pc'[q] \in {"pick", "unserved"}
    BY <1>3 DEF UpstreamFails, AttemptFailed, FirstByte, StreamDead, loopVars, pickVars
  <2> QED
    BY <2>1, <2>2, <2>3 DEF MayReport
<1>4. CASE Account(q)
  <2>1. pc'[q] = "done" /\ breaker'[r] \in {breaker[r], AfterState(breaker[r])}
    BY <1>4 DEF Account
  <2> QED
    BY <1>0, <2>1 DEF MayReport
<1>5. CASE BeginPick(q)
  <2>1. pc[q] = "pick" /\ granted' = granted /\ target' = target /\ pc'[q] = "visit" /\ breaker' = breaker
    BY <1>5 DEF BeginPick, loopVars
  <2>2. granted[q] = {}
    BY <2>1 DEF LoopInv, Candidacy
  <2> QED
    BY <2>1, <2>2 DEF MayReport
<1>6. CASE LookUpHit(q) \/ VisitRefused(q)
  BY <1>6 DEF LookUpHit, VisitRefused, MayReport, loopVars, pickVars
<1>7. CASE Arrive(q) \/ Reject(q) \/ Classify(q) \/ PickNone(q) \/ StreamDone(q) \/ RecordHit(q)
           \/ PinConversation(q) \/ AnswerUnavailable(q)
  <2>1. breaker' = breaker /\ pc'[q] \in {"classify", "done", "pick", "unserved", "hit", "pin", "account"}
    BY <1>7 DEF Arrive, Reject, Classify, PickNone, StreamDone, RecordHit, PinConversation, AnswerUnavailable
  <2> QED
    BY <2>1 DEF MayReport
<1> QED
  BY <1>1, <1>2, <1>3, <1>4, <1>5, <1>6, <1>7 DEF Serve

\* A half-open replica that nobody owes a report stays so until the process
\* ends.
THEOREM WedgeForever == Spec => WedgeIsPermanent
<1>1. ASSUME TypeInv, LoopInv, [Next]_vars, NEW r \in Replicas, Wedged(r), up, up' PROVE Wedged(r)'
  <2>0. breaker[r] = "half_open" /\ \A q \in Requests : ~MayReport(q, r)
    BY <1>1 DEF Wedged
  <2>1. ASSUME NEW p \in Requests, SameLocals(p) PROVE ~MayReport(p, r)'
    BY <2>0, <2>1 DEF SameLocals, MayReport
  <2>2. ASSUME NEW q \in Requests, Arrive(q) \/ Reject(q) \/ Serve(q) PROVE Wedged(r)'
    <3>1. breaker'[r] = "half_open" /\ ~MayReport(q, r)'
      BY <1>1, <2>0, <2>2, WedgedStep
    <3>2. ASSUME NEW p \in Requests, p # q PROVE ~MayReport(p, r)'
      BY <1>1, <2>1, <2>2, <3>2, OthersUntouched
    <3> QED
      BY <3>1, <3>2 DEF Wedged
  <2>3. CASE Aside
    <3>1. breaker'[r] = "half_open"
      BY <1>1, <2>0, <2>3 DEF Aside, Cool, ReadStatus, ScrapeFails, Expire, Restart, vars, AfterState, TypeInv, EnvTypes
    <3> QED
      BY <2>1, <2>3, <3>1, AsideUntouched DEF Wedged
  <2>4. ASSUME NEW s \in Replicas, ScrapeSucceeds(s) PROVE FALSE
    BY <1>1, <2>4 DEF ScrapeSucceeds, PollSuccess
  <2> QED
    BY <1>1, <2>2, <2>3, <2>4, StepKinds
<1>2. TypeInv /\ LoopInv /\ [Next]_vars => [\A r \in Replicas : Wedged(r) /\ up /\ up' => Wedged(r)']_vars
  BY <1>1
<1> QED
  BY <1>2, TypeCorrect, LoopInvariance, PTL DEF Spec, WedgeIsPermanent

-----------------------------------------------------------------------------
(* Proofs about Pick *)

\* Different replicas have different positions.
LEMMA PositionType ==
  ASSUME NEW r \in Replicas
  PROVE  Position(r) \in Nat /\ ReplicaOrder[Position(r)] = r
<1>1. \E i \in DOMAIN ReplicaOrder : ReplicaOrder[i] = r
  BY RouterAssumption
<1>2. Position(r) \in DOMAIN ReplicaOrder /\ ReplicaOrder[Position(r)] = r
  BY <1>1 DEF Position
<1> QED
  BY <1>2, RouterAssumption

\* A replica that comes after all of a pool replaces its best one exactly when
\* its score is higher.
LEMMA FirstBestGrows ==
  ASSUME NEW q \in Requests, NEW pool \in SUBSET Replicas, NEW r \in Replicas,
         NEW b \in MaybeReplica, IsFirstBest(q, b, pool),
         \A s \in pool : Position(s) < Position(r)
  PROVE  IsFirstBest(q, IF score(q, r) > BarOf(q, b) THEN r ELSE b, pool \cup {r})
<1>1. \A s \in Replicas : score(q, s) \in Nat /\ Position(s) \in Nat
  BY PositionType, RouterAssumption DEF score
<1>2. FloorScore \in Nat /\ NoReplica \notin Replicas
  BY RouterAssumption
<1> HIDE DEF score
<1>3. CASE b = NoReplica
  <2>1. \A s \in pool : score(q, s) <= FloorScore
    BY <1>2, <1>3 DEF IsFirstBest
  <2> QED
    BY <1>1, <1>2, <1>3, <2>1 DEF IsFirstBest, BarOf
<1>4. CASE b # NoReplica
  <2>1. /\ b \in pool /\ score(q, b) > FloorScore /\ BarOf(q, b) = score(q, b)
        /\ \A s \in pool : /\ score(q, b) >= score(q, s)
                           /\ score(q, b) = score(q, s) => Position(b) <= Position(s)
    BY <1>4 DEF IsFirstBest, BarOf
  <2> QED
    BY <1>1, <1>2, <2>1 DEF IsFirstBest
<1> QED
  BY <1>3, <1>4

\* The step of the loop that looks at r.
LEMMA VisitStep ==
  ASSUME TypeInv, NEW q \in Requests, BestSoFar(q), VisitAdmitted(q)
  PROVE  BestSoFar(q)'
<1> USE DEF TypeInv, PickTypes
<1>1. PICK r \in todo[q] : /\ IsNext(q, r)
                           /\ todo' = [todo EXCEPT ![q] = @ \ {r}]
                           /\ granted' = [granted EXCEPT ![q] = @ \cup {r}]
                           /\ Consider(q, r)
  BY DEF VisitAdmitted
<1>2. /\ r \in Replicas /\ granted[q] \subseteq Replicas /\ todo[q] \subseteq Replicas
      /\ granted'[q] = granted[q] \cup {r} /\ todo'[q] = todo[q] \ {r}
      /\ tier' = tier /\ aff' = aff
  BY <1>1 DEF VisitAdmitted, reqVars
<1>3. \A s \in granted'[q], t \in todo'[q] : Position(s) < Position(t)
  <2>1. \A t \in todo'[q] : Position(r) < Position(t)
    BY <1>1, <1>2, PositionType DEF IsNext
  <2> QED
    BY <1>2, <2>1 DEF BestSoFar
<1>4. \A s \in granted[q] : Position(s) < Position(r)
  BY <1>1 DEF BestSoFar
<1>5. best[q] \in MaybeReplica /\ fallback[q] \in MaybeReplica
  OBVIOUS
<1>6. CASE TierOf[r] = tier[q]
  <2>1. /\ best'[q] = IF score(q, r) > BarOf(q, best[q]) THEN r ELSE best[q]
        /\ fallback'[q] = fallback[q]
        /\ Matched(q)' = Matched(q) \cup {r} /\ Unmatched(q)' = Unmatched(q)
    BY <1>1, <1>2, <1>6 DEF Consider, Matched, Unmatched
  <2>2. IsFirstBest(q, IF score(q, r) > BarOf(q, best[q]) THEN r ELSE best[q], Matched(q) \cup {r})
    <3>1. Matched(q) \in SUBSET Replicas /\ \A s \in Matched(q) : Position(s) < Position(r)
      BY <1>2, <1>4 DEF Matched
    <3>2. IsFirstBest(q, best[q], Matched(q))
      BY DEF BestSoFar
    <3> QED
      BY <1>2, <1>5, <3>1, <3>2, FirstBestGrows
  <2>3. IsFirstBest(q, best[q], Matched(q))'
    BY <1>2, <2>1, <2>2 DEF IsFirstBest, score
  <2>4. IsFirstBest(q, fallback[q], Unmatched(q))'
    BY <1>2, <2>1 DEF BestSoFar, IsFirstBest, score
  <2> QED
    BY <1>3, <2>3, <2>4 DEF BestSoFar
<1>7. CASE TierOf[r] # tier[q]
  <2>1. /\ fallback'[q] = IF score(q, r) > BarOf(q, fallback[q]) THEN r ELSE fallback[q]
        /\ best'[q] = best[q]
        /\ Unmatched(q)' = Unmatched(q) \cup {r} /\ Matched(q)' = Matched(q)
    BY <1>1, <1>2, <1>7 DEF Consider, Matched, Unmatched
  <2>2. IsFirstBest(q, IF score(q, r) > BarOf(q, fallback[q]) THEN r ELSE fallback[q], Unmatched(q) \cup {r})
    <3>1. Unmatched(q) \in SUBSET Replicas /\ \A s \in Unmatched(q) : Position(s) < Position(r)
      BY <1>2, <1>4 DEF Unmatched
    <3>2. IsFirstBest(q, fallback[q], Unmatched(q))
      BY DEF BestSoFar
    <3> QED
      BY <1>2, <1>5, <3>1, <3>2, FirstBestGrows
  <2>3. IsFirstBest(q, fallback[q], Unmatched(q))'
    BY <1>2, <2>1, <2>2 DEF IsFirstBest, score
  <2>4. IsFirstBest(q, best[q], Matched(q))'
    BY <1>2, <2>1 DEF BestSoFar, IsFirstBest, score
  <2> QED
    BY <1>3, <2>3, <2>4 DEF BestSoFar
<1> QED
  BY <1>6, <1>7

\* What Pick has chosen so far stays right whatever the others do.
LEMMA PickStep == TypeInv /\ LoopInv /\ PickInv /\ [Next]_vars => PickInv'
<1> SUFFICES ASSUME TypeInv, LoopInv, PickInv, [Next]_vars, NEW p \in Requests, pc'[p] = "visit"
             PROVE  BestSoFar(p)'
  BY DEF PickInv
<1>1. CASE SameLocals(p)
  BY <1>1 DEF SameLocals, PickInv, BestSoFar, IsFirstBest, Matched, Unmatched, score
<1>2. CASE BeginPick(p)
  <2>1. pc[p] = "pick" /\ granted' = granted /\ best' = best /\ fallback' = fallback
    BY <1>2 DEF BeginPick, Goto
  <2>2. granted'[p] = {} /\ best'[p] = NoReplica /\ fallback'[p] = NoReplica
    BY <2>1 DEF LoopInv, Candidacy
  <2> QED
    BY <2>2 DEF BestSoFar, IsFirstBest, Matched, Unmatched
<1>3. CASE VisitRefused(p)
  <2>1. /\ pc[p] = "visit" /\ todo'[p] \subseteq todo[p] /\ UNCHANGED <<granted, best, fallback, aff, tier>>
    BY <1>3 DEF VisitRefused, reqVars, TypeInv, PickTypes
  <2> QED
    BY <2>1 DEF PickInv, BestSoFar, IsFirstBest, Matched, Unmatched, score
<1>4. CASE VisitAdmitted(p)
  BY <1>4, VisitStep DEF VisitAdmitted, PickInv
<1>5. ASSUME Arrive(p) \/ Reject(p) \/ Serve(p), ~BeginPick(p), ~VisitRefused(p), ~VisitAdmitted(p) PROVE FALSE
  BY <1>5 DEF Serve, Arrive, Reject, Classify, PickNone, Send, UpstreamFails, AttemptFailed, FirstByte, LookUpHit,
     StreamDone, StreamDead, RecordHit, PinConversation, Account, AnswerUnavailable, Goto, TypeInv, LoopTypes
<1>6. CASE AllReset
  BY <1>6 DEF AllReset
<1> QED
  BY <1>1, <1>2, <1>3, <1>4, <1>5, <1>6, WhoMoved

\* When the loop is over, its two candidates are the choice that Pick is
\* meant to make.
LEMMA ChoiceIsBest ==
  ASSUME TypeInv, NEW q \in Requests, BestSoFar(q)
  PROVE  /\ Choice(q) # NoReplica => Choice(q) \in PickChoices(q)
         /\ Choice(q) = NoReplica => Usable(q) = {}
<1>1. \A s \in Replicas : score(q, s) \in Nat /\ Position(s) \in Nat
  BY PositionType, RouterAssumption DEF score
<1>2. /\ granted[q] \in SUBSET Replicas /\ NoReplica \notin Replicas /\ FloorScore \in Nat
      /\ IsFirstBest(q, best[q], Matched(q)) /\ IsFirstBest(q, fallback[q], Unmatched(q))
  BY RouterAssumption DEF TypeInv, PickTypes, BestSoFar
<1> DEFINE matched == {r \in Usable(q) : TierOf[r] = tier[q]}
           pool    == IF matched # {} THEN matched ELSE Usable(q)
<1>3. CASE best[q] # NoReplica
  <2>1. /\ best[q] \in Matched(q) /\ score(q, best[q]) > FloorScore
        /\ \A s \in Matched(q) : /\ score(q, best[q]) >= score(q, s)
                                 /\ score(q, best[q]) = score(q, s) => Position(best[q]) <= Position(s)
    BY <1>2, <1>3 DEF IsFirstBest
  <2>2. best[q] \in matched /\ matched \subseteq Matched(q) /\ pool = matched
    BY <2>1 DEF Usable, Matched
  <2>3. best[q] \in PickChoices(q)
    BY <1>1, <1>2, <2>1, <2>2 DEF PickChoices, Matched
  <2> QED
    BY <1>3, <2>3 DEF Choice
<1>4. CASE best[q] = NoReplica
  <2>1. \A s \in Matched(q) : score(q, s) <= FloorScore
    BY <1>2, <1>4 DEF IsFirstBest, Matched
  <2>2. matched = {} /\ pool = Usable(q) /\ Usable(q) \subseteq Unmatched(q)
    BY <1>1, <1>2, <2>1 DEF Usable, Matched, Unmatched
  <2>3. CASE fallback[q] # NoReplica
    <3>1. /\ fallback[q] \in Unmatched(q) /\ score(q, fallback[q]) > FloorScore
          /\ \A s \in Unmatched(q) : /\ score(q, fallback[q]) >= score(q, s)
                                     /\ score(q, fallback[q]) = score(q, s) => Position(fallback[q]) <= Position(s)
      BY <1>2, <2>3 DEF IsFirstBest
    <3>2. fallback[q] \in Usable(q)
      BY <3>1 DEF Usable, Unmatched
    <3>3. fallback[q] \in PickChoices(q)
      BY <1>1, <1>2, <2>2, <3>1, <3>2 DEF PickChoices, Unmatched
    <3> QED
      BY <1>4, <2>3, <3>3 DEF Choice
  <2>4. CASE fallback[q] = NoReplica
    <3>1. \A s \in Unmatched(q) : score(q, s) <= FloorScore
      BY <1>2, <2>4 DEF IsFirstBest, Unmatched
    <3>2. Usable(q) = {}
      BY <1>1, <1>2, <2>2, <3>1 DEF Usable
    <3> QED
      BY <1>4, <2>4, <3>2 DEF Choice
  <2> QED
    BY <2>3, <2>4
<1> QED
  BY <1>3, <1>4

\* Pick returns the best replica of those that admitted the request, for every
\* configuration order and all scores.
THEOREM PickIsBestSafe == Spec => PickIsBest
<1>1. Init => PickInv
  BY DEF Init, PickInv
<1>2. Spec => []PickInv
  BY <1>1, PickStep, TypeCorrect, LoopInvariance, PTL DEF Spec
<1>3. ASSUME TypeInv, PickInv, [Next]_vars, NEW q \in Requests, pc[q] = "visit", up'
      PROVE  /\ pc'[q] = "upstream" => target'[q] \in PickChoices(q)
             /\ pc'[q] = "unserved" => Usable(q) = {}
  <2>0. BestSoFar(q)
    BY <1>3 DEF PickInv
  <2>1. CASE Send(q)
    BY <1>3, <2>0, <2>1, ChoiceIsBest DEF Send, Goto, TypeInv, LoopTypes
  <2>2. CASE PickNone(q)
    BY <1>3, <2>0, <2>2, ChoiceIsBest DEF PickNone, Goto, TypeInv, LoopTypes
  <2>3. ASSUME pc'[q] \in {"upstream", "unserved"} PROVE Send(q) \/ PickNone(q)
    <3>1. Arrive(q) \/ Reject(q) \/ Serve(q)
      BY <1>3, <2>3, WhoMoved DEF SameLocals, AllReset
    <3> QED
      BY <1>3, <2>3, <3>1 DEF Serve, Arrive, Reject, Classify, BeginPick, VisitRefused, VisitAdmitted,
         UpstreamFails, FirstByte, LookUpHit, StreamDone, StreamDead, RecordHit, PinConversation, Account,
         AnswerUnavailable, Goto
  <2> QED
    BY <2>1, <2>2, <2>3
<1>4. TypeInv /\ PickInv /\ [Next]_vars =>
        [\A q \in Requests :
           pc[q] = "visit" /\ up' => /\ pc'[q] = "upstream" => target'[q] \in PickChoices(q)
                                     /\ pc'[q] = "unserved" => Usable(q) = {}]_vars
  BY <1>3
<1> QED
  BY <1>2, <1>4, TypeCorrect, PTL DEF Spec, PickIsBest

-----------------------------------------------------------------------------
(* Every step of a request takes it nearer to its answer *)

\* There are finitely many replicas: they are listed in the configuration.
LEMMA ReplicasFinite == IsFiniteSet(Replicas) /\ Cardinality(Replicas) \in Nat
<1>1. ReplicaOrder \in Surjection(1 .. Len(ReplicaOrder), Replicas)
  BY RouterAssumption DEF Surjection
<1>2. IsFiniteSet(1 .. Len(ReplicaOrder))
  BY FS_Interval, RouterAssumption
<1>3. IsFiniteSet(Replicas)
  BY <1>1, <1>2, FS_Surjection
<1> QED
  BY <1>3, FS_CardinalityType

\* Pick never has more replicas to look at than there are.
LEMMA FewLeft ==
  ASSUME NEW T \in SUBSET Replicas
  PROVE  /\ Cardinality(T) \in 0 .. Cardinality(Replicas)
         /\ \A r \in T : Cardinality(T \ {r}) = Cardinality(T) - 1
<1>1. IsFiniteSet(T) /\ Cardinality(T) <= Cardinality(Replicas)
  BY ReplicasFinite, FS_Subset
<1>2. Cardinality(T) \in Nat
  BY <1>1, FS_CardinalityType
<1>3. \A r \in T : Cardinality(T \ {r}) = Cardinality(T) - 1
  BY <1>1, FS_RemoveElement
<1> QED
  BY <1>1, <1>2, <1>3, ReplicasFinite

\* k attempts are one attempt and k - 1 more.
LEMMA OneRound ==
  ASSUME NEW k \in Nat \ {0}, NEW p \in Nat
  PROVE  /\ k * p \in Nat /\ (k - 1) * p \in Nat
         /\ k * p = (k - 1) * p + p
<1>1. PICK j \in Nat : k = j + 1
  BY k - 1 \in Nat
<1>2. k - 1 = j
  BY <1>1
<1>3. j * p \in Nat /\ (j + 1) * p = j * p + p
  BY SMT
<1> QED
  BY <1>1, <1>2, <1>3

\* Where a request in the handler stands.
Place(q) ==
  /\ attempt[q] \in Nat /\ MaxAttempts \in Nat
  /\ Distance(q) \in Nat /\ Distance(q) > 0
  /\ pc[q] = "classify" => Distance(q) = MaxAttempts * PerAttempt + 7
  /\ pc[q] = "pick" => Distance(q) = (MaxAttempts - attempt[q]) * PerAttempt + 6
  /\ pc[q] = "visit" => Distance(q) = (MaxAttempts - attempt[q]) * PerAttempt + 5
                                       - (Cardinality(Replicas) - Cardinality(todo[q]))
  /\ pc[q] = "upstream" => Distance(q) = (MaxAttempts - attempt[q] - 1) * PerAttempt + 7
  /\ pc[q] \notin {"classify", "pick", "visit", "upstream"} =>
       pc[q] \in DOMAIN After /\ Distance(q) = After[pc[q]]

\* The distance of a request in the handler is a positive number.
LEMMA DistanceRunning == \A q \in Requests : TypeInv /\ LoopInv /\ pc[q] \in Running => Place(q)
<1> SUFFICES ASSUME TypeInv, LoopInv, NEW q \in Requests, pc[q] \in Running PROVE Place(q)
  OBVIOUS
<1> USE DEF Place
<1>1. /\ attempt[q] \in Nat /\ MaxAttempts \in Nat \ {0} /\ Ledger(q)
      /\ todo[q] \in SUBSET Replicas
  BY RouterAssumption DEF TypeInv, LoopTypes, PickTypes, LoopInv, MaxAttempts
<1>2. PerAttempt \in Nat /\ PerAttempt = Cardinality(Replicas) + 3
  BY ReplicasFinite DEF PerAttempt
<1>3. CASE pc[q] = "classify"
  <2>1. MaxAttempts * PerAttempt \in Nat
    BY <1>1, <1>2, OneRound
  <2> QED
    BY <1>1, <1>3, <2>1 DEF Distance, After
<1>4. CASE pc[q] \in {"pick", "visit", "upstream"}
  <2>1. MaxAttempts - attempt[q] \in Nat \ {0}
    BY <1>1, <1>4 DEF Ledger, Served
  <2>2. DEFINE k == MaxAttempts - attempt[q]
  <2>3. k * PerAttempt \in Nat /\ (k - 1) * PerAttempt \in Nat /\ k * PerAttempt = (k - 1) * PerAttempt + PerAttempt
    BY <1>2, <2>1, OneRound
  <2>4. Cardinality(todo[q]) \in 0 .. Cardinality(Replicas)
    BY <1>1, FewLeft
  <2>5. CASE pc[q] = "pick"
    BY <1>1, <2>3, <2>5 DEF Distance, After
  <2>6. CASE pc[q] = "visit"
    BY <1>1, <1>2, <2>3, <2>4, <2>6, ReplicasFinite DEF Distance, After
  <2>7. CASE pc[q] = "upstream"
    BY <1>1, <2>3, <2>7 DEF Distance, After
  <2> QED
    BY <1>4, <2>5, <2>6, <2>7
<1>5. CASE pc[q] \in DOMAIN After
  BY <1>1, <1>5 DEF Distance, After
<1>6. pc[q] \in {"classify", "pick", "visit", "upstream"} \cup DOMAIN After
  BY DEF Running, After
<1> QED
  BY <1>3, <1>4, <1>5, <1>6

\* So it is in the next state.
LEMMA DistanceRunningNext == (\A q \in Requests : TypeInv /\ LoopInv /\ pc[q] \in Running => Place(q))'
BY DistanceRunning, PTL

\* A step of q's goroutine takes it nearer to the end of the handler.
LEMMA OwnStepNearer ==
  ASSUME TypeInv, LoopInv, TypeInv', LoopInv', NEW q \in Requests, pc[q] \in Running, Serve(q)
  PROVE  Distance(q)' < Distance(q)
<1>1. /\ attempt[q] \in Nat /\ MaxAttempts \in Nat \ {0} /\ Ledger(q) /\ Candidacy(q) /\ Candidacy(q)'
      /\ todo[q] \in SUBSET Replicas /\ todo'[q] \in SUBSET Replicas
      /\ pc \in [Requests -> Stages] /\ attempt \in [Requests -> Nat] /\ todo \in [Requests -> SUBSET Replicas]
  BY RouterAssumption DEF TypeInv, LoopTypes, PickTypes, LoopInv, MaxAttempts
<1>2. PerAttempt \in Nat /\ PerAttempt = Cardinality(Replicas) + 3 /\ Cardinality(Replicas) \in Nat
  BY ReplicasFinite DEF PerAttempt
<1>3. Place(q)
  BY DistanceRunning
<1>4. pc'[q] \in Running => Place(q)'
  BY DistanceRunningNext
<1>5. CASE Classify(q)
  <2>1. pc[q] = "classify" /\ pc'[q] = "pick" /\ attempt'[q] = 0
    BY <1>1, <1>5 DEF Classify, Goto, loopVars, Ledger
  <2>2. Distance(q) = MaxAttempts * PerAttempt + 7 /\ Distance(q)' = MaxAttempts * PerAttempt + 6
    BY <1>1, <1>3, <1>4, <2>1 DEF Place, Running
  <2>3. MaxAttempts * PerAttempt \in Nat
    BY <1>1, <1>2, OneRound
  <2> QED
    BY <2>2, <2>3
<1>6. CASE BeginPick(q) \/ VisitRefused(q) \/ VisitAdmitted(q) \/ PickNone(q) \/ Send(q)
  <2>1. attempt' = attempt /\ pc[q] \in {"pick", "visit"}
    BY <1>6 DEF BeginPick, VisitRefused, VisitAdmitted, PickNone, Send, Goto, loopVars
  <2> DEFINE k == MaxAttempts - attempt[q]
  <2>2. k \in Nat \ {0}
    BY <1>1, <2>1 DEF Ledger, Served
  <2>3. k * PerAttempt \in Nat /\ (k - 1) * PerAttempt \in Nat /\ k * PerAttempt = (k - 1) * PerAttempt + PerAttempt
    BY <1>2, <2>2, OneRound
  <2>4. /\ Cardinality(todo[q]) \in 0 .. Cardinality(Replicas)
        /\ Cardinality(todo'[q]) \in 0 .. Cardinality(Replicas)
    BY <1>1, FewLeft
  <2>5. CASE BeginPick(q)
    <3>1. pc[q] = "pick" /\ pc'[q] = "visit"
      BY <1>1, <2>5 DEF BeginPick, Goto
    <3>2. /\ Distance(q) = k * PerAttempt + 6
          /\ Distance(q)' = k * PerAttempt + 5 - (Cardinality(Replicas) - Cardinality(todo'[q]))
      BY <1>3, <1>4, <2>1, <3>1 DEF Place, Running
    <3> QED
      BY <1>2, <2>3, <2>4, <3>2
  <2>6. CASE VisitRefused(q) \/ VisitAdmitted(q)
    <3>1. pc[q] = "visit" /\ pc'[q] = "visit" /\ \E r \in todo[q] : todo'[q] = todo[q] \ {r}
      BY <1>1, <2>6 DEF VisitRefused, VisitAdmitted
    <3>2. Cardinality(todo'[q]) = Cardinality(todo[q]) - 1
      BY <1>1, <3>1, FewLeft
    <3>3. /\ Distance(q) = k * PerAttempt + 5 - (Cardinality(Replicas) - Cardinality(todo[q]))
          /\ Distance(q)' = k * PerAttempt + 5 - (Cardinality(Replicas) - Cardinality(todo'[q]))
      BY <1>3, <1>4, <2>1, <3>1 DEF Place, Running
    <3> QED
      BY <1>2, <2>3, <2>4, <3>2, <3>3
  <2>7. CASE PickNone(q) \/ Send(q)
    <3>1. pc[q] = "visit" /\ todo[q] = {}
      BY <1>1, <2>7 DEF PickNone, Send, Goto
    <3>2. Distance(q) = (k - 1) * PerAttempt + 8
      BY <1>2, <1>3, <2>3, <3>1, FS_EmptySet DEF Place
    <3>3. CASE PickNone(q)
      <4>1. pc'[q] = "unserved"
        BY <1>1, <3>3 DEF PickNone, Goto
      <4>2. Distance(q)' = 1
        BY <1>4, <4>1 DEF Place, Running, After
      <4> QED
        BY <2>3, <3>2, <4>2
    <3>4. CASE Send(q)
      <4>1. pc'[q] = "upstream"
        BY <1>1, <3>4 DEF Send, Goto
      <4>2. Distance(q)' = (k - 1) * PerAttempt + 7
        BY <1>4, <2>1, <4>1 DEF Place, Running
      <4> QED
        BY <2>3, <3>2, <4>2
    <3> QED
      BY <2>7, <3>3, <3>4
  <2> QED
    BY <1>6, <2>5, <2>6, <2>7
<1>7. CASE UpstreamFails(q) \/ FirstByte(q)
  <2> DEFINE k == MaxAttempts - attempt[q]
  <2>1. pc[q] = "upstream" /\ k \in Nat \ {0}
    BY <1>1, <1>7 DEF UpstreamFails, FirstByte, Goto, Ledger, Served
  <2>2. (k - 1) * PerAttempt \in Nat /\ Distance(q) = (k - 1) * PerAttempt + 7
    BY <1>2, <1>3, <2>1, OneRound DEF Place
  <2>3. CASE UpstreamFails(q)
    <3>1. attempt'[q] = attempt[q] + 1 /\ pc'[q] \in {"pick", "unserved"}
      BY <1>1, <2>3 DEF UpstreamFails, AttemptFailed
    <3>2. MaxAttempts - attempt'[q] = k - 1
      BY <1>1, <3>1
    <3>3. Distance(q)' \in {(k - 1) * PerAttempt + 6, 1}
      BY <1>4, <3>1, <3>2 DEF Place, Running, After
    <3> QED
      BY <2>2, <3>3
  <2>4. CASE FirstByte(q)
    <3>1. pc'[q] = "lookup"
      BY <1>1, <2>4 DEF FirstByte, Goto
    <3>2. Distance(q)' = 6
      BY <1>4, <3>1 DEF Place, Running, After
    <3> QED
      BY <2>2, <3>2
  <2> QED
    BY <1>7, <2>3, <2>4
<1>8. CASE LookUpHit(q) \/ StreamDone(q) \/ StreamDead(q) \/ RecordHit(q) \/ PinConversation(q)
  <2>1. \/ pc[q] = "lookup" /\ pc'[q] = "stream"
        \/ pc[q] = "stream" /\ pc'[q] = "hit"
        \/ pc[q] = "hit" /\ pc'[q] = "pin"
        \/ pc[q] = "pin" /\ pc'[q] = "account"
    BY <1>1, <1>8 DEF LookUpHit, StreamDone, StreamDead, RecordHit, PinConversation, Goto
  <2> QED
    BY <1>3, <1>4, <2>1 DEF Place, Running, After
<1>9. CASE Account(q) \/ AnswerUnavailable(q)
  <2>1. pc'[q] = "done"
    BY <1>1, <1>9 DEF Account, AnswerUnavailable, Goto
  <2>2. Distance(q)' = 0
    BY <2>1 DEF Distance, After
  <2> QED
    BY <1>3, <2>2 DEF Place
<1> QED
  BY <1>5, <1>6, <1>7, <1>8, <1>9 DEF Serve

\* The measure of a request in the handler falls with every step of its
\* goroutine, whatever the number of replicas and retries.
THEOREM StepsComeNearerSafe == Spec => StepsComeNearer
<1>1. ASSUME TypeInv, LoopInv, TypeInv', LoopInv', [Next]_vars, NEW q \in Requests, pc[q] \in Running,
             pc'[q] # pc[q] \/ todo'[q] # todo[q]
      PROVE  Distance(q)' < Distance(q)
  <2>1. CASE Serve(q)
    BY <1>1, <2>1, OwnStepNearer
  <2>2. CASE AllReset
    <3>1. pc'[q] = "lost"
      BY <1>1, <2>2 DEF AllReset
    <3>2. Distance(q)' = 0
      BY <3>1 DEF Distance, After
    <3> QED
      BY <1>1, <3>2, DistanceRunning DEF Place
  <2>3. ~SameLocals(q) /\ ~Arrive(q) /\ ~Reject(q)
    BY <1>1 DEF SameLocals, Arrive, Reject, Goto, Running
  <2> QED
    BY <1>1, <2>1, <2>2, <2>3, WhoMoved
<1>2. TypeInv /\ LoopInv /\ TypeInv' /\ LoopInv' /\ [Next]_vars =>
        [\A q \in Requests :
           pc[q] \in Running /\ (pc'[q] # pc[q] \/ todo'[q] # todo[q]) => Distance(q)' < Distance(q)]_vars
  BY <1>1
<1> QED
  BY <1>2, TypeCorrect, LoopInvariance, PTL DEF Spec, StepsComeNearer

=============================================================================
