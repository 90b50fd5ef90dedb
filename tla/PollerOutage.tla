---------------------------- MODULE PollerOutage ----------------------------
(***************************************************************************)
(* The poller next to replicas that go away and come back: what a replica  *)
(* that answers again may expect of it.                                    *)
(***************************************************************************)
EXTENDS Poller

VARIABLE answering       \* external: the replica's /metrics endpoint answers

vars == <<up, failures, healthy, answering>>

Init == PollerInit /\ answering \in [Replicas -> BOOLEAN]

Scrape(r) == /\ \/ answering[r] /\ PollSuccess(r)
                \/ ~answering[r] /\ PollFailure(r)
             /\ UNCHANGED answering

Flip(r) == /\ answering' = [answering EXCEPT ![r] = ~@]
           /\ UNCHANGED pollerVars

Next == \E r \in Replicas : Scrape(r) \/ Flip(r)

\* The ticker of every pollLoop keeps firing.
Fairness == \A r \in Replicas : WF_vars(Scrape(r))

Spec == Init /\ [][Next]_vars /\ Fairness

\* pollLoop logs "replica recovered": a replica that answers from some moment
\* on is eventually, and stays, healthy.
RecoversAfterOutage ==
  \A r \in Replicas : <>[]answering[r] => <>[](up /\ healthy[r])

=============================================================================
