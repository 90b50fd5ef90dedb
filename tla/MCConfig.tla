------------------------------ MODULE MCConfig ------------------------------
(* Config for TLC: files with up to three tiers in every order, and files    *)
(* with one complete list of tiers and unusual settings.                      *)
EXTENDS Config

MCDims == {"score", "reasoning"}

Bounds(score, reasoning) == [d \in MCDims |-> IF d = "score" THEN score ELSE reasoning]

Rule(min, max, types) == [min |-> min, max |-> max, taskTypes |-> types]

NoBound == Bounds(Unset, Unset)
Middling == Rule(Bounds(1, Unset), Bounds(2, Unset), {})
DeepCode == Rule(Bounds(Unset, 1), NoBound, {"code"})
Upside   == Rule(Bounds(1, Unset), Bounds(1, Unset), {})

Routing(fallback, codeSignals, types, rules) ==
  [fallback |-> fallback, codeSignals |-> codeSignals, taskTypes |-> types, rules |-> rules]

Selective == {Routing(FALSE, FALSE, {"qa"}, {}), Routing(FALSE, TRUE, {}, {}),
              Routing(FALSE, FALSE, {}, {Middling, DeepCode})}
Routings == Selective \cup {Routing(TRUE, FALSE, {"code"}, {})}

Server(id, url, size) == [id |-> id, url |-> url, size |-> size]

Tier(name, priority, routing, servers) ==
  [name |-> name, priority |-> priority, replicas |-> servers] @@ routing

Two == <<Server("a", "u", 7), Server("b", "u", 72)>>
One == <<Server("c", "u", 0)>>

ThreeTiers == {<<Tier("small", p, x, Two), Tier("large", q, y, One), Tier("reasoning", r, z, One)>> :
                 p, q, r \in 0 .. 2, x, y, z \in Routings}

\* Every flaw of a tier that validate looks for, alone and with others.
TwoTiers == {<<Tier(n, p, x, s), Tier("large", 1, y, One)>> :
               n \in {"small", "large", Missing}, p \in -1 .. 2,
               x \in Routings \cup {Routing(FALSE, FALSE, {}, {Upside})}, y \in Routings,
               s \in {One, <<>>, <<Server(Missing, "u", 7)>>,
                      <<Server("a", Missing, 7)>>, <<Server("a", "u", Missing)>>}}

\* Every number as an empty file has it.
Bare == [f \in DOMAIN Default \cup DOMAIN PostgresDefault \cup Weights \cup {"done_timeout"} |-> 0]
          @@ [f \in DOMAIN PenaltyDefault |-> Unset]

Values(f) == IF f \in DOMAIN PenaltyDefault THEN {-30, -20, 0, 30} ELSE {-1, 1, 200}

Everything == {"auth", "ratelimit", "audit", "postgres"}

File(models, settings, enabled, given) ==
  [models |-> models, settings |-> settings, enabled |-> enabled, given |-> given]

Plain == <<Tier("small", 1, Routing(TRUE, FALSE, {}, {}), One)>>

\* The tiers of config.yaml, with one that the service does not know.
Shipped == <<Tier("small", 1, Routing(FALSE, FALSE, {"qa"}, {}), Two),
             Tier("code", 2, Routing(FALSE, TRUE, {"code"}, {}), One),
             Tier("medium", 3, Routing(TRUE, FALSE, {}, {}), One),
             Tier("large", 4, Routing(FALSE, FALSE, {}, {Middling}), One),
             Tier("reasoning", 5, Routing(FALSE, FALSE, {}, {DeepCode}), One),
             Tier("huge", 6, Routing(FALSE, FALSE, {"other"}, {}), One)>>

MCFiles == {File(m, Bare, {"audit"}, {"redis"}) : m \in ThreeTiers \cup TwoTiers \cup {<<>>, Shipped}}
      \cup UNION {{File(Plain, [Bare EXCEPT ![f] = v], e, {"redis", "keys", "dsn"}) :
                     v \in Values(f), e \in {{}, Everything}} : f \in DOMAIN Bare}
      \cup {File(Plain, Bare, e, g) : e \in SUBSET Everything, g \in SUBSET {"redis", "keys", "dsn"}}

MCSignals == [task : {"Code Generation", "Classification", "Open QA", "Other"},
              score : {14, 15, 54, 55, 65}, reasoning : {14, 15, 69, 70},
              domain : {79, 80}, constraint : {59, 60}]

MCResults == [taskType : {"qa", "code", "other"}, hasCode : BOOLEAN, level : [MCDims -> 0 .. 2]]

=============================================================================
