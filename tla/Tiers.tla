-------------------------------- MODULE Tiers --------------------------------
(***************************************************************************)
(* The routing tiers of internal/types/types.go as operators on a replica  *)
(* list: which tier a classification selects, and which of two tiers is    *)
(* the higher one.  An entry of the list is a replica with the tier it     *)
(* belongs to:                                                             *)
(*   tier    [name, priority, fallback, codeSignals, taskTypes, rules]     *)
(*   size    the parameter count found in its model's name                 *)
(* TierForClassification is called by tests only; the running router takes *)
(* the tier from the classifier service and clamps it with HigherTier.     *)
(***************************************************************************)
EXTENDS Integers, Sequences, FiniteSetsExt

CONSTANTS Dims,       \* the numbers of a classification, "score" among them
          Unset,      \* a nil threshold
          CodeLimit   \* the score (0.60) below which code signals count

\* A rule has thresholds and task types; those that are absent do not count.
ruleMatches(rule, result) ==
  /\ rule.taskTypes = {} \/ result.taskType \in rule.taskTypes
  /\ \A d \in Dims : /\ rule.min[d] # Unset => result.level[d] >= rule.min[d]
                     /\ rule.max[d] # Unset => result.level[d] < rule.max[d]

tierMatches(tier, result) ==
  \/ result.taskType \in tier.taskTypes
  \/ tier.codeSignals /\ result.hasCode /\ result.level["score"] < CodeLimit
  \/ \E rule \in tier.rules : ruleMatches(rule, result)

\* The first replica of the largest size.
LargestTier(list) ==
  LET largest == {i \in DOMAIN list : \A j \in DOMAIN list : list[j].size <= list[i].size}
  IN  list[Min(largest)].tier.name

\* The first tier that matches, in the order of the list; each tier name is
\* looked at once, and the fallback tier only when no other matches.
TierForClassification(list, result) ==
  LET seen(i)  == \E j \in 1 .. i - 1 : list[j].tier.name = list[i].tier.name
      hits     == {i \in DOMAIN list : /\ ~seen(i)
                                       /\ ~list[i].tier.fallback
                                       /\ tierMatches(list[i].tier, result)}
      fallback == {i \in DOMAIN list : list[i].tier.fallback}
  IN  IF hits # {} THEN list[Min(hits)].tier.name
      ELSE IF fallback # {} THEN list[Min(fallback)].tier.name
      ELSE LargestTier(list)

\* The priority of a tier, -1 when the list does not have it.
PriorityOf(list, name) ==
  LET at == {i \in DOMAIN list : list[i].tier.name = name}
  IN  IF at = {} THEN -1 ELSE list[Min(at)].tier.priority

HigherTier(list, a, b) == IF PriorityOf(list, a) >= PriorityOf(list, b) THEN a ELSE b

=============================================================================
