---------------------------- MODULE ModelSelect ----------------------------
(***************************************************************************)
(* The decision of the classifier service, app/model_select.py: the model  *)
(* for a prompt from the numbers that the neural network gave it, raised   *)
(* to the tier the conversation is pinned to.  A model stands for its tier *)
(* (MODEL_TO_TIER).  Numbers are in percent.                               *)
(***************************************************************************)
EXTENDS Integers

\* TIER_TO_MODEL: the service has no model for the tier "medium".
Served == {"small", "code", "reasoning", "large"}

TIER_PRIORITY == [small |-> 1, code |-> 2, medium |-> 3, large |-> 4, reasoning |-> 5]

\* One of CODE_SIGNALS is in the name of the task: "code", and "class".
HasCodeSignal(task) == task \in {"Code Generation", "Classification"}

\* classify does not pass the text on, so code in it has no effect.
base_pick(r) ==
  CASE HasCodeSignal(r.task) -> "code"
    [] r.task \in {"Open QA", "Closed QA"} /\ r.score < 15 /\ r.reasoning < 15 -> "small"
    [] r.reasoning >= 70 /\ r.score >= 55 -> "large"
    [] r.score >= 65 /\ r.domain >= 80 /\ r.constraint >= 60 -> "large"
    [] OTHER -> "reasoning"

Rank(tier) == IF tier \in DOMAIN TIER_PRIORITY THEN TIER_PRIORITY[tier] ELSE 0

\* Bug: the comparison is the wrong way round.
MutantClampUp(picked, current) ==
  IF Rank(current) < Rank(picked) /\ current \in Served THEN current ELSE picked

\* A pin that the service does not know, or has no model for, changes nothing.
clamp_up(picked, current) ==
  IF Rank(current) > Rank(picked) /\ current \in Served THEN current ELSE picked

=============================================================================
