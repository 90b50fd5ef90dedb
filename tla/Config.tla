------------------------------- MODULE Config -------------------------------
(***************************************************************************)
(* Load of internal/config/config.go: defaults, validation and the replica *)
(* list, for every start of the router, next to the one thing that         *)
(* outlives a configuration: the tier that a conversation is pinned to in  *)
(* Redis.  A pin made under one file is read under another, where its tier *)
(* may rank differently or not exist.  The classifier service raises its   *)
(* answer to the pin by a table of its own (module ModelSelect), the       *)
(* router by the priorities of its file.                                   *)
(*                                                                         *)
(* A file is a record                                                      *)
(*   models    the model tiers, in the order of the file: tiers as in      *)
(*             module Tiers with a sequence of replicas [id, url, size]    *)
(*   settings  the numbers; durations in seconds, fractions in percent,    *)
(*             penalties in tenths                                         *)
(*   enabled   the optional parts that are switched on                     *)
(*   given     the required texts that are not empty                       *)
(* A replica without a model name has no size: Missing.                    *)
(***************************************************************************)
EXTENDS Tiers, ModelSelect, SequencesExt

CONSTANTS Files,      \* configuration files an operator may start with
          Results,    \* classifications, for TierForClassification
          Signals,    \* what the network may say of a prompt, for base_pick
          Missing     \* the empty string

VARIABLES status,     \* "down" or "up"
          config,     \* the configuration in effect, with its defaults
          replicas,   \* Config.Replicas
          pin,        \* Redis: the tier the conversation is pinned to
          answered    \* history: the pin found at the start and every tier
                      \* answered since then

vars == <<status, config, replicas, pin, answered>>

Default ==
  [max_queue |-> 20, threshold |-> 35, affinity_ttl |-> 300, poll_interval |-> 2,
   error_threshold |-> 50, window_size |-> 10, cooldown |-> 30, min_samples |-> 5,
   max_retries |-> 1, timeout |-> 30, requests_per_minute |-> 60, burst |-> 10,
   audit_buffer |-> 1000, stall_timeout |-> 15]

PenaltyDefault == [frequency_penalty |-> 2, presence_penalty |-> 1]

PostgresDefault == [flush_interval |-> 5, batch_size |-> 100, buffer_size |-> 4096]

Weights == {"cache_affinity", "queue_depth", "kv_cache_pressure", "baseline", "miss_penalty"}

Numbers == DOMAIN Default \cup DOMAIN PostgresDefault \cup Weights \cup {"done_timeout"}

\* What the YAML decoder makes of a file, whatever is in it: every number is
\* there, zero if the file does not have it, a penalty may be nil, and lists
\* are lists.
ASSUME FileAssumption ==
  /\ \A file \in Files :
       /\ file = [models |-> file.models, settings |-> file.settings,
                  enabled |-> file.enabled, given |-> file.given]
       /\ DOMAIN file.settings = Numbers \cup DOMAIN PenaltyDefault
       /\ \A f \in Numbers : file.settings[f] \in Int
       /\ file.models \in Seq(Range(file.models))
       /\ \A i \in DOMAIN file.models : /\ file.models[i].priority \in Int
                                         /\ file.models[i].replicas \in Seq(Range(file.models[i].replicas))
  /\ Missing \notin DOMAIN TIER_PRIORITY

\* Bug: the sink's numbers get no defaults.
MutantSetting(file, f) ==
  LET v == file.settings[f]
  IN  CASE f \in DOMAIN Default /\ v = 0 -> Default[f]
        [] f \in DOMAIN PenaltyDefault /\ v = Unset -> PenaltyDefault[f]
        [] OTHER -> v

\* Zero means that a number is not in the file, except for the two penalties,
\* which are pointers; the sink's numbers matter only when it is enabled.
Setting(file, f) ==
  LET v == file.settings[f]
  IN  CASE f \in DOMAIN Default /\ v = 0 -> Default[f]
        [] f \in DOMAIN PenaltyDefault /\ v = Unset -> PenaltyDefault[f]
        [] f \in DOMAIN PostgresDefault /\ v = 0 /\ "postgres" \in file.enabled -> PostgresDefault[f]
        [] OTHER -> v

applyDefaults(file) ==
  [file EXCEPT !.settings = [f \in DOMAIN @ |-> Setting(file, f)]]

-----------------------------------------------------------------------------
(* validate *)

ValidRule(rule) ==
  \A d \in Dims : rule.min[d] # Unset /\ rule.max[d] # Unset => rule.min[d] < rule.max[d]

ValidTier(t) ==
  /\ t.name # Missing
  /\ t.priority >= 0
  /\ t.replicas # <<>>
  /\ \A rule \in t.rules : ValidRule(rule)
  /\ \A i \in DOMAIN t.replicas : \A f \in {"id", "url", "size"} : t.replicas[i][f] # Missing

\* Bug: two tiers may have one priority.
MutantValidModels(models) ==
  /\ models # <<>>
  /\ \A i \in DOMAIN models : ValidTier(models[i])
  /\ \A i, j \in DOMAIN models : i # j => models[i].name # models[j].name
  /\ Cardinality({i \in DOMAIN models : models[i].fallback}) = 1

ValidModels(models) ==
  /\ models # <<>>
  /\ \A i \in DOMAIN models : ValidTier(models[i])
  /\ \A i, j \in DOMAIN models : i # j => /\ models[i].priority # models[j].priority
                                          /\ models[i].name # models[j].name
  /\ Cardinality({i \in DOMAIN models : models[i].fallback}) = 1

ValidSettings(s) ==
  /\ s.threshold \in 0 .. 100 /\ s.error_threshold \in 0 .. 100
  /\ s.max_queue > 0 /\ s.window_size > 0 /\ s.min_samples > 0
  /\ s.stall_timeout >= 0 /\ s.done_timeout >= 0
  /\ \A w \in Weights : s[w] >= 0
  /\ \A p \in DOMAIN PenaltyDefault : s[p] \in -20 .. 20

ValidOptions(c) ==
  /\ "redis" \in c.given
  /\ "auth" \in c.enabled => "keys" \in c.given
  /\ "ratelimit" \in c.enabled => c.settings.requests_per_minute > 0 /\ c.settings.burst > 0
  /\ "audit" \in c.enabled => c.settings.audit_buffer > 0
  /\ "postgres" \in c.enabled => /\ "dsn" \in c.given
                                 /\ \A f \in DOMAIN PostgresDefault : c.settings[f] >= 0

validate(c) == ValidModels(c.models) /\ ValidSettings(c.settings) /\ ValidOptions(c)

-----------------------------------------------------------------------------

TierReplicas(t) == [i \in DOMAIN t.replicas |-> [tier |-> t, size |-> t.replicas[i].size]]

\* Bug: the tiers stay in the order of the file.
MutantToReplicaList(models) ==
  FlattenSeq([i \in DOMAIN models |-> TierReplicas(models[i])])

\* The tiers with the lowest priority first.  Their names are distinct, so a
\* list of the same length that has them all has each of them once.
Sorted(models) ==
  CHOOSE sorted \in [DOMAIN models -> Range(models)] :
    /\ Range(sorted) = Range(models)
    /\ \A i, j \in DOMAIN models : i < j => sorted[i].priority <= sorted[j].priority

\* Each tier with all its replicas.
ToReplicaList(models) ==
  FlattenSeq([i \in DOMAIN models |-> TierReplicas(Sorted(models)[i])])

Init == /\ status = "down"
        /\ config = Unset
        /\ replicas = <<>>
        /\ pin = Missing
        /\ answered = {}

\* main starts the router with a file that Load accepts.
Load(file) ==
  LET c == applyDefaults(file)
  IN  /\ status = "down"
      /\ validate(c)
      /\ status' = "up"
      /\ config' = c
      /\ replicas' = ToReplicaList(c.models)
      /\ answered' = {pin} \ {Missing}
      /\ UNCHANGED pin

\* The service's choices for a prompt without a history.
Picks == {base_pick(r) : r \in Signals}

\* What Classify returns for a conversation that is pinned to current; the
\* service may fail, and the handler then takes "small".
Answers(current) == {"small"} \cup {clamp_up(p, current) : p \in Picks}

\* The answer raised to the pin, if there is one.
Clamp(current, answer) ==
  IF current = Missing THEN answer ELSE HigherTier(replicas, current, answer)

\* A turn of the conversation that is served: its tier becomes the pin.
Turn == /\ status = "up"
        /\ \E answer \in Answers(pin) : /\ pin' = Clamp(pin, answer)
                                        /\ answered' = answered \cup {answer}
        /\ UNCHANGED <<status, config, replicas>>

\* The process ends; a later start may find another file.
Stop == /\ status = "up"
        /\ status' = "down"
        /\ config' = Unset
        /\ replicas' = <<>>
        /\ answered' = {}
        /\ UNCHANGED pin

Next == Stop \/ Turn \/ \E file \in Files : Load(file)

Spec == Init /\ [][Next]_vars

-----------------------------------------------------------------------------
(* Properties *)

\* The sizes, rates and times that the models of the other components assume
\* positive are so in every configuration that Load accepts, whatever was left
\* out of the file (applyDefaults, validate).  The cooldown, the number of
\* retries and the poll interval are not among them: validate accepts negative
\* ones.
AssumptionsMet ==
  status = "up" =>
    LET s == config.settings
    IN  /\ s.window_size > 0 /\ s.min_samples > 0 /\ s.stall_timeout > 0
        /\ s.error_threshold \in 1 .. 100
        /\ "ratelimit" \in config.enabled => s.requests_per_minute > 0 /\ s.burst > 0
        /\ "audit" \in config.enabled => s.audit_buffer > 0
        /\ "postgres" \in config.enabled => \A f \in DOMAIN PostgresDefault : s[f] > 0

\* A classification selects the matching tier of the lowest priority number,
\* or the fallback tier when no other matches, wherever the tiers stand in the
\* file and however many replicas they have; LargestTier is never needed
\* (ToReplicaList, TierForClassification).
SelectsFirstMatch ==
  status = "up" =>
    \A result \in Results :
      LET tiers   == Range(config.models)
          matches == {t \in tiers : ~t.fallback /\ tierMatches(t, result)}
          chosen  == CHOOSE t \in tiers :
                       IF matches = {} THEN t.fallback
                       ELSE t \in matches /\ \A u \in matches : t.priority <= u.priority
      IN  TierForClassification(replicas, result) = chosen.name

Known == {t.name : t \in Range(config.models)}

\* After any turns the pin is the highest tier that was pinned or answered
\* since the start, whatever their order: every other known tier ranks below
\* it, and an unknown one, of an older file or a service with other tiers,
\* gives way to the first known one (HigherTier, PriorityOf, validate).
PinIsHighest ==
  status = "up" /\ answered # {} =>
    /\ pin \in answered
    /\ \A a \in (answered \cap Known) \ {pin} :
         pin \in Known /\ PriorityOf(replicas, a) < PriorityOf(replicas, pin)

\* The tiers that the service and the file share have the same order in both.
SameOrder == \A a, b \in Known \cap DOMAIN TIER_PRIORITY :
               PriorityOf(replicas, a) < PriorityOf(replicas, b) <=> Rank(a) < Rank(b)

\* The two clamps, in two processes and by two tables, make one: where the
\* tables have the same order, a conversation gets the tier that the router's
\* clamp alone would give the service's choice, also for tiers that only one
\* of them knows, as long as the pin is to a tier of the file in effect
\* (_clamp_up, HigherTier, the comment on TIER_PRIORITY).
ClampsAgree ==
  status = "up" /\ SameOrder =>
    \A p \in Picks, current \in Known \cup {Missing} :
      Clamp(current, clamp_up(p, current)) = Clamp(current, p)

=============================================================================
