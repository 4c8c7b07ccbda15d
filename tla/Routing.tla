------------------------------- MODULE Routing -------------------------------
(***************************************************************************)
(* The decisions taken before a task runs, as operators on a configuration *)
(* (config.py): the permission policy (permissions/policy.py), the worker  *)
(* selector (workers/selector.py), the channel router (routing/            *)
(* channel_router.py) and the master selector (routing/                    *)
(* master_selector.py).                                                    *)
(*                                                                         *)
(* A channel is a number, and the order of the numbers is the order of the *)
(* identifiers; its place is its position in the configuration file.       *)
(* Scores are integers: weights and metrics in tenths, so a score is in    *)
(* hundredths.  metrics holds the metrics that the metadata of a channel   *)
(* gives; one that is no finite number makes the channel unscorable.       *)
(***************************************************************************)
EXTENDS Integers, FiniteSets, FiniteSetsExt

Healths == {"AVAILABLE", "DEGRADED", "LIMIT_WARNING", "RATE_LIMITED",
            "UNAVAILABLE", "UNKNOWN"}
Classes == {"subscription", "free_local", "cheap_api", "premium_api"}
Levels == {"READ_ONLY", "SAFE_EDIT", "PROJECT_WRITE", "SYSTEM_WRITE",
           "PRIVILEGED"}

Modes == {"ECONOMY", "BALANCED", "MAX_QUALITY"}

(* No channel: NoEligibleChannelError, or the ValueError of a bad metric.  *)
(* No worker: NoEligibleWorkerError.                                       *)
None == 0

-----------------------------------------------------------------------------
(* What load_config makes sure of: every class and every mode is there, ... *)
CompleteRouting(config) ==
  DOMAIN config.classPriority = Classes /\ DOMAIN config.premiumAllowed = Modes

(* ... and a subscription prefers a subscription channel that exists.      *)
ReferencesExist(config) ==
  \A s \in DOMAIN config.subscriptions :
    LET preferred == config.subscriptions[s].preferred IN
      /\ preferred \in DOMAIN config.channels
      /\ config.channels[preferred].class = "subscription"

(* The schema of the fields that are looked at here, tables being finite.  *)
FieldsAreTyped(config) ==
  /\ IsFiniteSet(DOMAIN config.channels)
  /\ DOMAIN config.channels \subseteq Nat \ {None}
  /\ \A c \in DOMAIN config.channels :
       LET channel == config.channels[c] IN
         /\ channel.class \in Classes /\ channel.health \in Healths
         /\ channel.priority \in Int /\ channel.place \in Nat
         /\ \A m \in DOMAIN channel.metrics : channel.metrics[m] \in Int
         /\ \A d \in DOMAIN config.channels \ {c} :
              config.channels[d].place # channel.place
  /\ IsFiniteSet(DOMAIN config.workers)
  /\ DOMAIN config.workers \subseteq Nat \ {None}
  /\ \A w \in DOMAIN config.workers : config.workers[w].priority \in Int
  /\ \A class \in DOMAIN config.classPriority : config.classPriority[class] \in Int
  /\ LET w == config.weights IN
       {w.capability_fit, w.subscription_bonus, w.quality, w.reliability,
        w.worker_affinity, w.monetary_cost, w.token_cost, w.latency,
        w.handoff_penalty} \subseteq Int

-----------------------------------------------------------------------------
(* The levels that a task may run with without an approval: of the others  *)
(* PRIVILEGED is always refused and SYSTEM_WRITE must be configured so.    *)
Permitted(config, level) ==
  level \notin {"PRIVILEGED", "SYSTEM_WRITE"} \cup config.approvalRequired

WritesProject(config, level) == level \in config.writesProject

(* The enabled worker of highest priority that has all that is required,   *)
(* the first of them by identifier.                                        *)
SelectWorker(workers, required) ==
  LET able == {w \in DOMAIN workers :
                 workers[w].enabled /\ required \subseteq workers[w].capabilities}
      best == {w \in able : \A v \in able :
                 workers[v].priority <= workers[w].priority}
  IN IF able = {} THEN None ELSE Min(best)

-----------------------------------------------------------------------------
HealthScore ==
  [AVAILABLE |-> 10, DEGRADED |-> 6, LIMIT_WARNING |-> 4, UNKNOWN |-> 0]

MonetaryCost ==
  [subscription |-> 0, free_local |-> 0, cheap_api |-> 10, premium_api |-> 20]

(* A channel that may be chosen at all. *)
Eligible(config, channels, health, mode, c) ==
  /\ channels[c].enabled
  /\ channels[c].capable
  /\ health[c] \notin {"UNAVAILABLE", "RATE_LIMITED"}
  /\ \A s \in DOMAIN config.subscriptions :
       config.subscriptions[s].preferred = c => config.subscriptions[s].enabled
  /\ channels[c].class = "premium_api" => config.premiumAllowed[mode]

(* The worker's affinity in tenths: half when a channel names no workers. *)
Affinity(channel, worker) ==
  IF channel.workers = {} THEN 5
  ELSE IF worker \in channel.workers THEN 10 ELSE 0

(* A metric of the metadata, or its default. *)
Metric(channel, name, default) ==
  IF name \in DOMAIN channel.metrics THEN channel.metrics[name] ELSE default

Score(config, channel, health, mode, worker, moved) ==
  LET w == config.weights
      reliability == Metric(channel, "reliability", HealthScore[health])
  IN
    10 * w.capability_fit
    + (IF channel.class = "subscription" THEN 10 * w.subscription_bonus ELSE 0)
    + w.quality * Metric(channel, "quality", IF mode = "MAX_QUALITY" THEN 8 ELSE 7)
    + w.reliability * Min({reliability, HealthScore[health]})
    + w.worker_affinity * Affinity(channel, worker)
    + w.monetary_cost * MonetaryCost[channel.class]
    + w.token_cost * Metric(channel, "token_cost", 0)
    + w.latency * Metric(channel, "latency", 0)
    + (IF moved THEN 10 * w.handoff_penalty ELSE 0)

(* Mutant: leaving a channel is rewarded. *)
MovedFromOthers(current, c) == current # None /\ current = c

(* The choice of c would hand the task over to another channel. *)
Moved(current, c) == current # None /\ current # c

(* Mutant: the score is looked at before the class. *)
ScoreFirst(key, c, d) ==
  \/ key[c].score > key[d].score
  \/ key[c].score = key[d].score /\ key[c].class > key[d].class
  \/ key[c].score = key[d].score /\ key[c].class = key[d].class /\ c < d

(* The order of the sort: class, score, priority, identifier. *)
Before(key, c, d) ==
  \/ key[c].class > key[d].class
  \/ /\ key[c].class = key[d].class
     /\ \/ key[c].score > key[d].score
        \/ /\ key[c].score = key[d].score
           /\ \/ key[c].priority > key[d].priority
              \/ key[c].priority = key[d].priority /\ c < d

(* rank_candidates: the sort key of every eligible channel. *)
Ranked(config, channels, health, mode, worker, current) ==
  LET eligible == {c \in DOMAIN channels :
                     Eligible(config, channels, health, mode, c)}
  IN [c \in eligible |->
       [class |-> config.classPriority[channels[c].class],
        score |-> Score(config, channels[c], health[c], mode, worker,
                        Moved(current, c)),
        priority |-> channels[c].priority]]

(* The first of the ranked channels that are in a set. *)
FirstIn(ranked, S) ==
  LET candidates == S \cap DOMAIN ranked IN
    IF candidates = {} THEN None
    ELSE CHOOSE c \in candidates :
           \A d \in candidates \ {c} : Before(ranked, c, d)

(* Mutant: the rest of the preferred provider is forgotten. *)
SelectPreferredOnly(config, channels, ranked, preference) ==
  LET preferred == IF preference \in DOMAIN config.subscriptions
                   THEN config.subscriptions[preference].preferred ELSE None
      anyProvider == preference = "auto" \/ config.allowCrossProvider
  IN IF preference # "auto" /\ preferred \in DOMAIN ranked THEN preferred
     ELSE FirstIn(ranked, IF anyProvider THEN DOMAIN ranked ELSE {})

(* MasterSelector.select: the preferred channel if it is ranked, else the  *)
(* best of any provider where that is allowed, else the best of the same   *)
(* provider, as far as the preferred channel is among those known.         *)
Select(config, channels, ranked, preference) ==
  LET preferred == IF preference \in DOMAIN config.subscriptions
                   THEN config.subscriptions[preference].preferred ELSE None
      sameProvider == {c \in DOMAIN channels :
                         preferred \in DOMAIN channels
                         /\ channels[c].provider = channels[preferred].provider}
      anyProvider == preference = "auto" \/ config.allowCrossProvider
  IN IF preference # "auto" /\ preferred \in DOMAIN ranked THEN preferred
     ELSE FirstIn(ranked, IF anyProvider THEN DOMAIN ranked ELSE sameProvider)

(* One eligible channel with a bad metric fails the whole request. *)
Scorable(config, channels, health, mode) ==
  \A c \in DOMAIN channels :
    Eligible(config, channels, health, mode, c) => channels[c].finite

(* resolve_master_channel. *)
Resolve(config, channels, health, task, worker, current) ==
  IF Scorable(config, channels, health, task.mode)
  THEN Select(config, channels,
              Ranked(config, channels, health, task.mode, worker, current),
              task.preference)
  ELSE None

=============================================================================
