------------------------------ MODULE Admission ------------------------------
(***************************************************************************)
(* How a task comes by its channel, in the two ways the code offers.       *)
(*                                                                         *)
(* With a health repository the router is asked again and again, for the   *)
(* same or another request: it reads the clock, then one health row after  *)
(* another, each in a transaction of its own, and then ranks and selects.  *)
(* Rows are written, cooldowns run out and the clock moves at any time,    *)
(* and the caller stays on the channel it was given (routing/              *)
(* channel_router.py, models/channel_health.py).                           *)
(*                                                                         *)
(* Without one, ProcessExecutionService.execute checks the permission,     *)
(* selects the worker, probes one channel after another, and routes among  *)
(* the channels it has probed, with whatever health the probes reported    *)
(* (core/process_execution_service.py, channels/factory.py).               *)
(*                                                                         *)
(* The decisions themselves are the operators of Routing.                  *)
(***************************************************************************)
EXTENDS Routing

CONSTANTS
  Configs,      \* the configurations considered
  Tasks,        \* the requests: preference and cost mode
  MaxTime,      \* bound: the clock
  MaxUpserts    \* bound: health rows written

ASSUME ConfigsAreValid ==
  \A c \in Configs :
    CompleteRouting(c) /\ ReferencesExist(c) /\ FieldsAreTyped(c)
ASSUME BoundsAreNaturals == MaxTime \in Nat /\ MaxUpserts \in Nat

VARIABLES
  config,   \* the configuration, loaded once
  now,      \* the clock
  rows,     \* the channel_health table
  upserts,  \* the number of rows written so far
  query,    \* the request that the router is working on
  last,     \* the last request it has answered
  job       \* execute() up to its choice

router == <<now, rows, upserts, query, last>>
vars == <<config, router, job>>

channels == config.channels
Ids == DOMAIN channels

NoRow == [health |-> "UNKNOWN", until |-> -1]
NoTask == [preference |-> "auto", mode |-> "ECONOMY"]

(* A request: at is the clock it read, seen the healths it has read so far *)
(* and changed the channels whose row was written since it began.          *)
NewQuery == [pc |-> "idle", task |-> NoTask, at |-> 0, left |-> {},
             seen |-> << >>, changed |-> {}]
NoAnswer == [task |-> NoTask, channel |-> None, current |-> None, at |-> 0,
             changed |-> {}]
NewJob == [pc |-> "idle", task |-> NoTask, level |-> "READ_ONLY",
           worker |-> None, left |-> {}, seen |-> << >>, channel |-> None]

(* f holds the healths of some of the channels in S. *)
IsReading(f, S) == DOMAIN f \subseteq S /\ f \in [DOMAIN f -> Healths]

TypeOK ==
  /\ now \in 0..MaxTime
  /\ rows \in [Ids -> [health : Healths, until : -1..MaxTime]]
  /\ upserts \in 0..MaxUpserts
  /\ query \in [pc : {"idle", "reading"}, task : Tasks \cup {NoTask},
                at : 0..MaxTime, left : SUBSET Ids, seen : {query.seen},
                changed : SUBSET Ids]
  /\ IsReading(query.seen, Ids)
  /\ last \in [task : Tasks \cup {NoTask}, channel : {None} \cup Ids,
               current : {None} \cup Ids, at : 0..MaxTime, changed : SUBSET Ids]
  /\ job \in [pc : {"idle", "probing", "refused", "admitted"},
              task : Tasks \cup {NoTask}, level : Levels,
              worker : {None} \cup DOMAIN config.workers,
              left : SUBSET Ids, seen : {job.seen}, channel : {None} \cup Ids]
  /\ IsReading(job.seen, {c \in Ids : channels[c].class = "subscription"})

Init ==
  /\ config \in Configs
  /\ now = 0
  /\ rows = [c \in Ids |-> NoRow]
  /\ upserts = 0
  /\ query = NewQuery
  /\ last = NoAnswer
  /\ job = NewJob

-----------------------------------------------------------------------------
(* c is the one of S that comes first in the configuration. *)
ComesNext(c, S) ==
  /\ c \in S
  /\ \A d \in S \ {c} : channels[c].place < channels[d].place

(* The channels by which f has one more value than before. *)
Extended(f, c, value) ==
  [d \in DOMAIN f \cup {c} |-> IF d = c THEN value ELSE f[d]]

(* Mutant: the cooldown is not looked at. *)
HealthIgnoringCooldown(c, t) == rows[c].health

(* effective_health at time t: a channel that cools down counts as rate    *)
(* limited.  One without a row has the health of its configuration.        *)
EffectiveHealth(c, t) ==
  IF rows[c] = NoRow THEN channels[c].health
  ELSE IF t < rows[c].until THEN "RATE_LIMITED" ELSE rows[c].health

(* A health row is inserted or replaced, with or without a cooldown. *)
Upsert(c) ==
  /\ config.repository
  /\ upserts < MaxUpserts
  /\ \E h \in Healths, until \in -1..MaxTime :
       rows' = [rows EXCEPT ![c] = [health |-> h, until |-> until]]
  /\ upserts' = upserts + 1
  /\ query' = [query EXCEPT !.changed = @ \cup {c}]
  /\ last' = [last EXCEPT !.changed = @ \cup {c}]
  /\ UNCHANGED <<config, now, job>>

Tick ==
  /\ config.repository
  /\ now < MaxTime
  /\ now' = now + 1
  /\ UNCHANGED <<config, rows, upserts, query, last, job>>

(* resolve_master_channel reads the clock, once, ... *)
Ask(task) ==
  /\ config.repository
  /\ query.pc = "idle"
  /\ query' = [NewQuery EXCEPT !.pc = "reading", !.task = task, !.at = now,
                              !.left = Ids]
  /\ UNCHANGED <<config, now, rows, upserts, last, job>>

(* ... then the row of each channel in the order of the configuration, ... *)
ReadRow ==
  /\ query.pc = "reading"
  /\ \E c \in query.left :
       /\ ComesNext(c, query.left)
       /\ query' = [query EXCEPT !.left = @ \ {c},
                      !.seen = Extended(@, c, EffectiveHealth(c, query.at))]
  /\ UNCHANGED <<config, now, rows, upserts, last, job>>

(* ... and chooses, with the channel that is in use so far. *)
Route ==
  /\ query.pc = "reading"
  /\ query.left = {}
  /\ LET worker == SelectWorker(config.workers, config.required)
         chosen == Resolve(config, channels, query.seen, query.task, worker,
                           last.current)
     IN last' = [task |-> query.task, channel |-> chosen,
                 current |-> IF chosen = None THEN last.current ELSE chosen,
                 at |-> query.at, changed |-> query.changed]
  /\ query' = NewQuery
  /\ UNCHANGED <<config, now, rows, upserts, job>>

-----------------------------------------------------------------------------
Refuse == job' = [job EXCEPT !.pc = "refused"]

(* execute() before its first probe. *)
Start(task, level) ==
  /\ ~config.repository
  /\ job.pc = "idle"
  /\ LET worker == SelectWorker(config.workers, config.required) IN
     job' = IF Permitted(config, level) /\ worker # None
            THEN [NewJob EXCEPT !.pc = "probing", !.task = task, !.level = level,
                    !.worker = worker, !.left = Ids]
            ELSE [NewJob EXCEPT !.pc = "refused", !.task = task, !.level = level]
  /\ UNCHANGED <<config, router>>

(* The surfaces that execute() knows, named as the capability they need. *)
Surfaces == {"codex", "claude_code"}

(* Mutant: the class is left to the router. *)
ProbedOfAnyClass(c) ==
  /\ channels[c].enabled
  /\ channels[c].surface \in Surfaces \cap config.workers[job.worker].capabilities

(* Enabled subscription channels with a surface that the worker can drive. *)
Probed(c) ==
  /\ channels[c].enabled
  /\ channels[c].class = "subscription"
  /\ channels[c].surface \in Surfaces \cap config.workers[job.worker].capabilities

(* ChannelAdapterFactory.create: there is no way to let Claude write the   *)
(* project without asking, and no adapter for any other surface.           *)
Bindable(level, c) ==
  \/ channels[c].surface = "codex"
  \/ channels[c].surface = "claude_code" /\ ~WritesProject(config, level)

(* The next channel of the configuration: passed over, probed, or the end  *)
(* of the whole attempt because no adapter can be made for it.             *)
Probe ==
  /\ job.pc = "probing"
  /\ \E c \in job.left :
       /\ ComesNext(c, job.left)
       /\ \/ /\ ~Probed(c)
             /\ job' = [job EXCEPT !.left = @ \ {c}]
          \/ /\ Probed(c) /\ Bindable(job.level, c)
             /\ \E health \in {"AVAILABLE", "UNAVAILABLE", "UNKNOWN"} :
                  job' = [job EXCEPT !.left = @ \ {c},
                                     !.seen = Extended(@, c, health)]
          \/ Probed(c) /\ ~Bindable(job.level, c) /\ Refuse
  /\ UNCHANGED <<config, router>>

(* The router sees the probed channels only. *)
Choose ==
  /\ job.pc = "probing"
  /\ job.left = {}
  /\ LET known == [c \in DOMAIN job.seen |-> channels[c]]
         chosen == Resolve(config, known, job.seen, job.task, job.worker, None)
     IN IF chosen = None THEN Refuse
        ELSE job' = [job EXCEPT !.pc = "admitted", !.channel = chosen]
  /\ UNCHANGED <<config, router>>

Next ==
  \/ \E c \in Ids : Upsert(c)
  \/ Tick
  \/ \E task \in Tasks : Ask(task)
  \/ ReadRow \/ Route
  \/ \E task \in Tasks, level \in Levels : Start(task, level)
  \/ Probe \/ Choose

Spec == Init /\ [][Next]_vars

-----------------------------------------------------------------------------
(* "This prevents a paid API score from overtaking a capable subscription" *)
(* (routing/channel_router.py:196): whatever the scores, a request without *)
(* a preference gets no other class while a subscription is enabled and    *)
(* capable, and was healthy at the time the router read from its clock.    *)
(* Only a row that was written since the request began may say otherwise.  *)
SubscriptionComesFirst ==
  last.channel # None /\ last.task.preference = "auto"
        /\ channels[last.channel].class # "subscription" =>
    \A c \in Ids \ last.changed : channels[c].class = "subscription" =>
      ~Eligible(config, channels,
                [d \in Ids |-> EffectiveHealth(d, last.at)], last.task.mode, c)

(* The router does not flap: asked again with the channel it has just      *)
(* given, at the same time and with no row written since the first of the  *)
(* two requests began, it gives the same one.                              *)
ChoiceIsStable ==
  [][/\ last.changed = {} /\ last'.changed = {} /\ last'.at = last.at
     /\ last'.task = last.task /\ last.channel # None
     => last'.channel = last.channel]_vars

(* What the router gives, it may give: no channel whose cooldown runs now  *)
(* or that is known to be unavailable, unless its own row was written      *)
(* since the request began, however the clock and the other rows moved     *)
(* while it was reading and since; and none of another provider than the   *)
(* preferred one unless that is allowed.                                   *)
ChoiceIsLegitimate ==
  last.channel # None =>
    /\ last.channel \notin last.changed =>
         LET row == rows[last.channel] IN
         row # NoRow => now >= row.until
                        /\ row.health \notin {"UNAVAILABLE", "RATE_LIMITED"}
    /\ last.task.preference # "auto" /\ ~config.allowCrossProvider =>
         channels[last.channel].provider =
           channels[config.subscriptions[last.task.preference].preferred].provider

(* A channel that was probed alive and can do the work. *)
Usable(c) ==
  /\ c \in DOMAIN job.seen
  /\ job.seen[c] \notin {"UNAVAILABLE", "RATE_LIMITED"}
  /\ channels[c].capable
  /\ \A s \in DOMAIN config.subscriptions :
       config.subscriptions[s].preferred = c => config.subscriptions[s].enabled

(* A channel that the preference of the task allows: any of them, or those *)
(* of the provider of the preferred channel, if that one has been probed.  *)
Acceptable(c) ==
  \/ job.task.preference = "auto"
  \/ config.allowCrossProvider
  \/ /\ job.task.preference \in DOMAIN config.subscriptions
     /\ LET preferred == config.subscriptions[job.task.preference].preferred IN
          /\ preferred \in DOMAIN job.seen
          /\ channels[c].provider = channels[preferred].provider

(* Why execute() refused its task.  Before the probes: a level that needs  *)
(* an approval, or no able worker.  In between: the next channel is one of *)
(* Claude's and the level writes the project.  After them: no channel that *)
(* was probed alive is acceptable, or one has a metric that is no number.  *)
RefusedForAReason ==
  \/ ~Permitted(config, job.level)
  \/ \A w \in DOMAIN config.workers :
       config.workers[w].enabled =>
         ~(config.required \subseteq config.workers[w].capabilities)
  \/ /\ WritesProject(config, job.level)
     /\ \E c \in job.left :
          ComesNext(c, job.left) /\ channels[c].surface = "claude_code"
  \/ /\ job.left = {}
     /\ \/ \A c \in Ids : Usable(c) => ~Acceptable(c)
        \/ \E c \in Ids : Usable(c) /\ ~channels[c].finite

(* A task that execute() admits runs on an enabled subscription channel,   *)
(* on a worker with everything the plugin requires and the surface of the  *)
(* channel, with a level that needs no approval, and writes no project     *)
(* through a surface that cannot ask.  A task that it refuses is refused   *)
(* for one of the reasons above: never while a channel that was probed     *)
(* alive would do, and for a channel that cannot be bound only if that one *)
(* is next, whatever the others would have answered.                       *)
VerdictIsJustified ==
  /\ job.pc = "admitted" =>
       /\ Permitted(config, job.level)
       /\ LET channel == channels[job.channel]
              able == config.workers[job.worker].capabilities IN
            /\ channel.enabled /\ channel.class = "subscription"
            /\ config.required \cup {channel.surface} \subseteq able
            /\ WritesProject(config, job.level) => channel.surface # "claude_code"
  /\ job.pc = "refused" => RefusedForAReason

=============================================================================
