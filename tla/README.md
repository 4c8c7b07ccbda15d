# A TLA+ verification of xh-global-control

`xh-global-control` is a control plane for AI workers. It accepts tasks (from
Telegram through a relay, or from the command line), picks a worker plugin and a
model channel, runs the plugin as a process of its own, lets it make one channel
run, and keeps in SQLite what happened, so that a task can be paused, stopped
and resumed, also after the service itself has been restarted.

The verification concentrates on what a unit test hardly reaches: callers that
share the database, coroutines that interleave at their awaits, processes that
answer too late, and crashes between two transactions. All paths below are
relative to `src/src/xh_control/` unless they start with `docs/` or `scripts/`.

## 1. Inventory

| Component | State it keeps | Operations | Interacts with |
|---|---|---|---|
| Task core: `core/state_machine.py`, `core/task_service.py`, `state/repositories.py` | rows of `tasks`, `execution_attempts`, `task_events` | create, transition, create/transition attempt, validate fence | every other service, through the database |
| Approvals: `ApprovalRepository` | rows of `approvals` | request_and_wait, decide | moves tasks to and from WAITING_APPROVAL |
| Process execution: `core/process_execution_service.py` | the set of active coroutines | execute, pause, resume, cancel | task core, checkpoint service, adapter |
| Process adapter: `plugins/process_adapter.py`, `interfaces/processes.py` | the transport of each task: process, cancelled flag, outcome future, files | healthcheck, execute, pause, complete_pause, cancel | plugin process (stdout and files), channel execution |
| Channel execution: `core/channel_execution_service.py`, `channels/` | the CLI process of a task | execute, cancel, healthcheck | task core (fence), budget, metrics |
| Channel bridge: `interfaces/channel_bridge.py` | `request.json`, `response.json` | publish, wait | the adapter's poll loop |
| Checkpoints: `core/checkpoint_service.py` | checkpoint files and rows, `tasks.latest_checkpoint_uri` | create, load | pause and resume |
| Budget: `core/budget_engine.py` | `cost_events` | authorize, record_cost | approvals, channel execution |
| Router, selectors, permission policy: `routing/`, `workers/`, `permissions/` | none | pure selection | controller, execution service |
| In-process plugins: `plugins/registry.py`, `core/plugin_execution_service.py` | registered plugins | execute | tests only |
| Artifacts, events, metrics: `core/artifact_service.py`, `core/event_service.py`, `learning/` | append-only rows | register, append, record | written by the execution services |
| Controller and Telegram: `core/controller.py`, `interfaces/telegram.py`, `interfaces/telegram_http.py` | one event loop on a thread | /run /pause /resume /stop /approve /deny ... | the services above |
| Gateway script and Hermes relay: `scripts/`, `integrations/` | the polling offset | forward | HTTP endpoint of the service |

What is hard, and where:

* *Check and act.* A service method reads, applies the policy, and writes in a
  later transaction. Threads of the HTTP server, the command line and a second
  service share the database file, so anything may be written in between.
* *Fencing.* A worker that was superseded may still hold its token
  (attempt, generation).
* *Two transactions for one change.* `_finish`, `pause` and `resume` each commit
  attempt and task separately; the service may die in between.
* *Three processes share a directory.* Bridge commands, the transport and the
  channel meet in files that are created, renamed and unlinked one by one.
* *Records that go with an effect* (cost, metrics, events, artifacts) are
  transactions of their own; any of them can fail after the effect.
* *An acknowledgement in the wrong place* loses an update of the chat or runs it
  twice; a response may find that nobody waits for it any more.
* *Health that is old*: a channel is chosen by probes, rows and cooldowns that
  belong to a moment that has passed.
* *A pause has three parties.* The pauser polls for a response file, the plugin
  writes it and exits, and the run waits for the pauser to settle a future. Each
  of them has a timeout of its own, and there may be several pausers.
* *Stop, abort, timeout and result race* for the end of the run.

What makes each component correct:

* Task core: one lifecycle for every observer, generations that are dense and
  favour the newest attempt, superseded attempts that are frozen, final statuses
  that stay, an audit trail from which the rows can be replayed.
* Approvals: a waiting task can be decided, and each approval once.
* Execution: a PAUSED task is resumable, from its newest handoff; PAUSED is not
  overwritten; task and attempt end together; completion is earned; processes
  survive their run after a crash or a kill that failed only; every pause ends,
  and every run that nothing without a timeout holds; crashes leave tasks that
  can be resumed.
* Channel execution and bridge: one call of a run, one answer, to the bridge that
  asked; every answer and every completion fully booked, nothing booked for a
  task that has moved; a bridge that has its request ends.
* Router, selectors, policy: no other class than a subscription while one can be
  used, a choice that no row forbids that was not written meanwhile, that does not
  flap, and a refusal only for a reason.
* In-process plugins: one of several calls runs the plugin, and the status of the
  task agrees with what is on record.
* Gateway: no update is skipped, none is run twice, all are tried; a /run takes
  the options it names, or the preferences its user has set before it.
* Checkpoints: the latest checkpoint loads unless somebody else changed its
  files, and what loads is the newest handoff.
* Budget: limits are exceeded by no more than what was approved and the calls
  under way, and a task that overruns its soft limit has been warned.

`PROJECT.json` lists every component with its status, and every hazard with its
line and the properties that cover it.

## 2. Modules

| Module | Models | Role |
|---|---|---|
| `TaskStateMachine` | `core/state_machine.py`, `models/enums.py` | statuses, the table of moves; pure |
| `TaskLifecycle` | what `TaskService` promises | abstract specification: status, generation and attempt status of each task |
| `TaskService` | `core/task_service.py`, the task and approval repositories | concurrent callers over the tables |
| `ProcessExecution` | `core/process_execution_service.py`, `plugins/process_adapter.py` and what they call | one task in the service process, with its plugin, channel, pausers and crashes |
| `ChannelExecution` | `interfaces/channel_bridge.py`, `core/channel_execution_service.py`, `channels/_cli_health.py`, `learning/operational_metrics.py`, the poll loop of the adapter | one channel call: bridges, files, transport, channel process, records |
| `Checkpoint` | `core/checkpoint_service.py` and the artifact rows it reads | the checkpoint files and rows of one task |
| `Budget` | `core/budget_engine.py`, its cost and approval rows | concurrent paid calls against the limits |
| `Routing` | `routing/`, `workers/selector.py`, `permissions/policy.py` | the decisions as operators on a configuration; pure |
| `Admission` | `models/channel_health.py`, `channels/factory.py`, the first part of `execute` | how a task comes by its channel while health and clock move |
| `PluginExecution` | `core/plugin_execution_service.py`, `plugins/registry.py` | several calls that run an in-process plugin for one task |
| `Gateway` | `scripts/mock_telegram_gateway.py`, `interfaces/telegram_http.py`, `interfaces/telegram.py`, the preferences of `core/controller.py` | commands on their way from a chat to the service |
| `TaskServiceProofs`, `ProcessExecutionProofs`, `ChannelExecutionProofs`, `CheckpointProofs`, `BudgetProofs`, `AdmissionProofs`, `PluginExecutionProofs`, `GatewayProofs` | | theorems about the module they are named after |
| `MCTaskService`, `MCBudget`, `MCCheckpoint`, `MCGateway`, `MCAdmission` | | for TLC: symmetry sets, the messages and the configurations |

How they fit together:

* `TaskService` implements `TaskLifecycle` (`ImplementsLifecycle`, a refinement
  by `INSTANCE ... WITH`), with many callers and attempts. `ProcessExecution`
  makes its writes through the same service: it takes the table of moves from
  `TaskStateMachine` as the guard of `Commit`, and asks what the order of the
  writes is good for.
* `Checkpoint`, `ChannelExecution` and `Admission` open up what
  `ProcessExecution` takes as one step: the write of a checkpoint, the await of
  the channel, and the preconditions of `execute`.
* `Budget` has the approval flow of `TaskService` with one caller more, the
  engine that asks for approvals.
* `Gateway` brings the commands; what becomes of the task that a /run creates is
  in `ProcessExecution`.
* `PluginExecution` is the other way to run a plugin, on the same lifecycle table.

### TaskService

State: `tasks`, `attempts`, `approvals` and `events` are the four tables;
`call[c]` is what caller *c* has read and is about to write.

* A repository method is one transaction and one action: `CreateTask`,
  `MoveTask`, `NewAttempt`, `MoveAttempt`, `RequestAndWait`, `Decide`. The event
  that the code appends in the same transaction is part of the action.
* A service method is two actions. `BeginMoveTask`, `BeginNewAttempt`,
  `BeginMoveAttempt` and `BeginDecide` do the reads and the policy check; the
  repository action has the guards of the `WHERE` clause and of the checks inside
  the transaction. Everything else, a `StateConflictError` or a caller that dies,
  is `Abort`.
* `request_and_wait` is one action although its SELECT is outside the
  transaction: its UPDATE repeats the test and rolls everything back, so a stale
  read makes no difference. `decide` is two: its UPDATE of the approval is
  conditional, but nothing looks at the row count, so a stale read does.
* `attempt_no` and `generation` are both MAX + 1 over the same rows, inserted
  together; one field stands for both.

### ProcessExecution

State: `status`, `attempt` and `checkpoint` are durable. `run` is the
`execute()` coroutine and its transport, `pauser` the `pause()` coroutines and
`read` the handoff that each has read, `plugin` and `channel` the two processes,
`survivors` the number of processes that were left behind, `faults` the number
of crashes and of channels whose end was not confirmed.

* *One event loop.* All commands run on the loop of `AsyncCommandDispatcher`.
  `turn` says which coroutine holds it; a coroutine gives it up only where the
  code awaits. `todo` is the list of transactions it makes before that, and
  `Commit` makes them one at a time, since the service may crash between two.
  The processes outside the service move at any time.
* *Where the run stands* (`run.pc`): `starting`, `recovering`, `requeueing`,
  `entering`, `finishing` and `failing` hold the loop; `health`, `spawn`,
  `poll`, `channel`, `outcome`, `returning`, `ending`, `aborting` and `gathering`
  are awaits. A timeout that finds the run waiting for its channel cancels the
  adapter, which awaits `terminate_tree` of the channel (`ending`); an abort awaits
  `terminate_tree` of the plugin (`aborting`), and then the end of `communicate()`
  (`gathering`), as does a result (`returning`).
* *An exited plugin is not a closed one.* `communicate()` also waits for every
  process that holds the pipes of the plugin (`PipesClose`), without a timeout, and
  `terminate_tree` does nothing once the plugin itself has exited.
* *A kill may fail.* `terminate_tree` raises when `taskkill` or the wait for the
  exit fails (`KillPlugin` may leave the plugin as it is). If it raises
  `TimeoutError` for the channel, the adapter takes that for a timeout of its own
  and answers with a failed response: the cancellation is lost, and the run goes
  on without a timeout (`ChannelIsNotEnded`).
* *A stop* sets a flag and kills (`Stop`, `StopKills`); it misses a channel that is
  being spawned. It does not write the status of the task.
* *A pauser registers what it read.* Handoffs are numbered in the order in which
  plugins write them; `FindResponse` reads the one of the present plugin, and
  `Commit` registers what this pauser read, whenever its own wait ends. A plugin
  writes one response and exits (`docs/BRIDGE_PROTOCOL_v1.1.md`): that is assumed
  in `PluginHandsOff`. Against a plugin that replaces its response, a slow pauser
  would register an older handoff over a newer one, since nothing in the service
  compares them.
* *Abstracted data.* The files of the transport are flags. All reasons to
  refuse a request, a result or a precondition of `execute` are one
  nondeterministic choice. Audit events, metrics, artifacts and cost rows of the
  run are left out: nothing reads them back to decide anything.
* *A crash* forgets everything that is not in the database. The processes may run
  on beside those that a resume will start; `survivors` counts them. What they write
  goes to a transport directory that nobody reads any more.

### Checkpoint

State: `docs` are the files `CP-n`, `docRows` their rows, `arts` and `artRows`
the other registered files; `latest` and `attempt` are columns of the task.

* `Create` ends with the replacement of the file, `Register` is the transaction
  after it; `NotRegistered` stands for a crash or an error between the two.
* A hash is abstracted to the content it was taken of. The table may hold several
  rows for one file; `load` reads the last, which is the one the model keeps.
* The workspace belongs to the plugin and the user, and may be a synchronised
  folder: any file may be written, spoiled or deleted at any time
  (`WriteArtifact`, `DeleteArtifact`, `SpoilCheckpoint`). A spoiled checkpoint
  that still parses, with its own number, counts for the next revision; one that
  does not parse is skipped. Both are in `Readings`.
* A name can be used again: if the file with the highest number is gone, the next
  checkpoint takes its number, and for a while its row. The invariants say that
  this never makes an old or an unregistered handoff load.
* `newest` and `touched` are history: they are written and never read by the
  service's actions.
* A checkpoint refers to every registered file, earlier checkpoints included, so
  one changed artifact makes all later ones unloadable. That is why
  `LatestLoadsUnlessTouched` has a premise; what the service itself does, in any
  order and with any failures, never makes the premise necessary.

### Budget

State: `spent` sums `cost_events` by task and day; `status`, `approvals` and
`warned` are the columns and events the engine reads or writes; `call[c]` is what
a call of `authorize` has read.

* `authorize` opens a connection for each of its reads, so each is an action:
  `Authorize` (the task and the clock), `ReadTaskSpend`, `ReadDailySpend`,
  `ReadMonthlySpend`; then it ends with `Allow`, `Block` or `Refuse`.
* `RecordCost` uses the clock again: a cost authorised before midnight can be
  recorded after it.
* The repository contains no caller of the engine ("Paid API execution itself is
  not implemented", `README.md`). The model's caller is external: it pays only
  what was allowed or approved, at most what it announced.
* `Slack` is the overrun that the distance between check and record permits: one
  call of every other caller. A reservation at the time of the check would make
  it 0, and the property shows what is given up without one: a constant, and not
  an amount that grows with the number of calls.
* A zero-cost channel only appends an event, and is left out.

### ChannelExecution

State: `bridge` and `answer` are the bridge commands a plugin has started and
what each has printed; `files` is the transport directory; `run` is `_execute` of
the transport and the channel call inside it; `plugin` and `chan` are the two
processes; `ledger` says under which channel each kind of record was booked;
`route` is the channel of the attempt, the one routed to, and those configured.

* A bridge reads the context (`Begin`) and its request, to the end of its standard
  input and with no deadline yet (`ReadRequest`), creates the claim file exclusively
  (`Claim`), writes the request to a pending file and renames it (`WritePending`,
  `PublishRequest`), and waits for `response.json` (`ReadResponse`) or its
  deadline (`GiveUp`). Each is a system call, so each is an action; a bridge may
  die between any two (`Die`).
* `_execute` unlinks context, request, response and claim one after the other
  (`Unlink`). The order is what keeps a late bridge from taking over the
  directory; the mutant that unlinks the claim first breaks
  `AnswerIsForItsAsker`.
* After the channel has answered, the artifact, the cost row, the learning row
  and the event are booked in four transactions (`Book`), then the response is
  published (`PublishResponse`). Each may fail, and takes the run with it. There
  is no await in this stretch, so no other coroutine of the service moves
  (`TaskMoves` and `AskToStop` are not enabled), but the processes do.
* `chan.state = "spawning"` is the await of `create_subprocess_exec`: a stop finds
  no process to terminate, and the channel runs on. A stop does not move the task,
  so what the channel answers is booked like any other response; the run fails at
  its next poll. Only if the task has moved meanwhile (a pause, an end, a new
  attempt) is the response refused after the await (`Take`).
* A timeout cancels the adapter, which awaits the end of the channel (`ending`)
  and may fail to confirm it; then the plugin is killed, in vain or not
  (`aborting`), and its pipes are awaited (`gathering`). A plugin whose pipes are
  still held is `exited` and not yet `closed`.
* A crash of the service leaves bridges, plugin, channel and files where they
  are.
* A bridge stands for its request. Refusals (a request of another task, a grant
  that differs, a malformed file) are the second disjunct of `Dispatch`.

### Routing and Admission

`Routing` has the selectors as operators on a configuration: `Permitted`,
`SelectWorker`, `Eligible`, `Score`, `Ranked`, `Select`. Channels are numbers in
the order of their identifiers, each with its `place` in the configuration file;
weights and metrics are integers. A channel of which a metric is no finite number
is not `Scorable`, and one of those that is otherwise eligible fails the whole
request (`_metric` raises), whichever channel would have been chosen.

`Admission` asks for a channel in the two ways the code offers. With a health
repository, the router is asked again and again, with the channel it gave before:
it takes the clock once (`Ask`), reads one row after another, each in a
transaction of its own (`ReadRow`), and chooses (`Route`), while rows are written
(`Upsert`) and cooldowns run out (`Tick`). Without one,
`execute` checks the level, selects the worker (`Start`), probes one channel after
another, in the order of the configuration, with any outcome (`Probe`), and
routes among those it has probed (`Choose`).

* `CompleteRouting`, `ReferencesExist` and `FieldsAreTyped` are what `load_config`
  enforces; they are assumptions on the configurations, and TLC evaluates them.
* The sorted list of the router is modelled by what its readers take from it: its
  first element (`FirstIn` of the ranked channels), and its first element in a
  set. The order is `Before`, which is total, so "the first" is one channel.
* A Claude channel ends the whole attempt, and not only its own probe, if the
  level writes the project: `Probe` with `Refuse`, as the factory raises. Channels
  of surfaces that `execute` does not know are passed over.
* A preference that does not allow other providers falls back on the provider of
  the preferred channel only if that channel itself was among the probed ones:
  `MasterSelector` looks its provider up there. `Acceptable` says so, and
  `VerdictIsJustified` permits that refusal and no other of its kind.

### PluginExecution

State: `registry`, the status `task`, the events `log`, and where each call of
`execute()` stands.

* The flow runs on one event loop. `Alone` says that a call goes on only while
  all others await their adapter (the health check, the plugin); the validation,
  registration and moves in between are one stretch of the loop, but each record
  and each move is a transaction and an action, since the call may be lost
  between two of them (`Lose`: a failed transaction, a cancellation, the death of
  the process).
* The plugin is unregistered, accepts other task types or accepts this one; all
  defects of a result (schema, version, task, learning fields) are `contract`.
* `_start` reads CREATED and makes its three moves in one stretch, so none of
  them is refused (`Move`); only a final move can come too late (`Finish`).

### Gateway

State: `sent` is the chat, `confirmed` what the bot server has forgotten; `gw` is
the loop of the gateway with its offset, batch and the update under way;
`threads` are the handler threads of the service; `prefs` and `tasks` are the
controller's. `forwards`, `givenUp`, `life` and `crashes` are history and
bounds.

* The offset moves past an update before it is forwarded (`Take`), and a
  `RuntimeError` drops the rest of the batch, which the next poll brings again.
* A forward that times out leaves its thread behind (`ForwardFails`), and the
  command is carried out all the same: `Handle` works for queued threads of any
  life of the gateway. A response that nobody awaits is lost with its thread.
* All commands run on one event loop; a command up to its first await is
  `Handle`. It refuses users and chats that are not allowed (`Permitted`) and
  values that are none (`Sets`); a /run takes its own options, and the preferences
  of that moment for those it does not name (`RunsWith`).
* A setting whose forward was given up is not lost: its thread sets it when its
  turn comes, which may be after later settings. `RunTakesTheChatsPreferences`
  says that nothing else can come between a /run and the last setting before it.
* A restart of the gateway forgets the offset (`Restart`), so the server delivers
  again what was not confirmed. That is why `ForwardedOncePerLife` speaks of one
  life.
* A crash of the service forgets the preferences and the threads. The tasks it
  leaves behind are the subject of `ProcessExecution`.

## 3. Runs

Deadlock checking is off in every run: callers stop at the bounds, and a task
that has ended is left alone by everyone.

| Run | Shows | Bounds |
|---|---|---|
| `tasks` | generations, fence, audit trail, final statuses, a wait has a pending approval, refinement of `TaskLifecycle` | 2 callers, 2 attempts, 2 approvals, 12 events: two callers hold the same stale read, a superseded caller still tries; an approval that was left pending is decided while the task waits for a newer one (11 events), and a second decision of it ends the newer wait (12) |
| `decided` (violated) | `DecidedOnce` | 9 events |
| `execution` | type invariant, five safety invariants, two action properties; every pause ends, and every run that nothing without a timeout holds | 2 pausers, 2 handoffs, 1 crash, 1 unconfirmed end: two pauses of one run, a pause of the resumed run, a pauser whose run ends under it while another commits, a channel left behind by its run, a run after a lost cancellation. A crash of the recovery from a crash is left to the theorems |
| `overwrite` (violated) | `PauseIsNotOverwritten` with a plugin that may print FAILED after its handoff | no crash |
| `recover` (violated) | `InterruptedTaskIsRecoverable` | 1 crash |
| `channel` | addressed answers, one call, complete books, nothing booked for a task that has moved, no bridge that has its request waits for ever | 2 bridges, 1 channel: a second bridge claims while the first is served, is dead or has left its files; a service that has crashed, a plugin that hangs |
| `assigned` (violated) | `OnlyTheAssignedChannel` | the same with 2 channels: routed and assigned channel may differ |
| `checkpoint` | `LatestLoadsUnlessTouched`, `LoadedIsTheNewest` | 2 artifacts with 2 versions, 2 attempts, 3 creations: a failed creation between two that succeed, and a number used again |
| `budget` | type invariant, `OverspendIsBounded`, `OverrunWasWarned` | 2 callers, 2 tasks, 1 approval, unit costs, limits of 2 a task and a day and 3 a month, 2 days: two calls race for the last unit of each limit, also across midnight |
| `admission` | type invariant, `SubscriptionComesFirst`, `ChoiceIsLegitimate`, `ChoiceIsStable`, `VerdictIsJustified` | 152 configurations of three channels and two workers, any two requests in a row, 1 health row, 2 moments: a cooldown that ends between two requests, or between two reads of one |
| `plugin` | one start, completion and failure agree with the record, an answer ends the task | 3 calls, 2 outputs: one call fails its health check while a second completes and a third starts |
| `gateway` | no update skipped, none forwarded twice in a life, a /run takes what its chat set last, every update tried | 3 updates of 9 kinds by 2 users from 2 chats, 1 restart of either process: a failed forward with one update before and one after it; two settings, the first given up and late, and a /run with or without an option. For each of the three updates the run names the messages it may be (`MCMessages`) |

`LateOutputs` is what a plugin may print once it has written its handoff. The
`execution` run leaves out FAILED: with it the run loses the pause, which the run
`overwrite` shows. A late COMPLETED is harmless as modelled, and stays in.

`MaxGeneration`, `MaxEvents`, `MaxHandoffs`, `MaxCrashes`, `MaxUnconfirmed`, `MaxVersion`,
`MaxAttempt`, `MaxCreates`, `LastDay`, `MaxTime`, `MaxUpserts`, `MaxOutputs`,
`MaxUpdates` and `MaxRestarts` are the bounds; each is a guard of the action that
counts. In the `budget` run the two days are in one month: the monthly limit is
reached from two days, and the change of the month, which is computed by the same
kind of window as the change of the day, is not reached.

The configurations of `admission` are the two subscription channels as shipped
and a third channel of every class, with flags, grants and workers varied where
the selectors look; the weights are the shipped ones and not varied. `TypeOK`
leaves the configuration out: it never changes, and membership in a set of
configurations is expensive to evaluate. Symmetry is
used only in `tasks`, `checkpoint` and `budget`, whose properties are safety
properties. Where `TypeOK` is a theorem (section 4) the run does not check it
again.

### What the violated runs say

1. `decided`: `decide` ignores the row count of its UPDATE
   (`state/repositories.py:933`). Two concurrent decisions are both recorded, and
   the second can move the task on its own verdict if it is waiting again.
2. `overwrite`: the result path of `execute` does not look at the status
   (`core/process_execution_service.py:157`), although the comment in the handler
   below promises that PAUSED is not overwritten.
3. `recover`: a crash between the transactions for the attempt and for the task
   leaves a RUNNING task whose recovery is refused, because the attempt is
   already PAUSED or final (`core/process_execution_service.py:223`).
4. `assigned`: a resumed run keeps its attempt, and with it the channel assigned
   to the attempt (`core/process_execution_service.py:85`), but is routed again
   with the health of the moment (`:77`, `:100`). Another channel may run, under
   the name of the assigned one in events and costs.

Three more disagreements follow from the models, and no run repeats them:

* `create_attempt` tests for a terminal task before its transaction
  (`core/task_service.py:79-84`). A task that ends in between is superseded all
  the same: `TaskLifecycle` permits `Supersede` from a final status for that
  reason.
* A crash while a resume has the task QUEUED or ASSIGNED leaves it in a status
  that `resume` refuses (`core/process_execution_service.py:241`).
* A stop accepted while a pause completes ends in PAUSED
  (`plugins/process_adapter.py:221`), and no code path of `/stop` ever writes
  CANCELLED, which the specification asks for.

### Fairness

No fairness is assumed of plugins, channels, adapters or users. Where the code
awaits them without a timeout, the property says so in its premise or begins
after that await.

* `ProcessExecution`: `WF(Commit)`, since a coroutine that holds the loop goes
  on; `SF(RunStep)` and `SF(PauserStep(p))`, since asyncio runs ready coroutines
  first in, first out, and deadlines (`asyncio.timeout`, the 30 s of a pause, the
  10 s of the health check and of the wait in `terminate_tree`) pass. A ready
  coroutine is disabled while another holds the loop, hence strong fairness. On
  Windows `terminate_tree` also waits for `taskkill`, which is taken to end. That a
  kill succeeds, that a stop comes, or that pipes close is not assumed.
  `EveryRunEnds` has the premise that the run is not held for ever by what has no
  timeout: the pipes of an aborted or exited plugin (`Held`;
  `plugins/process_adapter.py:163`), and the poll after a cancellation that was
  lost (`Unguarded`). Without either premise TLC finds the run that never ends.
* `ChannelExecution`: `WF(BridgeStep(b))`, since a bridge that has read its
  request goes on by itself and has a deadline of its own. `Begin` and
  `ReadRequest` are not included: the plugin may keep the pipe open
  (`interfaces/channel_bridge.py:45`). `EveryBridgeEnds` needs no more, also across
  a crash of the service.
* `PluginExecution`: `WF(GoesOn(c))`, the event loop. `execute` sets its adapters
  no time limit, so that a plugin answers is not assumed, and
  `AnswerEndsTheTask` begins with the answer.
* `Gateway`: `WF(Step)`: the loop goes on, `getUpdates` does not fail for ever,
  and a forward has a timeout, so nothing is assumed of the service.

`TaskService`, `Checkpoint`, `Budget` and `Admission` state no liveness: their
callers owe nobody a next call.

## 4. Proofs

All theorems are for every value of the constants, from the named assumptions of
the modules (ids of different tables are distinct, `None` is no id, bounds are
naturals).

### TaskService

| Theorem | Statement |
|---|---|
| `TypeCorrect` | `Spec => []TypeOK` |
| `StaleAttemptsStayFrozen` | `Spec => StaleAttemptsAreFrozen` |
| `FinalStatusStays` | `Spec => FinalStatusIsKept` |

`TypeOK` alone is not inductive: a pending call must also carry what its method
has established (for instance, the expected and the wanted status of a
`moveTask` are a move of the table). `TypeInv` adds this as `CallsAreSound`, and
`Next` is shown to preserve it one action at a time. The two action properties
follow: a write to an attempt's row is fenced by `Fenced`, read in the same
step, and a write to a status starts from the expected one, which
`CallsAreSound` says is not final.

The second part of the module proves what the tables add up to:

| Theorem | Statement |
|---|---|
| `GenerationsStayDense` | `Spec => []GenerationsAreDense` |
| `WaitingIsDecidable` | `"WAITING_APPROVAL" \notin Targets` implies `Spec => []WaitingHasPendingApproval` |
| `TrailReplays` | `Spec => []AuditTrailReplays` |
| `LifecycleIsImplemented` | `Spec => ImplementsLifecycle` |

* `GenerationsAreDense` is inductive: `InsertKeepsDense` shows that MAX + 1,
  computed in the transaction, is the one number that keeps it so.
* `WaitingIsDecidable` needs that no pending move asks for WAITING_APPROVAL
  (`MovesAskForTargets`); no caller in `src/` does, and a caller that did would
  wait for an approval nobody requested. The denial or approval of one request
  ends the wait whatever other requests are open, which is the one delicate case.
* `AuditTrailReplays` speaks of events already written, so it is strengthened to
  `Audited`: the trail of a task also says nothing of attempts that do not exist
  yet. `OneMoreEvent` is the lemma about appending one entry; each action then
  shows that its entry starts at the status it replaces.
* The refinement follows from the first: `InsertTakesNext` shows that the number
  a new attempt gets is that of the current attempt plus one, and
  `SupersedesExisting` that only tasks that exist are superseded.

What they show of the code is that the guards inside the transactions suffice:
nothing depends on when the service made its reads.

### ProcessExecution

Without any condition:

| Theorem | Statement |
|---|---|
| `CoroutinesAndRowsAgree` | `Spec => []Inv`, the inductive invariant |
| `StatesAreTyped` | `Spec => []TypeOK` |
| `PluginsEndWithTheirRun` | `Spec => []NoPluginOutlivesItsRun` |
| `ChannelsEndWithTheirRun` | `Spec => []NoChannelOutlivesItsRun` |
| `TaskAndAttemptEndTogether` | `Spec => []FinishedTogether` |
| `CompletionsAreEarned` | `Spec => CompletionIsEarned` |

If `"FAILED" \notin LateOutputs`, that is, if no plugin
prints FAILED once it has written its handoff (with it, the code overwrites the
pause: see the findings):

| Theorem | Statement |
|---|---|
| `PausedTasksAreResumable` | `Spec => []PausedIsResumable` |
| `PausesAreNotOverwritten` | `Spec => PauseIsNotOverwritten` |
| `NewestHandoffIsTheCheckpoint` | `Spec => []NewestHandoffIsKept` |

The argument rests on the event loop. `LoopIsHeld` says who holds it, so while a
coroutine has transactions to make, nothing else in the service moves, and
`WritesAreInOrder` can say, for each stretch of code, what its last transaction
has left in the rows (`Starting`, `Recovering`, ..., `Persisting`). Every action
but `Commit` only begins or ends such a list; `OnlyCommitsWrite` says so, and one
lemma per stretch says what `Commit` does to it. The end of a run is the delicate
case: `_finish` closes the attempt first, so a final task always has a closed
attempt, wherever the service dies.

A PAUSED task may still have a run. `PausedByHandoff` says which: one whose
plugin has handed off, and which can at most try to complete the task; its
attempt is PAUSED, and the policy refuses that move. Here the condition on late
outputs is used, since PAUSED to FAILED is a legal move.

That the checkpoint is the newest handoff needs three more facts. A pauser that has
read a response holds the handoff of the present plugin, however long ago it read
it (`PausersAreAttached`; `PausersHaveRead` is the lemma the steps cite): a run ends
only when no pauser awaits its exit any more. The plugin of a
pause that is being persisted has exited, so no handoff follows
(`HandoffsAreOver`). And an execution without a crash never ends with its task
RUNNING (`StatusesFitTheRun`), so `/resume` has nothing to recover and no old
checkpoint comes back; for that, the transactions that record a failure are shown
to be accepted (`RunsRefused`), and a run that is told of its pause to have a
task that is PAUSED (`PauseIsTold`).

### ChannelExecution

| Theorem | Statement |
|---|---|
| `TypeCorrect` | `Spec => []TypeOK` |
| `AnswersAreAddressed` | `Spec => []AnswerIsForItsAsker` |
| `OneCall` | `Spec => []ChannelIsCalledOnce` |
| `ResponsesAreBooked` | `Spec => []ResponseIsBooked` |
| `CompletionsAreBooked` | `Spec => []CompletionIsBooked` |
| `MovedTasksAreNotBooked` | `Spec => MovedTaskIsNotBooked` |

The inductive invariant says who is served: until the claim file is unlinked, at
most one bridge is past its claim, and request and response are its own
(`OneBridgeIsServed`). That is where the order of the unlinks is used. Beside it
stand `CallsAreCounted` (a response on record and a call are the same thing),
`BookingInOrder` (how far the ledger is, by `run.pc`), `PublishedIsBooked`
(nothing can be seen before it is booked, and nothing once the claim is to go)
and `ResultIsLate` (a completion has called, succeeded and booked).

### Checkpoint

| Theorem | Statement |
|---|---|
| `CheckpointTypeCorrect` | `Spec => []TypeOK` |
| `LatestLoads` | `Spec => []LatestLoadsUnlessTouched` |
| `LoadedStaysNewest` | `Spec => []LoadedIsTheNewest` |

The inductive invariant adds four parts: a file that nobody touched is as it was
registered (`UntouchedIsIntact`), what `create` did not write is marked as touched
(`ForeignIsTouched`), files and rows refer only to registered files
(`ReferencesAreRegistered`), and the latest row is that of the last creation
(`LatestRowIsNewest`). The first needs the lemma `NextRevisionIsFree`: the number
that `create` gives belongs to no checkpoint that is registered and still intact.
That is the one place where the argument depends on how revisions are numbered,
and a number taken from anything but the intact files would break it.

### Budget

| Theorem | Statement |
|---|---|
| `SpendIsAccounted` | `Spec => []Inv`, the inductive invariant |
| `TypeCorrect` | `Spec => []TypeOK` |
| `OverspendStaysBounded` | `Spec => []OverspendIsBounded` |
| `OverrunsAreWarned` | `Spec => []OverrunWasWarned` |

The two bounds are about sums that several callers read, exceed and add to far
apart. They are not inductive: what matters is also what callers may still
record. The proof speaks of scopes: one of the four limits (hard and soft limit
of a task, the day, the month) with its tasks and its period. In a scope a
caller weighs nothing until it has read a sum that leaves room (or will read
that of a period that is over), and then the cost it announced (`Weight`); one
that only an approval lets pass is counted apart (`Excess`). `ScopeIsKept` says
that what is on record, with what is due, fits into the limit, what was approved
and one call of each caller but one. Each action then moves one term into
another: a read turns a weight of 0 into the cost only below the limit
(`ReadsKeep`), a record turns the weight into a row (`RecordKeeps`), an approval
is paid for by what was approved (`DecideKeeps`), and at midnight an empty
period begins with the weights that are left (`MidnightKeeps`). The slack is
one caller short since of all callers that weigh something in an empty
period at least one was within the limit by itself. The soft limit of a task is
such a scope as long as nobody has been warned.

The sums are folds over sets. What the proof needs of them (an element can be
taken out first, monotonicity, bounds, one change) is proved by induction on the
subsets of a finite set (`SubsetInduction`), which follows from the library's
theorem that the strict subset ordering is well-founded. The sets of tasks,
approvals and callers are assumed finite and the set of callers not empty
(`TablesAreFinite`); costs and limits are naturals.

### Admission

| Theorem | Statement |
|---|---|
| `ChoicesAreTraced` | `Spec => []Inv`, the inductive invariant |
| `TypeCorrect` | `Spec => []TypeOK` |
| `ChoicesAreLegitimate` | `Spec => []ChoiceIsLegitimate` |
| `SubscriptionsComeFirst` | `SubscriptionsRankHighest` implies `Spec => []SubscriptionComesFirst` |
| `ChoicesAreStable` | `HandoffsDoNotPay` implies `Spec => ChoiceIsStable` |
| `VerdictsAreJustified` | `Spec => []VerdictIsJustified` |

`Configs` is any set of configurations that `load_config` accepts: any number of
channels and workers, any weights, metrics and priorities. Two theorems need more
than the schema asks for, and have it as a hypothesis. A class of a higher
`class_priority` than `subscription` would of course come first
(`SubscriptionsRankHighest`; shipped: 100 against 80, 50 and 20). And
`handoff_penalty` is added to a score, so a positive one would reward a change of
channel at every request (`HandoffsDoNotPay`; shipped: -4). The configurations of
the run satisfy both.

The lemmas say what the operators of `Routing` return. A finite set with a strict
total order has a first element (`FirstExists`, by induction on subsets); so
there is a channel that comes before all others in the sort (`FirstInIsFirst`),
and workers of highest priority of which one has the least identifier
(`SelectedWorkerIsAble`). `ResolvedIsJustified` puts them together: what is chosen
is eligible, the first of its kind and of the right provider; nothing is chosen
only if nothing that is eligible is allowed by the preference, or an eligible
channel has a bad metric. `ResolvedAgainIsSame` compares two rankings that differ by the
channel in use: the chosen channel loses its penalty and the others may get one,
so it stays first.

The state adds what the router knows: `QueryHasRead` says that what it has read of
a channel is what the row says of the time it took from the clock, unless the row
was written since; `AnswerIsChosen` says that its last choice follows from such a
reading. `ProbesAreSound` ties the probes to the level and the worker of the task,
and `RefusalIsSound` ties a refusal to what is still left to be probed.

### PluginExecution

| Theorem | Statement |
|---|---|
| `TypeCorrect` | `Spec => []TypeOK` |
| `OneStart` | `Spec => []PluginRunsOnce` |
| `FailureStays` | `Spec => FailureOnRecordIsFinal` |
| `CompletionsAreBacked` | `Spec => []CompletionIsBacked` |

`OneAtATime` says that two calls are never both between two awaits; so what a
call read at the beginning of its stretch still holds when it writes. With it,
`NotYetStarted` (a call on its way to the start finds no start on record),
`AnswersHaveStarts` (whoever has an answer has started the plugin),
`RejectsInTime`, `FailuresArrive` (a failure on record is about to reach the
task, has reached it, or its call is lost) and `CompletedCleanly` are inductive
(`AlwaysInv`).

`CompletionsAreBacked` needs the record of every call as far as it has come, not
only of the one that completes: `BookOf` counts the starts, outputs and
acceptances of a call at each of its places, with the outputs still `left`
making up the difference, and `CompletedByReturn` ties the status COMPLETED to a
call that has returned. `OwnRecordGrows` and `OthersKeepRecord` say what one more
event does to the two sides.

### Gateway

| Theorem | Statement |
|---|---|
| `TypeCorrect` | `Spec => []TypeOK` |
| `EveryUpdateIsReached` | `Spec => []NoUpdateIsSkipped` |
| `NoForwardIsRepeated` | `Spec => []ForwardedOncePerLife` |
| `RunsFollowTheChat` | `Spec => []RunTakesTheChatsPreferences` |

`NothingPassedOver` bounds every update that is still to be tried from below, by
the server's memory, the offset and the head of the batch; it needs that a batch
is consecutive and not behind the offset (`BatchInOrder`). `OncePerLife` counts
the forwards on either side of the offset, and `OneThreadPerForward` carries the
count over to threads and tasks.

`RunsFollowTheChat` needs to know which settings the event loop has had in their
turn. `LateIsGivenUp` says that in the gateway's first life every thread is the
one it waits for or was given up, and that what was given up lies behind its
offset. So the preferences of every user are what the updates before `Handled`
leave (`Follows`): the last setting among those that were not given up, or one
that was. Between the offset and the next update of a batch there are only
updates without text (`OnlyPhotosBetween`), by the two invariants above. A step
that moves on past updates without a text or given up keeps that
(`FollowsOn`, `PrefsRest`); the command that the gateway waits for becomes the
last one (`OneMoreUpdate`), and a late one overtakes it (`OneLateUpdate`). In a
later life a thread of an earlier one may be late without having been given up,
which is why the property speaks of the first.

### Only model-checked

Every invariant and every action property of a passing run has its theorem; where
a theorem has a hypothesis, its table or the text below it names it. What remains
with TLC is liveness (`EveryRunEnds`, `EveryPauseEnds`, `EveryBridgeEnds`,
`EveryUpdateIsTried`, `AnswerEndsTheTask`): fairness and ENABLED are out of the
prover's reach.

## 5. Not modelled, and the plan

Not modelled, because no property above depends on it: parsing and wording of
commands, reading of YAML, the command lines and the output parsing of the CLI
channels, token counts and prices, the content of files, artifacts and results,
the migration runner (sequential start-up code), the command line (wiring), the
bundled plugin facade (it delegates) and the Hermes relay (a stateless HTTP
client). The busy flag of a CLI adapter cannot be reached: an adapter belongs to
one run, and a run calls its channel once (`ChannelIsCalledOnce`).

What a next step would add is **composition**: the register step of `Checkpoint`
shown to implement the step that sets `checkpoint` in `ProcessExecution`, and the
approvals of `Budget` with a running attempt, which a denial leaves open today
(`state/repositories.py:937`).
