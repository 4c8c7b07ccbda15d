-------------------------- MODULE ProcessExecution --------------------------
(***************************************************************************)
(* The life of one task in the service process: ProcessExecutionService    *)
(* (core/process_execution_service.py) and its ProcessPluginAdapter        *)
(* (plugins/process_adapter.py), with the plugin process, the channel      *)
(* process, /pause, /resume and /stop, and crashes of the service.         *)
(*                                                                         *)
(* All coroutines share one event loop (AsyncCommandDispatcher), so they   *)
(* interleave only where one awaits.  Between two awaits a coroutine may   *)
(* commit several SQLite transactions, and the service may crash between   *)
(* any two of them.  So a coroutine that has transactions to make holds    *)
(* the loop (turn), todo lists the writes left, and Commit makes the next  *)
(* one; nothing else in the service moves until it is done, but the        *)
(* processes outside the service do.                                       *)
(*                                                                         *)
(* A task has one attempt: a resumed run keeps the attempt of the paused   *)
(* one.  Files of the transport directory are flags here: asked is         *)
(* pause.request.json, plugin.requested is request.json, plugin.handed is  *)
(* the handoff in pause.response.json.  Handoffs are numbered in the order *)
(* in which plugins write them, from 1.                                    *)
(***************************************************************************)
EXTENDS TaskStateMachine, Naturals, Sequences

CONSTANTS
  Pausers,       \* the concurrent /pause commands
  LateOutputs,   \* what a plugin may print once it has written its handoff
  MaxHandoffs,   \* bound: handoffs written by plugin processes
  MaxCrashes,    \* bound: crashes of the service
  MaxUnconfirmed \* bound: channels whose end is not confirmed

ASSUME PausersAreNoOwners == Pausers \cap {"loop", "run"} = {}
ASSUME LateOutputsAreOutputs ==
  LateOutputs \subseteq {"COMPLETED", "FAILED", "HANDOFF", "BROKEN"}
ASSUME BoundsAreNaturals ==
  MaxHandoffs \in Nat /\ MaxCrashes \in Nat /\ MaxUnconfirmed \in Nat

VARIABLES
  status,      \* tasks.status
  attempt,     \* execution_attempts.status of the current attempt
  checkpoint,  \* the handoff that tasks.latest_checkpoint_uri leads to, or 0
  run,         \* the execute() coroutine and its transport
  pauser,      \* where each pause() coroutine stands
  read,        \* the handoff that it has read, or 0
  turn,        \* who holds the event loop: "loop" when every coroutine awaits
  todo,        \* the transactions the holder has yet to commit
  plugin,      \* the plugin process
  channel,     \* the channel process
  survivors,   \* how many processes were left behind, and may run on
  handoffs,    \* the number of handoffs written so far
  faults       \* how many crashes and unconfirmed ends there were

db == <<status, attempt, checkpoint>>
world == <<plugin, channel, survivors, handoffs, faults>>
vars == <<db, run, pauser, read, turn, todo, world>>

(* Where execute() stands: it holds the loop in the first set, where       *)
(* "recovering" and "requeueing" are the part that resume() runs first,    *)
(* and awaits in the second: "ending" is the adapter's terminate_tree of   *)
(* the channel, "aborting" the transport's of the plugin, and "gathering"  *)
(* the end of communicate(), which has no timeout.                         *)
Writing == {"starting", "recovering", "requeueing", "entering", "finishing",
            "failing"}
Awaiting == {"health", "spawn", "poll", "channel", "ending", "outcome",
             "returning", "aborting", "gathering"}

(* The awaits during which the transport knows its process: the task is in *)
(* ProcessPluginAdapter.active.                                            *)
Attached == {"poll", "channel", "ending", "outcome", "returning", "aborting",
             "gathering"}

(* result is what the transport returns ("PAUSED" is PluginPausedSignal),  *)
(* answer the channel response, outcome the future that complete_pause     *)
(* sets, overdue that the timeout of the transport has been raised: it is  *)
(* raised once.  An ended run keeps its values until the next one begins.  *)
Run == [pc : Writing \cup Awaiting \cup {"none"},
        result : {"none", "COMPLETED", "FAILED", "PAUSED"},
        answer : {"none", "failed", "succeeded"},
        cancelled : BOOLEAN,
        overdue : BOOLEAN,
        asked : BOOLEAN,
        outcome : {"pending", "lost", "persisted"}]

NewRun(pc) == [pc |-> pc, result |-> "none", answer |-> "none",
               cancelled |-> FALSE, overdue |-> FALSE, asked |-> FALSE,
               outcome |-> "pending"]

(* An exited plugin is not yet a closed one: communicate() also waits for  *)
(* the processes that it has started and that hold its pipes.              *)
Plugin == [state : {"none", "running", "exited", "closed"},
           requested : BOOLEAN,
           handed : Nat,
           output : {"none", "COMPLETED", "FAILED", "HANDOFF", "BROKEN"}]

NewPlugin(state) ==
  [state |-> state, requested |-> FALSE, handed |-> 0, output |-> "none"]

PauserState == {"idle", "response", "exit", "persisting", "abandoned"}

Write == [row : {"task", "attempt", "checkpoint"}, to : Status]
W(row, to) == [row |-> row, to |-> to]

(* The transactions of each stretch of code between two awaits, in order.  *)
StartWrites == <<W("task", "CREATED"), W("attempt", "ASSIGNED")>>
RecoverWrites == <<W("attempt", "PAUSED"), W("task", "PAUSED")>>
RequeueWrites == <<W("task", "QUEUED")>>
EnterWrites ==
  IF status = "QUEUED"
  THEN <<W("task", "ASSIGNED"), W("task", "RUNNING"), W("attempt", "RUNNING")>>
  ELSE <<W("task", "QUEUED"), W("task", "ASSIGNED"), W("task", "RUNNING"),
         W("attempt", "RUNNING")>>

(* Mutant: the task is finalized before its attempt. *)
FinishTaskFirst(target) == <<W("task", target), W("attempt", target)>>

(* _finish: two transactions. *)
FinishWrites(target) == <<W("attempt", target), W("task", target)>>

(* Mutant: the checkpoint is only registered once the task is PAUSED. *)
PersistCheckpointLast ==
  <<W("attempt", "PAUSED"), W("task", "PAUSED"), W("checkpoint", "PAUSED")>>

PersistWrites ==
  <<W("checkpoint", "PAUSED"), W("attempt", "PAUSED"), W("task", "PAUSED")>>

Init ==
  /\ status = Absent
  /\ attempt = Absent
  /\ checkpoint = 0
  /\ run = NewRun("none")
  /\ pauser = [p \in Pausers |-> "idle"]
  /\ read = [p \in Pausers |-> 0]
  /\ turn = "loop"
  /\ todo = << >>
  /\ plugin = NewPlugin("none")
  /\ channel = "none"
  /\ survivors = [plugin |-> 0, channel |-> 0]
  /\ handoffs = 0
  /\ faults = [crash |-> 0, unconfirmed |-> 0]

-----------------------------------------------------------------------------
(* The policy and the row accept the write. *)
Legal(w) ==
  CASE w.row = "task" ->
         CanMove(status, w.to) \/ (status = Absent /\ w.to = "CREATED")
    [] w.row = "attempt" ->
         CanMove(attempt, w.to) \/ (attempt = Absent /\ w.to = "ASSIGNED")
    [] OTHER -> TRUE

(* Mutant: the checkpoint is numbered as if one more handoff had followed. *)
CommitAhead ==
  /\ todo # << >>
  /\ LET w == Head(todo) IN
       /\ Legal(w)
       /\ status' = IF w.row = "task" THEN w.to ELSE status
       /\ attempt' = IF w.row = "attempt" THEN w.to ELSE attempt
       /\ checkpoint' = IF w.row = "checkpoint" THEN read[turn] + 1 ELSE checkpoint
  /\ todo' = Tail(todo)
  /\ UNCHANGED <<run, pauser, read, turn, world>>

(* Mutant: a later checkpoint does not replace the latest one. *)
CommitFirstCheckpoint ==
  /\ todo # << >>
  /\ LET w == Head(todo) IN
       /\ Legal(w)
       /\ status' = IF w.row = "task" THEN w.to ELSE status
       /\ attempt' = IF w.row = "attempt" THEN w.to ELSE attempt
       /\ checkpoint' = IF w.row = "checkpoint" /\ checkpoint = 0
                        THEN read[turn] ELSE checkpoint
  /\ todo' = Tail(todo)
  /\ UNCHANGED <<run, pauser, read, turn, world>>

(* One transaction of the coroutine that holds the loop.  A pauser         *)
(* registers the handoff that it has read itself.                          *)
Commit ==
  /\ todo # << >>
  /\ LET w == Head(todo) IN
       /\ Legal(w)
       /\ status' = IF w.row = "task" THEN w.to ELSE status
       /\ attempt' = IF w.row = "attempt" THEN w.to ELSE attempt
       /\ checkpoint' = IF w.row = "checkpoint" THEN read[turn] ELSE checkpoint
  /\ todo' = Tail(todo)
  /\ UNCHANGED <<run, pauser, read, turn, world>>

(* The next transaction is refused: InvalidTaskTransitionError. *)
Refused == todo # << >> /\ ~Legal(Head(todo))

Hold(owner, writes) == turn' = owner /\ todo' = writes
Release == Hold("loop", << >>)

(* The holder has committed all it had to commit. *)
Done(owner) == turn = owner /\ todo = << >>

(* execute() awaits at pc and its await is over. *)
Woken(pc) == turn = "loop" /\ run.pc = pc

GoTo(pc) == run' = [run EXCEPT !.pc = pc]

-----------------------------------------------------------------------------
(* /run: execute() has accepted a new task.                                *)
Execute ==
  /\ turn = "loop"
  /\ run.pc = "none"
  /\ status = Absent
  /\ run' = NewRun("starting")
  /\ Hold("run", StartWrites)
  /\ UNCHANGED <<db, pauser, read, world>>

(* /resume of a task that was left RUNNING: the interrupted resume is      *)
(* first turned back into PAUSED.                                          *)
Recover ==
  /\ turn = "loop"
  /\ run.pc = "none"
  /\ status = "RUNNING"
  /\ checkpoint # 0
  /\ run' = NewRun("recovering")
  /\ Hold("run", RecoverWrites)
  /\ UNCHANGED <<db, pauser, read, world>>

(* /resume of a PAUSED task with a valid checkpoint. *)
Resume ==
  /\ turn = "loop"
  /\ run.pc = "none"
  /\ status = "PAUSED"
  /\ checkpoint # 0
  /\ run' = NewRun("requeueing")
  /\ Hold("run", RequeueWrites)
  /\ UNCHANGED <<db, pauser, read, world>>

(* After the recovery the checkpoint is loaded: it is valid or it is not.  *)
Recovered ==
  /\ Done("run")
  /\ run.pc = "recovering"
  /\ \/ GoTo("requeueing") /\ Hold("run", RequeueWrites)
     \/ GoTo("none") /\ Release
  /\ UNCHANGED <<db, pauser, read, world>>

(* execute() of a queued task: its entrypoint, permission, worker or       *)
(* channel may be unavailable, and then it raises before its try block.    *)
Requeued ==
  /\ Done("run")
  /\ run.pc = "requeueing"
  /\ GoTo("health") \/ GoTo("none")
  /\ Release
  /\ UNCHANGED <<db, pauser, read, world>>

(* The other stretches of execute() end in an await or in its return. *)
AfterWrites ==
  [starting |-> "health", entering |-> "spawn", finishing |-> "none",
   failing |-> "none"]

Written ==
  /\ Done("run")
  /\ run.pc \in DOMAIN AfterWrites
  /\ GoTo(AfterWrites[run.pc])
  /\ Release
  /\ UNCHANGED <<db, pauser, read, world>>

(* Mutant: the handler does not look for PAUSED. *)
AlwaysFail ==
  /\ GoTo("failing")
  /\ Hold("run", FinishWrites("FAILED"))

(* "except BaseException" in execute(): a durable pause is left alone, any *)
(* other run is recorded as FAILED.                                        *)
HandleError ==
  \/ /\ status = "PAUSED"
     /\ GoTo("none")
     /\ Release
  \/ /\ status # "PAUSED"
     /\ GoTo("failing")
     /\ Hold("run", FinishWrites("FAILED"))

(* A transaction of execute() or resume() is refused. *)
RunRefused ==
  /\ turn = "run"
  /\ Refused
  /\ \/ run.pc \in {"entering", "finishing"} /\ HandleError
     \/ run.pc \notin {"entering", "finishing"} /\ GoTo("none") /\ Release
  /\ UNCHANGED <<db, pauser, read, world>>

-----------------------------------------------------------------------------
(* The plugin's --healthcheck process has answered, or not within 10 s. *)
HealthAnswers ==
  /\ Woken("health")
  /\ \/ GoTo("entering") /\ Hold("run", EnterWrites)
     \/ HandleError
  /\ UNCHANGED <<db, pauser, read, world>>

(* create_subprocess_exec of the plugin returns, or raises OSError.  A new *)
(* process is registered in transport.active.                              *)
Spawned ==
  /\ Woken("spawn")
  /\ \/ /\ GoTo("poll")
        /\ plugin' = NewPlugin("running")
        /\ UNCHANGED <<turn, todo>>
     \/ HandleError /\ UNCHANGED plugin
  /\ UNCHANGED <<db, pauser, read, channel, survivors, handoffs, faults>>

(* The transport accepts the output as a PluginResult: the channel has     *)
(* been called, and with success if the plugin claims completion.          *)
Accepts(output) ==
  \/ output = "FAILED" /\ run.answer # "none"
  \/ output = "COMPLETED" /\ run.answer = "succeeded"

(* The poll finds that communicate() is done. *)
PollFindsExit ==
  /\ Woken("poll")
  /\ plugin.state = "closed"
  /\ run' = IF plugin.output = "HANDOFF" THEN [run EXCEPT !.pc = "outcome"]
            ELSE IF Accepts(plugin.output)
            THEN [run EXCEPT !.pc = "returning", !.result = plugin.output]
            ELSE [run EXCEPT !.pc = "aborting"]
  /\ UNCHANGED <<db, pauser, read, turn, todo, world>>

PollFindsStop ==
  /\ Woken("poll")
  /\ plugin.state # "closed"
  /\ run.cancelled
  /\ GoTo("aborting")
  /\ UNCHANGED <<db, pauser, read, turn, todo, world>>

(* The poll finds the first request.json.  The request may not match the   *)
(* task; the fence and both statuses are checked before the channel runs.  *)
PollFindsRequest ==
  /\ Woken("poll")
  /\ plugin.state # "closed"
  /\ ~run.cancelled
  /\ run.answer = "none"
  /\ plugin.requested
  /\ \/ /\ status = "RUNNING" /\ attempt = "RUNNING"
        /\ GoTo("channel")
        /\ channel' = "running"
     \/ GoTo("aborting") /\ UNCHANGED channel
  /\ UNCHANGED <<db, pauser, read, turn, todo, plugin, survivors, handoffs, faults>>

(* A response counts only if the task is still RUNNING; it is then         *)
(* recorded and published.                                                 *)
TakeAnswer(answer) ==
  run' = IF status = "RUNNING"
         THEN [run EXCEPT !.pc = "poll", !.answer = answer]
         ELSE [run EXCEPT !.pc = "aborting"]

ChannelReturns ==
  /\ Woken("channel")
  /\ channel \in {"failed", "succeeded"}
  /\ TakeAnswer(channel)
  /\ channel' = "none"
  /\ UNCHANGED <<db, pauser, read, turn, todo, plugin, survivors, handoffs, faults>>

(* A handoff was printed: wait until complete_pause sets the future. *)
OutcomeKnown ==
  /\ Woken("outcome")
  /\ run.outcome # "pending"
  /\ run' = IF run.outcome = "persisted"
            THEN [run EXCEPT !.pc = "returning", !.result = "PAUSED"]
            ELSE [run EXCEPT !.pc = "aborting"]
  /\ UNCHANGED <<db, pauser, read, turn, todo, world>>

(* Mutant: the timeout does not cover the poll loop's own sleep. *)
PollNeverTimesOut ==
  /\ turn = "loop"
  /\ ~run.overdue
  /\ run.pc \in {"channel", "outcome"}
  /\ run' = [run EXCEPT !.overdue = TRUE,
                !.pc = IF @ = "channel" THEN "ending" ELSE "aborting"]
  /\ UNCHANGED <<db, pauser, read, turn, todo, world>>

(* Mutant: a cancelled adapter does not await the end of its process. *)
TimesOutAtOnce ==
  /\ turn = "loop"
  /\ ~run.overdue
  /\ run.pc \in {"poll", "channel", "outcome"}
  /\ run' = [run EXCEPT !.overdue = TRUE, !.pc = "aborting"]
  /\ UNCHANGED <<db, pauser, read, turn, todo, world>>

(* asyncio.timeout(timeout_seconds): whatever _execute awaits is           *)
(* cancelled, and a cancelled adapter first terminates its process.        *)
TimesOut ==
  /\ turn = "loop"
  /\ ~run.overdue
  /\ run.pc \in {"poll", "channel", "outcome"}
  /\ run' = [run EXCEPT !.overdue = TRUE,
                !.pc = IF @ = "channel" THEN "ending" ELSE "aborting"]
  /\ UNCHANGED <<db, pauser, read, turn, todo, world>>

(* terminate_tree returns, and the cancellation goes on. *)
ChannelIsEnded ==
  /\ Woken("ending")
  /\ GoTo("aborting")
  /\ channel' = "none"
  /\ UNCHANGED <<db, pauser, read, turn, todo, plugin, survivors, handoffs, faults>>

(* terminate_tree raises.  A RuntimeError goes on as the cancellation      *)
(* would.  A TimeoutError becomes a failed response: the cancellation is   *)
(* lost, and the run goes on without a timeout.                            *)
ChannelIsNotEnded ==
  /\ Woken("ending")
  /\ channel = "running"
  /\ faults.unconfirmed < MaxUnconfirmed
  /\ TakeAnswer("failed") \/ GoTo("aborting")
  /\ channel' = "none"
  /\ survivors' = [survivors EXCEPT !.channel = @ + 1]
  /\ faults' = [faults EXCEPT !.unconfirmed = @ + 1]
  /\ UNCHANGED <<db, pauser, read, turn, todo, plugin, handoffs>>

(* The end of _execute, communicate() is done: the transport files are     *)
(* unlinked, so that a pauser still polling for the response will not find *)
(* one.  A pauser that awaits the exit of the process is woken by the exit *)
(* itself, before the gather returns.                                      *)
LeaveTransport ==
  /\ turn = "loop"
  /\ \A p \in Pausers : pauser[p] # "exit"
  /\ pauser' = [p \in Pausers |->
       IF pauser[p] = "response" THEN "abandoned" ELSE pauser[p]]

(* Mutant: a stop that arrives with the result is not looked at. *)
ReturnIgnoringStop ==
  /\ run.pc = "returning"
  /\ LeaveTransport
  /\ \/ run.result = "PAUSED" /\ GoTo("none") /\ Release
     \/ /\ run.result # "PAUSED"
        /\ GoTo("finishing")
        /\ Hold("run", FinishWrites(run.result))
  /\ UNCHANGED <<db, read, world>>

(* _execute returns a result or raises PluginPausedSignal.  A result is    *)
(* refused after a stop, or when its learning fields or artifact hashes    *)
(* are not acceptable.                                                     *)
Return ==
  /\ run.pc = "returning"
  /\ LeaveTransport
  /\ \/ run.result = "PAUSED" /\ GoTo("none") /\ Release
     \/ run.result # "PAUSED" /\ HandleError
     \/ /\ run.result # "PAUSED"
        /\ ~run.cancelled
        /\ GoTo("finishing")
        /\ Hold("run", FinishWrites(run.result))
  /\ UNCHANGED <<db, read, world>>

(* terminate_tree: it does nothing to an exited plugin, and may fail. *)
KillPlugin ==
  \/ /\ plugin.state = "running"
     /\ plugin' = [plugin EXCEPT !.state = "exited", !.output = "BROKEN"]
  \/ UNCHANGED plugin

(* The run aborts: terminate_tree is over, one way or the other. *)
Abort ==
  /\ Woken("aborting")
  /\ KillPlugin
  /\ GoTo("gathering")
  /\ UNCHANGED <<db, pauser, read, turn, todo, channel, survivors, handoffs, faults>>

(* Mutant: communicate() is not gathered. *)
RaiseAtOnce ==
  /\ run.pc = "gathering"
  /\ LeaveTransport
  /\ HandleError
  /\ UNCHANGED <<db, read, world>>

(* Whatever became of the kill, the run waits for communicate(). *)
Raise ==
  /\ run.pc = "gathering"
  /\ plugin.state = "closed"
  /\ LeaveTransport
  /\ HandleError
  /\ UNCHANGED <<db, read, world>>

-----------------------------------------------------------------------------
(* /pause: pause() finds the task RUNNING and the transport attached.      *)
Pause(p) ==
  /\ turn = "loop"
  /\ pauser[p] = "idle"
  /\ status = "RUNNING"
  /\ run.pc \in Attached
  /\ run' = [run EXCEPT !.asked = TRUE]
  /\ pauser' = [pauser EXCEPT ![p] = "response"]
  /\ UNCHANGED <<db, read, turn, todo, world>>

(* The poll for pause.response.json finds it and reads it.  process.wait() *)
(* returns once the process has exited or, in some versions of Python,     *)
(* once its pipes are closed as well.                                      *)
FindResponse(p) ==
  /\ turn = "loop"
  /\ pauser[p] = "response"
  /\ plugin.handed # 0
  /\ read' = [read EXCEPT ![p] = plugin.handed]
  /\ \/ /\ plugin.state # "closed"
        /\ pauser' = [pauser EXCEPT ![p] = "exit"]
        /\ UNCHANGED <<turn, todo>>
     \/ /\ plugin.state \in {"exited", "closed"}
        /\ pauser' = [pauser EXCEPT ![p] = "persisting"]
        /\ Hold(p, PersistWrites)
  /\ UNCHANGED <<db, run, world>>

FindExit(p) ==
  /\ turn = "loop"
  /\ pauser[p] = "exit"
  /\ plugin.state \in {"exited", "closed"}
  /\ pauser' = [pauser EXCEPT ![p] = "persisting"]
  /\ Hold(p, PersistWrites)
  /\ UNCHANGED <<db, run, read, world>>

(* complete_pause: the first pauser to finish settles the future. *)
CompletePause(outcome) ==
  run' = [run EXCEPT !.outcome = IF @ = "pending" THEN outcome ELSE @]

(* A pause command returns. *)
Leave(p) ==
  /\ pauser' = [pauser EXCEPT ![p] = "idle"]
  /\ read' = [read EXCEPT ![p] = 0]

(* Mutant: only the wait for the exit of the process has a deadline. *)
PauseTimesOutAtExit(p) ==
  /\ turn = "loop"
  /\ pauser[p] = "exit" /\ plugin.state # "closed"
  /\ CompletePause("lost")
  /\ Leave(p)
  /\ UNCHANGED <<db, turn, todo, world>>

(* 30 s have passed without a response, or without the exit after one.  An *)
(* abandoned pauser holds a transport whose future is gone.                *)
PauseTimesOut(p) ==
  /\ turn = "loop"
  /\ \/ pauser[p] = "response" /\ CompletePause("lost")
     \/ pauser[p] = "exit" /\ plugin.state # "closed" /\ CompletePause("lost")
     \/ pauser[p] = "abandoned" /\ UNCHANGED run
  /\ Leave(p)
  /\ UNCHANGED <<db, turn, todo, world>>

(* The checkpoint cannot be written or registered, or a move is refused.   *)
PersistFails(p) ==
  /\ turn = p
  /\ Refused \/ todo = PersistWrites
  /\ CompletePause("lost")
  /\ Leave(p)
  /\ Release
  /\ UNCHANGED <<db, world>>

Persisted(p) ==
  /\ Done(p)
  /\ CompletePause("persisted")
  /\ Leave(p)
  /\ Release
  /\ UNCHANGED <<db, world>>

(* /stop: a task that is not in transport.active is left alone.  Otherwise *)
(* the channel process is terminated, unless it is being spawned and not   *)
(* yet known, or terminate_tree fails; and then the plugin (StopKills).    *)
(* The status of the task stays as it is.                                  *)
Stop ==
  /\ turn = "loop"
  /\ run.pc \in Attached
  /\ ~run.cancelled
  /\ run' = [run EXCEPT !.cancelled = TRUE]
  /\ \/ channel = "running" /\ channel' = "failed"
     \/ UNCHANGED channel
  /\ UNCHANGED <<db, pauser, read, turn, todo, plugin, survivors, handoffs, faults>>

StopKills ==
  /\ run.pc \in Attached
  /\ run.cancelled
  /\ KillPlugin
  /\ UNCHANGED <<db, run, pauser, read, turn, todo, channel, survivors, handoffs, faults>>

-----------------------------------------------------------------------------
(* The plugin process asks for its one channel run (channel_bridge): its   *)
(* bridge may do so when it has exited.                                    *)
PluginRequests ==
  /\ plugin.state \in {"running", "exited"}
  /\ ~plugin.requested
  /\ plugin' = [plugin EXCEPT !.requested = TRUE]
  /\ UNCHANGED <<db, run, pauser, read, turn, todo, channel, survivors, handoffs, faults>>

(* Asked to pause, it writes its handoff and the response: once, "exit its *)
(* process after returning the response" (docs/BRIDGE_PROTOCOL_v1.1.md).   *)
PluginHandsOff ==
  /\ plugin.state = "running"
  /\ run.asked
  /\ plugin.handed = 0
  /\ handoffs < MaxHandoffs
  /\ handoffs' = handoffs + 1
  /\ plugin' = [plugin EXCEPT !.handed = handoffs + 1]
  /\ UNCHANGED <<db, run, pauser, read, turn, todo, channel, survivors, faults>>

(* It exits, with any output: "BROKEN" is a crash, a status other than 0   *)
(* or an output that is not a result.                                      *)
PluginExits(output) ==
  /\ plugin.state = "running"
  /\ IF plugin.handed # 0 THEN output \in LateOutputs ELSE output # "HANDOFF"
  /\ plugin' = [plugin EXCEPT !.state = "exited", !.output = output]
  /\ UNCHANGED <<db, run, pauser, read, turn, todo, channel, survivors, handoffs, faults>>

PipesClose ==
  /\ plugin.state = "exited"
  /\ plugin' = [plugin EXCEPT !.state = "closed"]
  /\ UNCHANGED <<db, run, pauser, read, turn, todo, channel, survivors, handoffs, faults>>

ChannelEnds(answer) ==
  /\ channel = "running"
  /\ channel' = answer
  /\ UNCHANGED <<db, run, pauser, read, turn, todo, plugin, survivors, handoffs, faults>>

(* How many plugin processes a crash leaves: one that is being spawned may *)
(* have been started.                                                      *)
PluginsLeft ==
  IF run.pc = "spawn" THEN {0, 1}
  ELSE IF plugin.state = "running" THEN {1} ELSE {0}

(* The service dies and is started again.  What is not in the database is  *)
(* lost; the processes that it had started run on, beside those that a     *)
(* /resume will start.  What they still write goes to a transport          *)
(* directory that nobody reads.                                            *)
Crash ==
  /\ faults.crash < MaxCrashes
  /\ faults' = [faults EXCEPT !.crash = @ + 1]
  /\ run.pc # "none" \/ \E p \in Pausers : pauser[p] # "idle"
  /\ run' = NewRun("none")
  /\ pauser' = [p \in Pausers |-> "idle"]
  /\ read' = [p \in Pausers |-> 0]
  /\ Release
  /\ \E plugins \in PluginsLeft :
       survivors' = [plugin |-> survivors.plugin + plugins,
                     channel |-> IF channel = "running" THEN survivors.channel + 1
                                 ELSE survivors.channel]
  /\ plugin' = NewPlugin("none")
  /\ channel' = "none"
  /\ UNCHANGED <<db, handoffs>>

RunStep ==
  \/ Recovered \/ Requeued \/ Written \/ RunRefused
  \/ HealthAnswers \/ Spawned
  \/ PollFindsExit \/ PollFindsStop \/ PollFindsRequest
  \/ ChannelReturns \/ OutcomeKnown \/ TimesOut
  \/ ChannelIsEnded \/ ChannelIsNotEnded
  \/ Return \/ Abort \/ Raise

PauserStep(p) ==
  \/ FindResponse(p) \/ FindExit(p) \/ PauseTimesOut(p)
  \/ PersistFails(p) \/ Persisted(p)

Command ==
  \/ Execute \/ Recover \/ Resume \/ Stop \/ StopKills
  \/ \E p \in Pausers : Pause(p)

Environment ==
  \/ PluginRequests \/ PluginHandsOff \/ PipesClose
  \/ \E output \in {"COMPLETED", "FAILED", "HANDOFF", "BROKEN"} :
       PluginExits(output)
  \/ \E answer \in {"failed", "succeeded"} : ChannelEnds(answer)
  \/ Crash

Next ==
  \/ Commit \/ RunStep
  \/ \E p \in Pausers : PauserStep(p)
  \/ Command
  \/ Environment

Spec == Init /\ [][Next]_vars

(* The event loop runs every coroutine that is ready in turn, and          *)
(* deadlines pass.  A coroutine that is ready stays ready while another    *)
(* one holds the loop, hence strong fairness.  Nothing is assumed of the   *)
(* plugin, of its pipes, of the channel, of the user, or of /stop; and not *)
(* that a kill succeeds.                                                   *)
Fairness ==
  /\ WF_vars(Commit)
  /\ SF_vars(RunStep)
  /\ \A p \in Pausers : SF_vars(PauserStep(p))

FairSpec == Spec /\ Fairness

-----------------------------------------------------------------------------
(* Every row, coroutine and process is in a state its code can give it. *)
TypeOK ==
  /\ status \in StatusOrAbsent
  /\ attempt \in StatusOrAbsent
  /\ handoffs \in 0..MaxHandoffs
  /\ checkpoint \in 0..handoffs
  /\ read \in [Pausers -> 0..handoffs]
  /\ run \in Run
  /\ pauser \in [Pausers -> PauserState]
  /\ turn \in {"loop", "run"} \cup Pausers
  /\ todo \in Seq(Write)
  /\ plugin \in Plugin /\ plugin.handed \in 0..handoffs
  /\ channel \in {"none", "running", "failed", "succeeded"}
  /\ survivors \in [plugin : Nat, channel : Nat]
  /\ faults \in [crash : 0..MaxCrashes, unconfirmed : 0..MaxUnconfirmed]

(* A PAUSED task has all that /resume needs, a PAUSED attempt and a        *)
(* checkpoint, whichever of pause, stop, timeout, plugin exit and crash    *)
(* met (pause in core/process_execution_service.py).                       *)
PausedIsResumable ==
  status = "PAUSED" => attempt = "PAUSED" /\ checkpoint # 0

(* As long as the service does not crash, a PAUSED task would be resumed   *)
(* from the newest handoff that any of its plugin processes wrote: no      *)
(* pause, late or repeated, leaves it with an older one.                   *)
NewestHandoffIsKept ==
  status = "PAUSED" /\ faults.crash = 0 => checkpoint = handoffs

(* The task and its attempt end together: a final task never has an        *)
(* attempt that is still open or ended differently, not even when the      *)
(* service dies between the two transactions of _finish.                   *)
FinishedTogether == status \in Terminal => attempt = status

(* "Once the two-phase pause has durably fenced the task, shutdown or      *)
(* request cancellation must not overwrite PAUSED with FAILED"             *)
(* (core/process_execution_service.py:162-163): only /resume leaves        *)
(* PAUSED, and the run that was paused writes nothing more.                *)
PauseIsNotOverwritten ==
  [][status = "PAUSED" /\ <<status, attempt>>' # <<status, attempt>> =>
       status' = "QUEUED" /\ run.pc = "requeueing"]_vars

(* A task only becomes COMPLETED by a run that was not stopped, whose      *)
(* channel succeeded and whose plugin has exited with that very result.    *)
CompletionIsEarned ==
  [][status # "COMPLETED" /\ status' = "COMPLETED" =>
       /\ ~run.cancelled
       /\ run.answer = "succeeded"
       /\ plugin.state = "closed" /\ plugin.output = "COMPLETED"]_vars

(* A run does not report its end before its plugin has exited ("confirmed  *)
(* process exit", interfaces/processes.py), also if it is killed in vain:  *)
(* there is one plugin at a time, and one more for every crash, which      *)
(* leaves the plugin running beside the one that /resume starts.           *)
NoPluginOutlivesItsRun ==
  /\ run.pc \notin Attached => plugin.state # "running"
  /\ survivors.plugin <= faults.crash

(* A channel process runs only while its run awaits it, or its end: with a *)
(* stop that misses it, and a timeout that cancels it.  It is left behind  *)
(* by a crash, and by an end that could not be confirmed, and else never.  *)
NoChannelOutlivesItsRun ==
  /\ channel = "running" => run.pc \in {"channel", "ending"}
  /\ survivors.channel <= faults.crash + faults.unconfirmed

(* What the timeout of the transport does not bound: the pipes of a plugin *)
(* that stay open, and the poll after a cancellation that was lost.        *)
Held == run.pc = "gathering" /\ plugin.state # "closed"
Unguarded == run.overdue /\ run.pc \in {"poll", "outcome"}

(* Every run ends, whatever else plugin, channel, stop and pause do, if    *)
(* neither open pipes nor a lost cancellation hold it for ever.            *)
EveryRunEnds ==
  []<>~(Held \/ Unguarded) => []<>(run.pc = "none")

(* Every pause command returns. *)
EveryPauseEnds == \A p \in Pausers : []<>(pauser[p] = "idle")

(* "Stop/restart Global Control and resume an interrupted task"            *)
(* (Implementation Spec, M6 exit criterion): after a crash, a task left    *)
(* RUNNING with a checkpoint can be turned back into PAUSED.               *)
InterruptedTaskIsRecoverable ==
  faults.crash > 0 /\ run.pc = "none" /\ status = "RUNNING" /\ checkpoint # 0 =>
    CanMove(attempt, "PAUSED")

=============================================================================
