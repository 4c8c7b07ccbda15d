-------------------------- MODULE ChannelExecution --------------------------
(***************************************************************************)
(* One channel call of one plugin run: the bridge processes that a plugin  *)
(* may start to ask for it (interfaces/channel_bridge.py), the poll loop   *)
(* of the transport that dispatches the request (plugins/                  *)
(* process_adapter.py), the fenced execution and its records (core/        *)
(* channel_execution_service.py, learning/operational_metrics.py) and the  *)
(* CLI process of the adapter (channels/_cli_health.py).                   *)
(*                                                                         *)
(* The bridges, the plugin and the channel are processes of their own and  *)
(* may move between any two steps of the service.  What they share with it *)
(* is the transport directory: files.  The service is one event loop: the  *)
(* task is stopped or paused by its other coroutines, so only while the    *)
(* poll loop awaits.  Each record is a transaction of its own.             *)
(*                                                                         *)
(* A request is named by the bridge that wrote it.  The pause protocol is  *)
(* in ProcessExecution: here a plugin that prints a handoff ends the run.  *)
(***************************************************************************)
EXTENDS Naturals

CONSTANTS
  Bridges,   \* the bridge processes that the plugin may start
  Channels,  \* the configured subscription channels
  Nobody     \* no bridge, or no channel

ASSUME NobodyIsNeither == Nobody \notin Bridges \cup Channels

VARIABLES
  route,    \* the channel of the attempt, the one routed to, the ones known
  task,     \* "RUNNING" as long as task and attempt are, and the fence holds
  bridge,   \* where each bridge stands
  answer,   \* what each bridge has printed
  files,    \* the transport directory
  run,      \* the transport's _execute and the channel call inside it
  plugin,   \* the plugin process
  chan,     \* the CLI process of the channel
  ledger    \* for each kind of record the channel it was booked under

vars == <<route, task, bridge, answer, files, run, plugin, chan, ledger>>

Kinds == {"artifact", "cost", "learning", "event"}

(* A response names the bridge whose request it answers. *)
Response == [to : Bridges \cup {Nobody}, success : BOOLEAN]
NoResponse == [to |-> Nobody, success |-> FALSE]

Route == [assigned : Channels, bound : Channels, known : SUBSET Channels]

BridgeState == {"idle", "begun", "asked", "claimed", "writing", "waiting",
                "answered", "refused", "dead"}

Files == [context : BOOLEAN, claim : BOOLEAN, pending : BOOLEAN,
          request : Bridges \cup {Nobody}, response : Response]

(* The poll loop, the await of the channel and of its end, the synchronous *)
(* stretch that books the response and publishes it, the way out through   *)
(* an error, which kills the plugin and waits for its pipes, the unlinks.  *)
(* "overdue": the timeout of the transport has been raised, once.          *)
Booking == {"artifact", "cost", "learning", "event", "publish"}
Unlinking == {"context", "request", "response", "claim"}

Awaiting == {"poll", "channel", "ending", "aborting", "gathering"}

Run == [pc : Awaiting \cup Booking \cup {"unlink", "ended", "crashed"},
        file : Unlinking,
        cancelled : BOOLEAN,
        overdue : BOOLEAN,
        calls : Nat,
        response : Response,
        result : {"none", "COMPLETED", "FAILED", "PAUSED", "raised"}]

(* A plugin has exited before communicate() returns: its pipes may be held *)
(* by a process that it has started.                                       *)
Plugin == [state : {"running", "exited", "closed"},
           output : {"none", "COMPLETED", "FAILED", "HANDOFF", "BROKEN"}]

Channel == [id : Channels \cup {Nobody},
            state : {"none", "spawning", "running", "succeeded", "failed"}]

NoChannel == [id |-> Nobody, state |-> "none"]

TypeOK ==
  /\ route \in Route
  /\ task \in {"RUNNING", "moved"}
  /\ bridge \in [Bridges -> BridgeState]
  /\ answer \in [Bridges -> Response]
  /\ files \in Files
  /\ run \in Run
  /\ plugin \in Plugin
  /\ chan \in Channel
  /\ ledger \in [Kinds -> Channels \cup {Nobody}]

(* A first run is assigned the channel it was routed to.  A resumed one    *)
(* keeps its attempt, but is routed again among the channels that are      *)
(* configured and healthy now.                                             *)
Routes == {r \in Route : r.bound \in r.known}

Init ==
  /\ route \in Routes
  /\ task = "RUNNING"
  /\ bridge = [b \in Bridges |-> "idle"]
  /\ answer = [b \in Bridges |-> NoResponse]
  /\ files = [context |-> TRUE, claim |-> FALSE, pending |-> FALSE,
              request |-> Nobody, response |-> NoResponse]
  /\ run = [pc |-> "poll", file |-> "context", cancelled |-> FALSE,
            overdue |-> FALSE, calls |-> 0, response |-> NoResponse, result |-> "none"]
  /\ plugin = [state |-> "running", output |-> "none"]
  /\ chan = NoChannel
  /\ ledger = [k \in Kinds |-> Nobody]

-----------------------------------------------------------------------------
(* The bridge command: main() of interfaces/channel_bridge.py.             *)
Go(b, to) == bridge' = [bridge EXCEPT ![b] = to]

(* A bridge has read the context.  The plugin starts its bridges. *)
Begin(b) ==
  /\ bridge[b] = "idle"
  /\ plugin.state = "running"
  /\ files.context
  /\ Go(b, "begun")
  /\ UNCHANGED <<route, task, answer, files, run, plugin, chan, ledger>>

(* The request is read from the plugin, to the end of its standard input:  *)
(* before the bridge has a deadline.                                       *)
ReadRequest(b) ==
  /\ bridge[b] = "begun"
  /\ \E to \in {"asked", "refused"} : Go(b, to)
  /\ UNCHANGED <<route, task, answer, files, run, plugin, chan, ledger>>

(* The claim file is created, or it is there and the bridge exits with 3. *)
Claim(b) ==
  /\ bridge[b] = "asked"
  /\ \/ files.claim /\ Go(b, "refused") /\ UNCHANGED files
     \/ /\ ~files.claim
        /\ Go(b, "claimed")
        /\ files' = [files EXCEPT !.claim = TRUE]
  /\ UNCHANGED <<route, task, answer, run, plugin, chan, ledger>>

(* publish: the data is written to a new file that is then renamed. *)
WritePending(b) ==
  /\ bridge[b] = "claimed"
  /\ \/ files.pending /\ Go(b, "refused") /\ UNCHANGED files
     \/ /\ ~files.pending
        /\ Go(b, "writing")
        /\ files' = [files EXCEPT !.pending = TRUE]
  /\ UNCHANGED <<route, task, answer, run, plugin, chan, ledger>>

PublishRequest(b) ==
  /\ bridge[b] = "writing"
  /\ Go(b, "waiting")
  /\ files' = [files EXCEPT !.pending = FALSE, !.request = b]
  /\ UNCHANGED <<route, task, answer, run, plugin, chan, ledger>>

ReadResponse(b) ==
  /\ bridge[b] = "waiting"
  /\ files.response # NoResponse
  /\ Go(b, "answered")
  /\ answer' = [answer EXCEPT ![b] = files.response]
  /\ UNCHANGED <<route, task, files, run, plugin, chan, ledger>>

(* Mutant: a bridge waits as long as the run lasts. *)
GiveUpAfterRun(b) ==
  /\ bridge[b] = "waiting"
  /\ run.pc = "ended"
  /\ Go(b, "refused")
  /\ UNCHANGED <<route, task, answer, files, run, plugin, chan, ledger>>

(* The deadline of the bridge, or a response that vanished under its read. *)
GiveUp(b) ==
  /\ bridge[b] = "waiting"
  /\ Go(b, "refused")
  /\ UNCHANGED <<route, task, answer, files, run, plugin, chan, ledger>>

(* A bridge that has read its request, or has not yet. *)
Asking(b) == bridge[b] \in {"asked", "claimed", "writing", "waiting"}
Live(b) == bridge[b] = "begun" \/ Asking(b)

(* A bridge is killed, at any point of its work. *)
Die(b) ==
  /\ Live(b)
  /\ Go(b, "dead")
  /\ UNCHANGED <<route, task, answer, files, run, plugin, chan, ledger>>

(* The plugin ends by itself: it need not have waited for its bridges. *)
PluginExits ==
  /\ plugin.state = "running"
  /\ \E output \in {"COMPLETED", "FAILED", "HANDOFF", "BROKEN"} :
       plugin' = [state |-> "exited", output |-> output]
  /\ UNCHANGED <<route, task, bridge, answer, files, run, chan, ledger>>

(* Its pipes are closed, and communicate() is done. *)
PipesClose ==
  /\ plugin.state = "exited"
  /\ plugin' = [plugin EXCEPT !.state = "closed"]
  /\ UNCHANGED <<route, task, bridge, answer, files, run, chan, ledger>>

-----------------------------------------------------------------------------
(* The poll loop of ProcessPluginAdapter._execute.                         *)
GoTo(pc) == run' = [run EXCEPT !.pc = pc]
Fail == run' = [run EXCEPT !.pc = "aborting", !.result = "raised"]

(* Before the channel is called: the request matches the task, the grant   *)
(* is unchanged, the fence is valid, task and attempt are RUNNING, and the *)
(* channel of the attempt is configured.                                   *)
MayCall == task = "RUNNING" /\ route.assigned \in route.known

(* Mutant: the poll loop forgets that it has dispatched the request. *)
DispatchAgain ==
  /\ run.pc = "poll"
  /\ plugin.state # "closed"
  /\ ~run.cancelled
  /\ files.request # Nobody
  /\ MayCall
  /\ run' = [run EXCEPT !.pc = "channel", !.calls = @ + 1,
                        !.response = [to |-> files.request, success |-> FALSE]]
  /\ chan' = [id |-> route.bound, state |-> "spawning"]
  /\ UNCHANGED <<route, task, bridge, answer, files, plugin, ledger>>

(* The first request found is dispatched; the adapter is the one that was  *)
(* routed to, whatever the channel of the attempt.                         *)
Dispatch ==
  /\ run.pc = "poll"
  /\ plugin.state # "closed"
  /\ ~run.cancelled
  /\ run.response = NoResponse
  /\ files.request # Nobody
  /\ \/ /\ MayCall
        /\ run' = [run EXCEPT !.pc = "channel", !.calls = @ + 1,
                     !.response = [to |-> files.request, success |-> FALSE]]
        /\ chan' = [id |-> route.bound, state |-> "spawning"]
     \/ Fail /\ UNCHANGED chan
  /\ UNCHANGED <<route, task, bridge, answer, files, plugin, ledger>>

(* create_subprocess_exec returns and the process is registered, or fails. *)
ChannelStarts ==
  /\ chan.state = "spawning"
  /\ run.pc = "channel"
  /\ \E to \in {"running", "failed"} : chan' = [chan EXCEPT !.state = to]
  /\ UNCHANGED <<route, task, bridge, answer, files, run, plugin, ledger>>

(* The CLI exits, or its own timeout ends it. *)
ChannelEnds ==
  /\ chan.state = "running"
  /\ \E to \in {"succeeded", "failed"} : chan' = [chan EXCEPT !.state = to]
  /\ UNCHANGED <<route, task, bridge, answer, files, run, plugin, ledger>>

(* The first record of a response. *)
FirstRecord(success) == IF success THEN "artifact" ELSE "cost"

(* Mutant: the fence and the status are not looked at again. *)
TakeUnchecked(success) ==
  run' = [run EXCEPT !.pc = FirstRecord(success), !.response.success = success]

(* After the await the fence and the status of the task are checked again. *)
Take(success) ==
  \/ /\ task = "RUNNING"
     /\ run' = [run EXCEPT !.pc = FirstRecord(success),
                           !.response.success = success]
  \/ task # "RUNNING" /\ Fail

ChannelReturns ==
  /\ run.pc = "channel"
  /\ chan.state \in {"succeeded", "failed"}
  /\ Take(chan.state = "succeeded")
  /\ chan' = [chan EXCEPT !.state = "none"]
  /\ UNCHANGED <<route, task, bridge, answer, files, plugin, ledger>>

(* asyncio.timeout cancels the await.  A spawn is undone; the adapter of a *)
(* running channel awaits terminate_tree.                                  *)
TimesOut ==
  /\ ~run.overdue
  /\ \/ /\ run.pc = "poll" \/ (run.pc = "channel" /\ chan.state = "spawning")
        /\ run' = [run EXCEPT !.overdue = TRUE, !.pc = "aborting",
                              !.result = "raised"]
        /\ chan' = [chan EXCEPT !.state = "none"]
     \/ /\ run.pc = "channel"
        /\ chan.state # "spawning"
        /\ run' = [run EXCEPT !.overdue = TRUE, !.pc = "ending"]
        /\ UNCHANGED chan
  /\ UNCHANGED <<route, task, bridge, answer, files, plugin, ledger>>

(* The channel's end is confirmed, and the cancellation goes on. *)
ChannelIsEnded ==
  /\ run.pc = "ending"
  /\ Fail
  /\ chan' = [chan EXCEPT !.state = "none"]
  /\ UNCHANGED <<route, task, bridge, answer, files, plugin, ledger>>

(* It is not: an error that takes the run with it, or a TimeoutError, which *)
(* the adapter turns into a failed response, and the cancellation is lost.  *)
ChannelIsNotEnded ==
  /\ run.pc = "ending"
  /\ chan.state = "running"
  /\ Take(FALSE) \/ Fail
  /\ UNCHANGED <<route, task, bridge, answer, files, plugin, chan, ledger>>

(* Mutant: the response is published before the event is appended. *)
PublishFirst ==
  [artifact |-> "cost", cost |-> "learning", learning |-> "publish",
   event |-> "publish"]

(* The records in the order in which they are made. *)
NextStep ==
  [artifact |-> "cost", cost |-> "learning", learning |-> "event",
   event |-> "publish"]

(* One record, booked under the channel of the attempt; a record may fail  *)
(* and takes the run with it.                                              *)
Book ==
  /\ run.pc \in Kinds
  /\ \/ /\ ledger' = [ledger EXCEPT ![run.pc] = route.assigned]
        /\ GoTo(NextStep[run.pc])
     \/ Fail /\ UNCHANGED ledger
  /\ UNCHANGED <<route, task, bridge, answer, files, plugin, chan>>

(* response.json; a response may be too large to be published. *)
PublishResponse ==
  /\ run.pc = "publish"
  /\ \/ /\ files' = [files EXCEPT !.response = run.response]
        /\ GoTo("poll")
     \/ Fail /\ UNCHANGED files
  /\ UNCHANGED <<route, task, bridge, answer, plugin, chan, ledger>>

StartUnlink(result) ==
  run' = [run EXCEPT !.pc = "unlink", !.file = "context", !.result = result]

(* Mutant: the channel need not have been called. *)
AcceptsAny(output) == output \in {"COMPLETED", "FAILED"}

(* A result counts if the channel was called, a completion if the channel  *)
(* succeeded.                                                              *)
Accepts(output) ==
  \/ output = "FAILED" /\ run.response # NoResponse
  \/ output = "COMPLETED" /\ run.response # NoResponse /\ run.response.success

(* communicate() is done: a result is returned, a handoff waits for the    *)
(* pauser's verdict, anything else is an error.  The result may also claim *)
(* a usage or an output that the transport has not seen.                   *)
PollFindsExit ==
  /\ run.pc = "poll"
  /\ plugin.state = "closed"
  /\ \/ Accepts(plugin.output) /\ StartUnlink(plugin.output)
     \/ plugin.output = "HANDOFF" /\ StartUnlink("PAUSED")
     \/ Fail
  /\ UNCHANGED <<route, task, bridge, answer, files, plugin, chan, ledger>>

PollFindsStop ==
  /\ run.pc = "poll"
  /\ plugin.state # "closed"
  /\ run.cancelled
  /\ Fail
  /\ UNCHANGED <<route, task, bridge, answer, files, plugin, chan, ledger>>

(* terminate_tree of a running plugin takes its bridges with it, or fails. *)
KillTree ==
  \/ /\ plugin.state = "running"
     /\ plugin' = [state |-> "exited", output |-> "BROKEN"]
     /\ bridge' = [b \in Bridges |-> IF Live(b) THEN "dead" ELSE bridge[b]]
  \/ UNCHANGED <<plugin, bridge>>

Abort ==
  /\ run.pc = "aborting"
  /\ KillTree
  /\ GoTo("gathering")
  /\ UNCHANGED <<route, task, answer, files, chan, ledger>>

(* Whatever became of the kill, communicate() is awaited. *)
Raise ==
  /\ run.pc = "gathering"
  /\ plugin.state = "closed"
  /\ StartUnlink("raised")
  /\ UNCHANGED <<route, task, bridge, answer, files, plugin, chan, ledger>>

(* /stop: the flag is set and the channel terminated if its process is     *)
(* known and can be: one that is being spawned is not known yet.           *)
AskToStop ==
  /\ run.pc \in Awaiting
  /\ ~run.cancelled
  /\ run' = [run EXCEPT !.cancelled = TRUE]
  /\ \/ /\ chan.state = "running"
        /\ chan' = [chan EXCEPT !.state = "failed"]
     \/ UNCHANGED chan
  /\ UNCHANGED <<route, task, bridge, answer, files, plugin, ledger>>

(* Once that is done, the tree of the plugin is killed.  The status of the *)
(* task stays as it is.                                                    *)
StopKills ==
  /\ run.pc \in Awaiting
  /\ run.cancelled
  /\ KillTree
  /\ UNCHANGED <<route, task, answer, files, run, chan, ledger>>

Stop == AskToStop \/ StopKills

(* Mutant: the claim is unlinked before the request and the response. *)
ClaimFirst ==
  [context |-> "claim", claim |-> "request", request |-> "response",
   response |-> "ended"]

(* The order in which the files are unlinked. *)
NextFile ==
  [context |-> "request", request |-> "response", response |-> "claim",
   claim |-> "ended"]

Without(name) ==
  CASE name = "context" -> [files EXCEPT !.context = FALSE]
    [] name = "request" -> [files EXCEPT !.request = Nobody]
    [] name = "response" -> [files EXCEPT !.response = NoResponse]
    [] name = "claim" -> [files EXCEPT !.claim = FALSE]

(* One unlink of the finally block; other processes move in between. *)
Unlink ==
  /\ run.pc = "unlink"
  /\ files' = Without(run.file)
  /\ run' = IF NextFile[run.file] = "ended" THEN [run EXCEPT !.pc = "ended"]
            ELSE [run EXCEPT !.file = NextFile[run.file]]
  /\ UNCHANGED <<route, task, bridge, answer, plugin, chan, ledger>>

-----------------------------------------------------------------------------
(* Another coroutine pauses or ends the task, or supersedes its attempt:   *)
(* only while the run awaits.                                              *)
TaskMoves ==
  /\ run.pc \in Awaiting
  /\ task = "RUNNING"
  /\ task' = "moved"
  /\ UNCHANGED <<route, bridge, answer, files, run, plugin, chan, ledger>>

(* The service dies.  Its children live on, the files stay. *)
Crash ==
  /\ run.pc \notin {"ended", "crashed"}
  /\ run' = [run EXCEPT !.pc = "crashed"]
  /\ UNCHANGED <<route, task, bridge, answer, files, plugin, chan, ledger>>

BridgeStep(b) ==
  Claim(b) \/ WritePending(b) \/ PublishRequest(b) \/ ReadResponse(b) \/ GiveUp(b)

ServiceStep ==
  \/ Dispatch \/ ChannelReturns \/ Book \/ PublishResponse \/ PollFindsExit
  \/ PollFindsStop \/ TimesOut \/ ChannelIsEnded \/ ChannelIsNotEnded
  \/ Abort \/ Raise \/ Unlink

ChannelStep == ChannelStarts \/ ChannelEnds

Next ==
  \/ \E b \in Bridges : Begin(b) \/ ReadRequest(b) \/ BridgeStep(b) \/ Die(b)
  \/ PluginExits \/ PipesClose \/ ServiceStep \/ ChannelStep
  \/ Stop \/ TaskMoves \/ Crash

Spec == Init /\ [][Next]_vars

(* A bridge that has its request works until a deadline of its own.        *)
(* Nothing is assumed of the plugin, which may keep the pipe open, of the  *)
(* channel, or of the service.                                             *)
FairSpec == Spec /\ \A b \in Bridges : WF_vars(BridgeStep(b))

-----------------------------------------------------------------------------
(* What must have been recorded of a response. *)
Due(success) == IF success THEN Kinds ELSE Kinds \ {"artifact"}
Booked == {k \in Kinds : ledger[k] # Nobody}

(* A bridge that prints a response prints the one to its own request,      *)
(* however many bridges race for the claim, die holding it, or come after  *)
(* the run has begun to unlink its files.                                  *)
AnswerIsForItsAsker ==
  \A b \in Bridges : answer[b] # NoResponse => answer[b].to = b

(* The poll loop calls the channel at most once in a run: with the file    *)
(* left in place, bridges that retry and a plugin that asks again.         *)
ChannelIsCalledOnce == run.calls <= 1

(* Whoever can see a response, can also rely on its cost, its learning     *)
(* event, its audit event and, for a success, its artifact: no crash and   *)
(* no failed record lets the plugin act on a response that is not booked.  *)
ResponseIsBooked ==
  \A r \in {files.response} \cup {answer[b] : b \in Bridges} :
    r # NoResponse => Booked = Due(r.success)

(* A run that returns COMPLETED made one channel call, which succeeded,    *)
(* and every record of it.                                                 *)
CompletionIsBooked ==
  run.result = "COMPLETED" =>
    run.calls = 1 /\ run.response.success /\ Booked = Kinds

(* The channel may finish long after its task was paused or ended, or its  *)
(* attempt superseded: nothing of it is recorded then.  A /stop alone does *)
(* not move the task: the response of a channel that it killed, or missed, *)
(* is booked like any other.                                               *)
MovedTaskIsNotBooked == [][ledger' # ledger => task = "RUNNING"]_vars

(* A bridge that has read its request does not wait for ever: also when    *)
(* the service has crashed, the plugin hangs, or the claim belongs to a    *)
(* bridge that died.                                                       *)
EveryBridgeEnds == \A b \in Bridges : Asking(b) ~> ~Asking(b)

(* What core/channel_execution_service.py says of itself: it executes only *)
(* the channel assigned to the current fenced attempt.                     *)
OnlyTheAssignedChannel == chan.id \in {Nobody, route.assigned}

=============================================================================
