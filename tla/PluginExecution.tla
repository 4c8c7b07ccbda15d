--------------------------- MODULE PluginExecution ---------------------------
(***************************************************************************)
(* Plugins that run inside the service (core/plugin_execution_service.py)  *)
(* and the registry that they are resolved from (plugins/registry.py):     *)
(* several calls of execute() for one task that has been created.          *)
(*                                                                         *)
(* The flow is single-process: the calls are coroutines of one event loop, *)
(* and one goes on only while all others await their adapter.  Every event *)
(* and every artifact, and every change of status with its event, is a     *)
(* transaction of its own, and a call may be lost between two of them.     *)
(***************************************************************************)
EXTENDS TaskStateMachine, Naturals, Sequences, FiniteSets

CONSTANTS
  Calls,       \* the calls of execute() for the task
  MaxOutputs   \* bound: the outputs of a result

ASSUME OutputsAreNatural == MaxOutputs \in Nat

VARIABLES
  registry,   \* what is registered for the plugin of the task
  task,       \* the status of the task
  log,        \* its events about the plugin and its artifacts, in order
  call        \* where each call stands

vars == <<registry, task, log, call>>

Event(type, by) == [type |-> type, by |-> by]

(* A result as the service reads it: it satisfies schema, version, task    *)
(* and learning fields or not, names a status and lists outputs.           *)
Result == [contract : BOOLEAN, status : Status, outputs : 0..MaxOutputs]
NoResult == [contract |-> FALSE, status |-> "CREATED", outputs |-> 0]

Awaiting == {"health", "plugin"}
Over == {"idle", "returned", "raised", "lost"}
Stretch == {"check", "QUEUED", "ASSIGNED", "RUNNING", "started", "validate",
            "outputs", "accepted", "finish", "reject", "rejected"}

Kinds == {"PLUGIN_EXECUTION_STARTED", "ARTIFACT_REGISTERED",
          "PLUGIN_RESULT_ACCEPTED", "PLUGIN_RESULT_REJECTED",
          "PLUGIN_EXECUTION_FAILED"}
Entry == [type : Kinds, by : Calls]

CallState ==
  [pc : Awaiting \cup Over \cup Stretch, result : Result, left : 0..MaxOutputs,
   event : {"PLUGIN_RESULT_REJECTED", "PLUGIN_EXECUTION_FAILED"}]

TypeOK ==
  /\ registry \in {"none", "other", "accepts"}
  /\ task \in Status
  /\ log \in Seq(Entry)
  /\ call \in [Calls -> CallState]

Init ==
  /\ registry = "none"
  /\ task = "CREATED"
  /\ log = << >>
  /\ call = [c \in Calls |-> [pc |-> "idle", result |-> NoResult, left |-> 0,
                              event |-> "PLUGIN_EXECUTION_FAILED"]]

-----------------------------------------------------------------------------
(* A plugin is registered once; its manifest may accept other types only.  *)
Register ==
  /\ registry = "none"
  /\ registry' \in {"other", "accepts"}
  /\ UNCHANGED <<task, log, call>>

(* Mutant: a rejection awaits between its record and its move. *)
AloneOrRejecting(c) ==
  \A d \in Calls \ {c} : call[d].pc \in Awaiting \cup Over \cup {"rejected"}

(* The others all await, so the loop is free for c. *)
Alone(c) == \A d \in Calls \ {c} : call[d].pc \in Awaiting \cup Over

At(c, pc) == call[c].pc = pc /\ Alone(c)
To(c, pc) == call' = [call EXCEPT ![c].pc = pc]
Record(type, c) == log' = Append(log, Event(type, c))

(* execute() is called and resolves its plugin, or raises at once. *)
Call(c) ==
  /\ At(c, "idle")
  /\ To(c, IF registry = "accepts" THEN "health" ELSE "raised")
  /\ UNCHANGED <<registry, task, log>>

(* _reject reads the task: a task that has ended is left as it is. *)
Reject(c, reason) ==
  call' = [call EXCEPT ![c].pc = IF task \in Terminal THEN "raised" ELSE "reject",
                       ![c].event = reason]

RecordRejection(c) ==
  /\ At(c, "reject")
  /\ Record(call[c].event, c)
  /\ To(c, "rejected")
  /\ UNCHANGED <<registry, task>>

FailTask(c) ==
  /\ At(c, "rejected")
  /\ CanMove(task, "FAILED")
  /\ task' = "FAILED"
  /\ To(c, "raised")
  /\ UNCHANGED <<registry, log>>

(* The health check answers, says no, or raises. *)
HealthAnswers(c) ==
  /\ At(c, "health")
  /\ To(c, "check") \/ Reject(c, "PLUGIN_EXECUTION_FAILED")
  /\ UNCHANGED <<registry, task, log>>

(* Mutant: a task that an earlier call has left RUNNING is run again. *)
CheckCreatedOrLeft(c) ==
  /\ At(c, "check")
  /\ To(c, CASE task = "CREATED" -> "QUEUED"
              [] task = "RUNNING" /\ (\A d \in Calls : call[d].pc # "plugin") -> "started"
              [] OTHER -> "raised")
  /\ UNCHANGED <<registry, task, log>>

(* _start: the status is read again after the health check. *)
CheckCreated(c) ==
  /\ At(c, "check")
  /\ To(c, IF task = "CREATED" THEN "QUEUED" ELSE "raised")
  /\ UNCHANGED <<registry, task, log>>

(* What follows the three moves of _start. *)
AfterMove == [QUEUED |-> "ASSIGNED", ASSIGNED |-> "RUNNING", RUNNING |-> "started"]

(* One of the moves.  None is refused: no other call moves in between. *)
Move(c) ==
  /\ call[c].pc \in DOMAIN AfterMove /\ Alone(c)
  /\ LET target == call[c].pc IN
     /\ CanMove(task, target)
     /\ task' = target
     /\ To(c, AfterMove[target])
  /\ UNCHANGED <<registry, log>>

RecordStart(c) ==
  /\ At(c, "started")
  /\ Record("PLUGIN_EXECUTION_STARTED", c)
  /\ To(c, "plugin")
  /\ UNCHANGED <<registry, task>>

(* The plugin returns something, or raises. *)
PluginAnswers(c) ==
  /\ At(c, "plugin")
  /\ \/ \E r \in Result :
          call' = [call EXCEPT ![c].pc = "validate", ![c].result = r]
     \/ Reject(c, "PLUGIN_EXECUTION_FAILED")
  /\ UNCHANGED <<registry, task, log>>

(* Mutant: the status need not be one that ends a task. *)
ValidAnyStatus(r) == r.contract

Valid(r) == r.contract /\ r.status \in Terminal

Validate(c) ==
  /\ At(c, "validate")
  /\ IF Valid(call[c].result)
     THEN call' = [call EXCEPT ![c].pc = "outputs",
                               ![c].left = call[c].result.outputs]
     ELSE Reject(c, "PLUGIN_RESULT_REJECTED")
  /\ UNCHANGED <<registry, task, log>>

(* Mutant: the last output is forgotten. *)
RegisterAllButLast(c) ==
  /\ At(c, "outputs")
  /\ \/ /\ call[c].left > 1
        /\ Record("ARTIFACT_REGISTERED", c)
        /\ call' = [call EXCEPT ![c].left = @ - 1]
     \/ call[c].left <= 1 /\ To(c, "accepted") /\ UNCHANGED log
  /\ UNCHANGED <<registry, task>>

(* One output after the other is registered. *)
RegisterOutput(c) ==
  /\ At(c, "outputs")
  /\ \/ /\ call[c].left > 0
        /\ Record("ARTIFACT_REGISTERED", c)
        /\ call' = [call EXCEPT ![c].left = @ - 1]
     \/ call[c].left = 0 /\ To(c, "accepted") /\ UNCHANGED log
  /\ UNCHANGED <<registry, task>>

RecordAcceptance(c) ==
  /\ At(c, "accepted")
  /\ Record("PLUGIN_RESULT_ACCEPTED", c)
  /\ To(c, "finish")
  /\ UNCHANGED <<registry, task>>

(* The task takes the status of the result, or it has been ended already,  *)
(* by the failing health check of another call: the move is refused.       *)
Finish(c) ==
  /\ At(c, "finish")
  /\ \/ /\ CanMove(task, call[c].result.status)
        /\ task' = call[c].result.status
        /\ To(c, "returned")
     \/ /\ ~CanMove(task, call[c].result.status)
        /\ To(c, "raised")
        /\ UNCHANGED task
  /\ UNCHANGED <<registry, log>>

(* A transaction fails, the coroutine is cancelled, or the process dies. *)
Lose(c) ==
  /\ call[c].pc \notin Over
  /\ To(c, "lost")
  /\ UNCHANGED <<registry, task, log>>

(* What a call does without waiting for its adapter. *)
GoesOn(c) ==
  \/ RecordRejection(c) \/ FailTask(c) \/ CheckCreated(c) \/ Move(c)
  \/ RecordStart(c) \/ Validate(c) \/ RegisterOutput(c)
  \/ RecordAcceptance(c) \/ Finish(c)

Next ==
  \/ Register
  \/ \E c \in Calls :
       Call(c) \/ HealthAnswers(c) \/ PluginAnswers(c) \/ GoesOn(c) \/ Lose(c)

Spec == Init /\ [][Next]_vars

(* The event loop goes on with what it has begun.  Nothing is assumed of   *)
(* the adapters: execute() sets them no time limit.                        *)
FairSpec == Spec /\ \A c \in Calls : WF_vars(GoesOn(c))

-----------------------------------------------------------------------------
Logged(type) == {i \in DOMAIN log : log[i].type = type}

(* However many calls there are, whichever is lost, and whatever the       *)
(* health checks have let in between: one call starts the plugin.          *)
PluginRunsOnce ==
  \A i, j \in Logged("PLUGIN_EXECUTION_STARTED") : i = j

LoggedBy(c, type) == {i \in Logged(type) : log[i].by = c}

(* A call has so many starts, outputs and acceptances on record, in this   *)
(* order, and nothing else.                                                *)
HasOnRecord(c, starts, outputs, acceptances) ==
  LET start == LoggedBy(c, "PLUGIN_EXECUTION_STARTED")
      output == LoggedBy(c, "ARTIFACT_REGISTERED")
      acceptance == LoggedBy(c, "PLUGIN_RESULT_ACCEPTED")
  IN /\ Cardinality(start) = starts
     /\ Cardinality(output) = outputs
     /\ Cardinality(acceptance) = acceptances
     /\ {i \in DOMAIN log : log[i].by = c} = start \cup output \cup acceptance
     /\ \A i \in start, j \in output \cup acceptance : i < j
     /\ \A i \in output, j \in acceptance : i < j

(* A completed task has the start, every output of the result and its      *)
(* acceptance on record, in this order and of one call, whose result says  *)
(* COMPLETED and satisfies the contract.                                   *)
CompletionIsBacked ==
  task = "COMPLETED" =>
    \E c \in Calls, n \in 0..MaxOutputs :
      /\ call[c].result = [contract |-> TRUE, status |-> "COMPLETED", outputs |-> n]
      /\ HasOnRecord(c, 1, n, 1)

(* A task with a rejected result on record never becomes COMPLETED.  Nor   *)
(* does one with a failed health check of another call on record, although *)
(* the record and the move to FAILED are two transactions, unless that     *)
(* call is lost between the two.                                           *)
FailureOnRecordIsFinal ==
  [][task' = "COMPLETED" =>
       /\ Logged("PLUGIN_RESULT_REJECTED") = {}
       /\ \A i \in Logged("PLUGIN_EXECUTION_FAILED") :
            call[log[i].by].pc = "lost"]_vars

(* A plugin's answer ends the task, unless the call is lost: accepted,     *)
(* rejected, or in vain because the task has ended meanwhile.              *)
AnswerEndsTheTask ==
  \A c \in Calls :
    call[c].pc = "validate" ~> task \in Terminal \/ call[c].pc = "lost"

=============================================================================
