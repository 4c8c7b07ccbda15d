---------------------------- MODULE TaskService -----------------------------
(***************************************************************************)
(* The task core: TaskService (core/task_service.py) over the task,        *)
(* attempt and approval tables and the append-only task_events table       *)
(* (state/repositories.py).                                                *)
(*                                                                         *)
(* A repository method is one SQLite transaction, hence one action.  A     *)
(* service method first reads the rows and applies the policy to what it   *)
(* read, and then calls the repository; other callers (threads or          *)
(* processes that share the database file) may write in between.  So a     *)
(* service call is two actions: Begin... records what was read, and the    *)
(* transaction re-checks it, or the call ends with StateConflictError.     *)
(*                                                                         *)
(* validate_fence reads the task row and then the attempt row.  Both are   *)
(* read in Begin...: the transaction tests current_attempt_id, generation  *)
(* and status again, so a change between the two reads makes it fail       *)
(* exactly as a change just after them does.                               *)
(*                                                                         *)
(* attempt_no and generation are both MAX + 1 over the same rows and are   *)
(* inserted together, so one field stands for the two.  Timestamps,        *)
(* worker and channel ids and failure texts are left out.                  *)
(***************************************************************************)
EXTENDS TaskStateMachine, Naturals, Sequences, FiniteSets

CONSTANTS
  Tasks, Attempts, Approvals,  \* the ids rows can be inserted under
  Callers,                     \* concurrent users of the database
  Targets,                     \* the statuses callers ask for
  None,                        \* SQL NULL, Python None
  MaxGeneration,               \* bound: attempts per task
  MaxEvents                    \* bound: audit events per task

ASSUME NoneIsNoId == None \notin Tasks \cup Attempts \cup Approvals
ASSUME IdsAreDistinct ==
  /\ Tasks \cap Attempts = {}
  /\ Tasks \cap Approvals = {}
  /\ Attempts \cap Approvals = {}
ASSUME TargetsAreStatuses == Targets \subseteq Status
ASSUME BoundsAreNaturals == MaxGeneration \in Nat /\ MaxEvents \in Nat

VARIABLES
  tasks,      \* table tasks: [status, current], current is current_attempt_id
  attempts,   \* table execution_attempts: [task, generation, status]
  approvals,  \* table approvals: [task, status]
  events,     \* table task_events: one sequence of [subject, from, to] per task
  call        \* what each caller has read and is about to write

db == <<tasks, attempts, approvals, events>>
vars == <<tasks, attempts, approvals, events, call>>

ApprovalStatus == {"PENDING", "APPROVED", "DENIED"}

Subjects == Tasks \cup Attempts \cup Approvals

Event == [subject : Subjects,
          from : StatusOrAbsent \cup ApprovalStatus,
          to : Status \cup ApprovalStatus]

(* A pending service call: the row it targets, the status it read and the  *)
(* one it will write, and the fencing token it was given.                  *)
Call == [op : {"idle", "moveTask", "newAttempt", "moveAttempt", "decide"},
         task : Tasks \cup {None},
         attempt : Attempts \cup {None},
         approval : Approvals \cup {None},
         generation : Nat,
         expected : StatusOrAbsent,
         target : StatusOrAbsent \cup ApprovalStatus]

Request(op, t, a, p, g, expected, target) ==
  [op |-> op, task |-> t, attempt |-> a, approval |-> p, generation |-> g,
   expected |-> expected, target |-> target]

Idle == Request("idle", None, None, None, 0, Absent, Absent)

Init ==
  /\ tasks = [t \in Tasks |-> [status |-> Absent, current |-> None]]
  /\ attempts = [a \in Attempts |->
                   [task |-> None, generation |-> 0, status |-> Absent]]
  /\ approvals = [p \in Approvals |-> [task |-> None, status |-> "PENDING"]]
  /\ events = [t \in Tasks |-> << >>]
  /\ call = [c \in Callers |-> Idle]

-----------------------------------------------------------------------------
AttemptsOf(t) == {a \in Attempts : attempts[a].task = t}

(* a/g is the current fencing token of task t. *)
Fenced(t, a, g) ==
  /\ tasks[t].current = a
  /\ a \in AttemptsOf(t)
  /\ attempts[a].generation = g

(* Mutant: the supplied generation is only required to be newer. *)
AnyNewerGeneration(t, g) == \A a \in AttemptsOf(t) : attempts[a].generation < g

(* g is COALESCE(MAX(generation), 0) + 1 over the attempts of t. *)
IsNextGeneration(t, g) ==
  /\ \A a \in AttemptsOf(t) : attempts[a].generation < g
  /\ g = 1 \/ \E a \in AttemptsOf(t) : attempts[a].generation + 1 = g

Entry(subject, from, to) == [subject |-> subject, from |-> from, to |-> to]

(* _append_event, in the transaction that makes the change. *)
Log(t, entry) ==
  /\ Len(events[t]) < MaxEvents
  /\ events' = [events EXCEPT ![t] = Append(@, entry)]

LogBoth(t, first, second) ==
  /\ Len(events[t]) + 1 < MaxEvents
  /\ events' = [events EXCEPT ![t] = Append(Append(@, first), second)]

Begin(c, request) ==
  /\ call[c] = Idle
  /\ call' = [call EXCEPT ![c] = request]
  /\ UNCHANGED db

Return(c) == call' = [call EXCEPT ![c] = Idle]

-----------------------------------------------------------------------------
(* create_task.  A second insert under the same id is DuplicateRecordError. *)
CreateTask(t) ==
  /\ tasks[t].status = Absent
  /\ tasks' = [tasks EXCEPT ![t].status = "CREATED"]
  /\ Log(t, Entry(t, Absent, "CREATED"))
  /\ UNCHANGED <<attempts, approvals, call>>

(* transition_task up to the repository call; without a token a = None. *)
BeginMoveTask(c, t, a, g, target) ==
  /\ CanMove(tasks[t].status, target)
  /\ (a = None /\ g = 0) \/ Fenced(t, a, g)
  /\ Begin(c, Request("moveTask", t, a, None, g, tasks[t].status, target))

(* Mutant: the UPDATE lost its "AND status = ?". *)
MoveTaskUnconditionally(c) ==
  LET r == call[c] IN
  /\ r.op = "moveTask"
  /\ tasks' = [tasks EXCEPT ![r.task].status = r.target]
  /\ Log(r.task, Entry(r.task, r.expected, r.target))
  /\ Return(c)
  /\ UNCHANGED <<attempts, approvals>>

(* TaskRepository.transition: the compare-and-set on status and token. *)
MoveTask(c) ==
  LET r == call[c] IN
  /\ r.op = "moveTask"
  /\ tasks[r.task].status = r.expected
  /\ r.attempt = None \/ Fenced(r.task, r.attempt, r.generation)
  /\ tasks' = [tasks EXCEPT ![r.task].status = r.target]
  /\ Log(r.task, Entry(r.task, r.expected, r.target))
  /\ Return(c)
  /\ UNCHANGED <<attempts, approvals>>

(* create_attempt up to the repository call; g = 0 when none is supplied. *)
BeginNewAttempt(c, t, a, g) ==
  /\ tasks[t].status \notin Terminal \cup {Absent}
  /\ Begin(c, Request("newAttempt", t, a, None, g, Absent, Absent))

(* TaskRepository.create_attempt, under BEGIN IMMEDIATE. *)
NewAttempt(c) ==
  LET r == call[c] IN
  /\ r.op = "newAttempt"
  /\ attempts[r.attempt].task = None
  /\ \E g \in 1..MaxGeneration :
       /\ IsNextGeneration(r.task, g)
       /\ r.generation \in {0, g}
       /\ attempts' = [attempts EXCEPT ![r.attempt] =
            [task |-> r.task, generation |-> g, status |-> "ASSIGNED"]]
  /\ tasks' = [tasks EXCEPT ![r.task].current = r.attempt]
  /\ Log(r.task, Entry(r.attempt, Absent, "ASSIGNED"))
  /\ Return(c)
  /\ UNCHANGED approvals

(* Mutant: the move is not checked against the lifecycle table. *)
BeginMoveAttemptUnvalidated(c, t, a, g, target) ==
  /\ Fenced(t, a, g)
  /\ Begin(c, Request("moveAttempt", t, a, None, g, attempts[a].status, target))

(* transition_attempt up to the repository call. *)
BeginMoveAttempt(c, t, a, g, target) ==
  /\ Fenced(t, a, g)
  /\ CanMove(attempts[a].status, target)
  /\ Begin(c, Request("moveAttempt", t, a, None, g, attempts[a].status, target))

(* Mutant: the UPDATE lost its EXISTS on tasks.current_attempt_id. *)
MoveAttemptUnfenced(c) ==
  LET r == call[c] IN
  /\ r.op = "moveAttempt"
  /\ attempts[r.attempt].status = r.expected
  /\ attempts' = [attempts EXCEPT ![r.attempt].status = r.target]
  /\ Log(r.task, Entry(r.attempt, r.expected, r.target))
  /\ Return(c)
  /\ UNCHANGED <<tasks, approvals>>

(* TaskRepository.transition_attempt: only the current attempt is written. *)
MoveAttempt(c) ==
  LET r == call[c] IN
  /\ r.op = "moveAttempt"
  /\ Fenced(r.task, r.attempt, r.generation)
  /\ attempts[r.attempt].status = r.expected
  /\ attempts' = [attempts EXCEPT ![r.attempt].status = r.target]
  /\ Log(r.task, Entry(r.attempt, r.expected, r.target))
  /\ Return(c)
  /\ UNCHANGED <<tasks, approvals>>

-----------------------------------------------------------------------------
(* Mutant: the move to WAITING_APPROVAL leaves no event. *)
RequestAndWaitUnlogged(t, p) ==
  /\ approvals[p].task = None
  /\ tasks[t].status = "RUNNING"
  /\ approvals' = [approvals EXCEPT ![p] = [task |-> t, status |-> "PENDING"]]
  /\ tasks' = [tasks EXCEPT ![t].status = "WAITING_APPROVAL"]
  /\ Log(t, Entry(p, Absent, "PENDING"))
  /\ UNCHANGED <<attempts, call>>

(* ApprovalRepository.request_and_wait.  Its SELECT runs before the insert *)
(* opens the transaction, but the UPDATE tests RUNNING again and rolls     *)
(* back, so the whole call takes effect in one step.                       *)
RequestAndWait(t, p) ==
  /\ approvals[p].task = None
  /\ tasks[t].status = "RUNNING"
  /\ approvals' = [approvals EXCEPT ![p] = [task |-> t, status |-> "PENDING"]]
  /\ tasks' = [tasks EXCEPT ![t].status = "WAITING_APPROVAL"]
  /\ LogBoth(t, Entry(p, Absent, "PENDING"),
                 Entry(t, "RUNNING", "WAITING_APPROVAL"))
  /\ UNCHANGED <<attempts, call>>

(* ApprovalRepository.decide up to its first write: the SELECT is outside  *)
(* the transaction, which sqlite3 opens at the UPDATE.                     *)
BeginDecide(c, p, verdict) ==
  /\ approvals[p].task # None
  /\ approvals[p].status = "PENDING"
  /\ Begin(c, Request("decide", approvals[p].task, None, p, 0, Absent, verdict))

(* Mutant: the UPDATE names the task, so it closes every pending approval  *)
(* of it, and the task is moved only if the decided one was still pending. *)
DecideEveryPending(c) ==
  LET r == call[c]
      target == IF r.target = "APPROVED" THEN "RUNNING" ELSE "FAILED"
      decision == Entry(r.approval, "PENDING", r.target)
  IN
  /\ r.op = "decide"
  /\ approvals' = [p \in Approvals |->
       IF approvals[p].task = r.task /\ approvals[p].status = "PENDING"
       THEN [approvals[p] EXCEPT !.status = r.target] ELSE approvals[p]]
  /\ \/ /\ tasks[r.task].status = "WAITING_APPROVAL"
        /\ approvals[r.approval].status = "PENDING"
        /\ tasks' = [tasks EXCEPT ![r.task].status = target]
        /\ LogBoth(r.task, Entry(r.task, "WAITING_APPROVAL", target), decision)
     \/ /\ \/ tasks[r.task].status # "WAITING_APPROVAL"
           \/ approvals[r.approval].status # "PENDING"
        /\ Log(r.task, decision)
        /\ UNCHANGED tasks
  /\ Return(c)
  /\ UNCHANGED attempts

(* The rest of decide.  The UPDATE of the approval is conditional on       *)
(* PENDING but its row count is not looked at; the task is moved if it is  *)
(* WAITING_APPROVAL, for whichever approval; the event is always appended. *)
Decide(c) ==
  LET r == call[c]
      target == IF r.target = "APPROVED" THEN "RUNNING" ELSE "FAILED"
      decision == Entry(r.approval, "PENDING", r.target)
  IN
  /\ r.op = "decide"
  /\ approvals' = [approvals EXCEPT ![r.approval].status =
                     IF @ = "PENDING" THEN r.target ELSE @]
  /\ \/ /\ tasks[r.task].status = "WAITING_APPROVAL"
        /\ tasks' = [tasks EXCEPT ![r.task].status = target]
        /\ LogBoth(r.task, Entry(r.task, "WAITING_APPROVAL", target), decision)
     \/ /\ tasks[r.task].status # "WAITING_APPROVAL"
        /\ Log(r.task, decision)
        /\ UNCHANGED tasks
  /\ Return(c)
  /\ UNCHANGED attempts

-----------------------------------------------------------------------------
(* The call ends without writing: StateConflictError, DuplicateRecordError *)
(* or InvalidGenerationError from the repository, or the caller died after *)
(* its read.  Whatever it had written in the transaction is rolled back.   *)
Abort(c) ==
  /\ call[c] # Idle
  /\ Return(c)
  /\ UNCHANGED db

CallerStep(c) ==
  \/ \E t \in Tasks, a \in Attempts \cup {None}, g \in 0..MaxGeneration,
        target \in Targets : BeginMoveTask(c, t, a, g, target)
  \/ \E t \in Tasks, a \in Attempts, g \in 0..MaxGeneration :
        BeginNewAttempt(c, t, a, g)
  \/ \E t \in Tasks, a \in Attempts, g \in 1..MaxGeneration,
        target \in Targets : BeginMoveAttempt(c, t, a, g, target)
  \/ \E p \in Approvals, verdict \in {"APPROVED", "DENIED"} :
        BeginDecide(c, p, verdict)
  \/ MoveTask(c)
  \/ NewAttempt(c)
  \/ MoveAttempt(c)
  \/ Decide(c)
  \/ Abort(c)

Next ==
  \/ \E t \in Tasks : CreateTask(t)
  \/ \E t \in Tasks, p \in Approvals : RequestAndWait(t, p)
  \/ \E c \in Callers : CallerStep(c)

Spec == Init /\ [][Next]_vars

-----------------------------------------------------------------------------
(* Every row and every pending call has the shape its table or method gives. *)
TypeOK ==
  /\ tasks \in [Tasks -> [status : StatusOrAbsent, current : Attempts \cup {None}]]
  /\ attempts \in [Attempts -> [task : Tasks \cup {None}, generation : Nat,
                                status : StatusOrAbsent]]
  /\ approvals \in [Approvals -> [task : Tasks \cup {None},
                                  status : ApprovalStatus]]
  /\ events \in [Tasks -> Seq(Event)]
  /\ call \in [Callers -> Call]

(* The generations of a task's attempts are exactly 1..n, each used once,  *)
(* and current_attempt_id is the attempt that holds n: the fence always    *)
(* favours the newest attempt, however create_attempt calls interleave.    *)
GenerationsAreDense ==
  \A t \in Tasks :
    /\ \A a, b \in AttemptsOf(t) :
         attempts[a].generation = attempts[b].generation => a = b
    /\ \A a \in AttemptsOf(t) :
         /\ attempts[a].generation >= 1
         /\ attempts[a].generation > 1 =>
              \E b \in AttemptsOf(t) :
                 attempts[b].generation + 1 = attempts[a].generation
         /\ tasks[t].current \in AttemptsOf(t)
         /\ attempts[a].generation <= attempts[tasks[t].current].generation
    /\ tasks[t].current # None => tasks[t].current \in AttemptsOf(t)

(* The status the audit trail of task t gives subject x after n events. *)
LastOf(t, x, n, s) ==
  \/ /\ s = Absent
     /\ \A i \in 1..n : events[t][i].subject # x
  \/ \E i \in 1..n :
       /\ events[t][i].subject = x
       /\ events[t][i].to = s
       /\ \A j \in (i + 1)..n : events[t][j].subject # x

(* The audit trail is complete and consistent: replaying the events of a   *)
(* task yields the present status of the task and of each of its attempts, *)
(* every event starts where the previous one about the same row ended, and *)
(* every recorded change is one the lifecycle table permits.  No write,    *)
(* from any interleaving of calls, escapes the trail or is recorded twice. *)
AuditTrailReplays ==
  \A t \in Tasks :
    /\ LastOf(t, t, Len(events[t]), tasks[t].status)
    /\ \A a \in AttemptsOf(t) : LastOf(t, a, Len(events[t]), attempts[a].status)
    /\ \A i \in DOMAIN events[t] :
         LET e == events[t][i] IN
         e.subject \in Tasks \cup Attempts =>
           /\ LastOf(t, e.subject, i - 1, e.from)
           /\ e.from = Absent \/ CanMove(e.from, e.to)

(* A superseded attempt is frozen: whoever still holds its token, and      *)
(* however early that token was validated, can no longer change its row.   *)
StaleAttemptsAreFrozen ==
  [][\A a \in Attempts :
       attempts[a].task # None =>
         \/ tasks[attempts[a].task].current = a
         \/ attempts'[a] = attempts[a]]_vars

(* A final status is never left, by a task, an attempt or an approval,     *)
(* although each writer decided on a status it read earlier.               *)
FinalStatusIsKept ==
  [][/\ \A t \in Tasks : tasks[t].status \in Terminal =>
          tasks'[t].status = tasks[t].status
     /\ \A a \in Attempts : attempts[a].status \in Terminal =>
          attempts'[a].status = attempts[a].status
     /\ \A p \in Approvals : approvals[p].status # "PENDING" =>
          approvals'[p].status = approvals[p].status]_vars

(* A task that waits for an approval has one that can still be decided,    *)
(* although decide ends the wait whichever approval it is about: a second  *)
(* decision of an older approval, read before that one was decided, may    *)
(* end the wait for a newer one, and leaves no wait without an approval.   *)
(* (No caller asks for WAITING_APPROVAL itself.)                           *)
WaitingHasPendingApproval ==
  \A t \in Tasks : tasks[t].status = "WAITING_APPROVAL" =>
    \E p \in Approvals : approvals[p].task = t /\ approvals[p].status = "PENDING"

(* The generation and status of a task's current attempt. *)
CurrentGeneration ==
  [t \in Tasks |-> IF tasks[t].current = None THEN 0
                   ELSE attempts[tasks[t].current].generation]
CurrentAttemptStatus ==
  [t \in Tasks |-> IF tasks[t].current = None THEN Absent
                   ELSE attempts[tasks[t].current].status]

Lifecycle == INSTANCE TaskLifecycle WITH
  status <- [t \in Tasks |-> tasks[t].status],
  generation <- CurrentGeneration,
  attemptStatus <- CurrentAttemptStatus

(* The tables, under every interleaving of service calls, implement the    *)
(* task lifecycle: seen through its current attempt, a task only makes the *)
(* moves of the table, and superseding takes the next generation.          *)
ImplementsLifecycle == Lifecycle!Spec

(* "Approval is already decided": the audit trail of a task records one    *)
(* decision for each approval (state/repositories.py:931-932).             *)
DecidedOnce ==
  \A t \in Tasks : \A i, j \in DOMAIN events[t] :
    /\ events[t][i].subject \in Approvals
    /\ events[t][i].subject = events[t][j].subject
    /\ events[t][i].from = "PENDING" /\ events[t][j].from = "PENDING"
    => i = j

=============================================================================
