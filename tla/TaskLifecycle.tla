--------------------------- MODULE TaskLifecycle ----------------------------
(***************************************************************************)
(* What the task core promises to everyone who reads the database: a task  *)
(* and its current attempt move only along the lifecycle table, a final    *)
(* status is never left, and a new attempt always supersedes the previous  *)
(* one with the next generation.  There are no callers, reads, locks or    *)
(* processes here: TaskService and ProcessExecution are each shown to      *)
(* implement this specification.                                           *)
(***************************************************************************)
EXTENDS TaskStateMachine, Naturals

CONSTANT Tasks

VARIABLES
  status,         \* the status of each task
  generation,     \* the generation of its current attempt, 0 before the first
  attemptStatus   \* the status of its current attempt

vars == <<status, generation, attemptStatus>>

Init ==
  /\ status = [t \in Tasks |-> Absent]
  /\ generation = [t \in Tasks |-> 0]
  /\ attemptStatus = [t \in Tasks |-> Absent]

Create(t) ==
  /\ status[t] = Absent
  /\ status' = [status EXCEPT ![t] = "CREATED"]
  /\ UNCHANGED <<generation, attemptStatus>>

Move(t) ==
  /\ \E s \in Allowed(status[t]) : status' = [status EXCEPT ![t] = s]
  /\ UNCHANGED <<generation, attemptStatus>>

Supersede(t) ==
  /\ status[t] # Absent
  /\ generation' = [generation EXCEPT ![t] = @ + 1]
  /\ attemptStatus' = [attemptStatus EXCEPT ![t] = "ASSIGNED"]
  /\ UNCHANGED status

MoveAttempt(t) ==
  /\ \E s \in Allowed(attemptStatus[t]) :
        attemptStatus' = [attemptStatus EXCEPT ![t] = s]
  /\ UNCHANGED <<status, generation>>

Next ==
  \E t \in Tasks : Create(t) \/ Move(t) \/ Supersede(t) \/ MoveAttempt(t)

Spec == Init /\ [][Next]_vars

=============================================================================
