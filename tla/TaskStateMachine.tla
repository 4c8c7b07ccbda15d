-------------------------- MODULE TaskStateMachine --------------------------
(***************************************************************************)
(* The lifecycle policy of core/state_machine.py: the statuses a task or   *)
(* an execution attempt can hold, which of them are final, and the moves   *)
(* the policy permits.  Tasks and attempts share one table.                *)
(***************************************************************************)

(* The members of the TaskStatus enumeration. *)
Status ==
  {"CREATED", "QUEUED", "ASSIGNED", "RUNNING", "WAITING_APPROVAL", "PAUSED",
   "RETRYING", "FAILOVER_PENDING", "COMPLETED", "FAILED", "CANCELLED"}

(* The status of a row that has not been inserted yet. *)
Absent == "ABSENT"

StatusOrAbsent == Status \cup {Absent}

Terminal == {"COMPLETED", "FAILED", "CANCELLED"}

(* ALLOWED_TASK_TRANSITIONS: the statuses reachable from s in one move. *)
Allowed(s) ==
  CASE s = "CREATED"  -> {"QUEUED", "FAILED", "CANCELLED"}
    [] s = "QUEUED"   -> {"ASSIGNED", "PAUSED", "FAILED", "CANCELLED"}
    [] s = "ASSIGNED" -> {"RUNNING", "PAUSED", "RETRYING", "FAILOVER_PENDING",
                          "FAILED", "CANCELLED"}
    [] s = "RUNNING"  -> {"WAITING_APPROVAL", "PAUSED", "RETRYING",
                          "FAILOVER_PENDING", "COMPLETED", "FAILED", "CANCELLED"}
    [] s = "WAITING_APPROVAL" -> {"RUNNING", "PAUSED", "FAILED", "CANCELLED"}
    [] s = "PAUSED"   -> {"QUEUED", "ASSIGNED", "RUNNING", "FAILED", "CANCELLED"}
    [] s = "RETRYING" -> {"ASSIGNED", "RUNNING", "FAILOVER_PENDING", "FAILED",
                          "CANCELLED"}
    [] s = "FAILOVER_PENDING" -> {"ASSIGNED", "RETRYING", "FAILED", "CANCELLED"}
    [] OTHER -> {}

(* validate_task_transition accepts the move; a no-op move is refused. *)
CanMove(from, to) == to \in Allowed(from)

=============================================================================
