------------------------------- MODULE Budget -------------------------------
(***************************************************************************)
(* BudgetEngine (core/budget_engine.py) over the cost_events and approvals *)
(* tables: paid API calls are authorised against the cost recorded so far  *)
(* of their task, of the day and of the month.                             *)
(*                                                                         *)
(* authorize reads the task, the clock and then three sums, each with a    *)
(* connection of its own, and decides on what it read; the cost is only    *)
(* recorded after the call.  So each read is an action, and other callers  *)
(* may record or ask in between.  What a caller does with the decision is  *)
(* not in the repository ("Paid API execution itself is not implemented",  *)
(* README.md): a caller is taken to pay only what was allowed or approved, *)
(* at most the cost it announced, and to record it or to fail.             *)
(*                                                                         *)
(* Money is counted in units.  Zero-cost channels, which are only logged,  *)
(* and the texts of approvals and events are left out.                     *)
(***************************************************************************)
EXTENDS TaskStateMachine, Naturals, FiniteSets, Functions

CONSTANTS
  Tasks, Approvals, Callers, None,
  Costs,                   \* the amounts callers announce
  TaskSoft, TaskHard,      \* api_soft_usd and api_hard_usd of every task
  DailySoft, DailyHard,    \* budgets.daily
  MonthlyHard,             \* budgets.global.monthly_api_hard_usd
  DaysPerMonth,
  LastDay                  \* bound: days that pass

ASSUME NoneIsNoId == None \notin Tasks \cup Approvals
ASSUME TablesAreFinite ==
  /\ IsFiniteSet(Tasks) /\ IsFiniteSet(Approvals)
  /\ IsFiniteSet(Callers) /\ Callers # {}
ASSUME AmountsAreNaturals ==
  /\ Costs \subseteq Nat /\ Costs # {} /\ IsFiniteSet(Costs)
  /\ {TaskSoft, TaskHard, DailySoft, DailyHard, MonthlyHard} \subseteq Nat
ASSUME CalendarIsNatural == {DaysPerMonth, LastDay} \subseteq Nat \ {0}

Days == 1..LastDay

VARIABLES
  status,     \* tasks.status
  spent,      \* cost_events: the sum of estimated_usd by task and day
  approvals,  \* table approvals: [task, cost, status]
  warned,     \* the tasks with an API_BUDGET_WARNING event
  today,      \* the clock
  call        \* what each caller has read and is about to do

vars == <<status, spent, approvals, warned, today, call>>

ApprovalStatus == {"PENDING", "APPROVED", "DENIED"}

(* A call of authorize and what follows it; day is the "now" it works with. *)
Call == [pc : {"idle", "task", "daily", "monthly", "decide", "blocked", "paying"},
         task : Tasks \cup {None},
         cost : Costs \cup {0},
         day : Days,
         status : StatusOrAbsent,
         taskSpend : Nat, dailySpend : Nat, monthlySpend : Nat,
         approval : Approvals \cup {None}]

Idle == [pc |-> "idle", task |-> None, cost |-> 0, day |-> 1, status |-> Absent,
         taskSpend |-> 0, dailySpend |-> 0, monthlySpend |-> 0,
         approval |-> None]

Init ==
  /\ status = [t \in Tasks |-> "RUNNING"]
  /\ spent = [x \in Tasks \X Days |-> 0]
  /\ approvals = [p \in Approvals |->
                    [task |-> None, cost |-> 0, status |-> "PENDING"]]
  /\ warned = {}
  /\ today = 1
  /\ call = [c \in Callers |-> Idle]

-----------------------------------------------------------------------------
Month(d) == (d - 1) \div DaysPerMonth

(* sum_estimated over a task, or over the days of a window. *)
SumOfTask(t) == SumFunctionOnSet(spent, {t} \X Days)
SumOfDays(window) == SumFunctionOnSet(spent, Tasks \X window)

DayWindow(d) == {d}
MonthWindow(d) == {e \in Days : Month(e) = Month(d)}

(* Mutant: the monthly limit is not among the hard scopes. *)
HardScopesWithoutMonth(r) ==
  {s \in {"task", "daily"} :
     \/ s = "task" /\ r.taskSpend + r.cost > TaskHard
     \/ s = "daily" /\ r.dailySpend + r.cost > DailyHard}

HardScopes(r) ==
  {s \in {"task", "daily", "global_monthly"} :
     \/ s = "task" /\ r.taskSpend + r.cost > TaskHard
     \/ s = "daily" /\ r.dailySpend + r.cost > DailyHard
     \/ s = "global_monthly" /\ r.monthlySpend + r.cost > MonthlyHard}

(* Mutant: the task is compared with what it has spent, not with what it   *)
(* is about to have spent.                                                 *)
WarningScopesInArrears(r) ==
  {s \in {"task", "daily"} :
     \/ s = "task" /\ r.taskSpend > TaskSoft
     \/ s = "daily" /\ r.dailySpend > DailySoft}

WarningScopes(r) ==
  {s \in {"task", "daily"} :
     \/ s = "task" /\ r.taskSpend + r.cost > TaskSoft
     \/ s = "daily" /\ r.dailySpend + r.cost > DailySoft}

(* What is left of a call when authorize has returned. *)
Going(pc, r, p) ==
  [Idle EXCEPT !.pc = pc, !.task = r.task, !.cost = r.cost, !.approval = p]

Become(c, request) == call' = [call EXCEPT ![c] = request]

-----------------------------------------------------------------------------
(* authorize: the task and the clock. *)
Authorize(c, t, cost) ==
  /\ call[c].pc = "idle"
  /\ Become(c, [Idle EXCEPT !.pc = "task", !.task = t, !.cost = cost,
                            !.day = today, !.status = status[t]])
  /\ UNCHANGED <<status, spent, approvals, warned, today>>

ReadTaskSpend(c) ==
  /\ call[c].pc = "task"
  /\ Become(c, [call[c] EXCEPT !.pc = "daily",
                               !.taskSpend = SumOfTask(call[c].task)])
  /\ UNCHANGED <<status, spent, approvals, warned, today>>

ReadDailySpend(c) ==
  /\ call[c].pc = "daily"
  /\ Become(c, [call[c] EXCEPT !.pc = "monthly",
                               !.dailySpend = SumOfDays(DayWindow(call[c].day))])
  /\ UNCHANGED <<status, spent, approvals, warned, today>>

ReadMonthlySpend(c) ==
  /\ call[c].pc = "monthly"
  /\ Become(c, [call[c] EXCEPT !.pc = "decide",
                               !.monthlySpend = SumOfDays(MonthWindow(call[c].day))])
  /\ UNCHANGED <<status, spent, approvals, warned, today>>

(* No hard scope: the decision is logged, with a warning or without.  The  *)
(* status of the task does not matter.                                     *)
Allow(c) ==
  /\ call[c].pc = "decide"
  /\ HardScopes(call[c]) = {}
  /\ warned' = IF WarningScopes(call[c]) = {} THEN warned
               ELSE warned \cup {call[c].task}
  /\ Become(c, Going("paying", call[c], None))
  /\ UNCHANGED <<status, spent, approvals, today>>

(* A hard scope: request_and_wait, which needs the task to be RUNNING.     *)
Block(c, p) ==
  /\ call[c].pc = "decide"
  /\ HardScopes(call[c]) # {}
  /\ CanMove(call[c].status, "WAITING_APPROVAL")
  /\ status[call[c].task] = "RUNNING"
  /\ approvals[p].task = None
  /\ approvals' = [approvals EXCEPT ![p] =
       [task |-> call[c].task, cost |-> call[c].cost, status |-> "PENDING"]]
  /\ status' = [status EXCEPT ![call[c].task] = "WAITING_APPROVAL"]
  /\ Become(c, Going("blocked", call[c], p))
  /\ UNCHANGED <<spent, warned, today>>

(* BudgetStateError or StateConflictError: the task was not RUNNING when   *)
(* it was read, or is not any more.                                        *)
Refuse(c) ==
  /\ call[c].pc = "decide"
  /\ HardScopes(call[c]) # {}
  /\ \/ ~CanMove(call[c].status, "WAITING_APPROVAL")
     \/ status[call[c].task] # "RUNNING"
  /\ Become(c, Idle)
  /\ UNCHANGED <<status, spent, approvals, warned, today>>

(* record_cost, with the time at which it runs. *)
RecordCost(c, cost) ==
  /\ call[c].pc = "paying"
  /\ cost <= call[c].cost
  /\ spent' = [spent EXCEPT ![<<call[c].task, today>>] = @ + cost]
  /\ Become(c, Idle)
  /\ UNCHANGED <<status, approvals, warned, today>>

(* Mutant: the verdict itself is written as the status of the task. *)
DecideCopyingVerdict(p, verdict) ==
  /\ approvals[p].task # None
  /\ approvals[p].status = "PENDING"
  /\ approvals' = [approvals EXCEPT ![p].status = verdict]
  /\ status' = [status EXCEPT ![approvals[p].task] = verdict]
  /\ UNCHANGED <<spent, warned, today, call>>

(* ApprovalRepository.decide (TaskService splits it at its first write). *)
Decide(p, verdict) ==
  /\ approvals[p].task # None
  /\ approvals[p].status = "PENDING"
  /\ approvals' = [approvals EXCEPT ![p].status = verdict]
  /\ status' = [status EXCEPT ![approvals[p].task] =
       IF @ # "WAITING_APPROVAL" THEN @
       ELSE IF verdict = "APPROVED" THEN "RUNNING" ELSE "FAILED"]
  /\ UNCHANGED <<spent, warned, today, call>>

-----------------------------------------------------------------------------
(* The caller of the engine, and what goes on around it. *)

(* A blocked call goes on when its approval was granted. *)
GoAhead(c) ==
  /\ call[c].pc = "blocked"
  /\ approvals[call[c].approval].status = "APPROVED"
  /\ Become(c, Going("paying", call[c], None))
  /\ UNCHANGED <<status, spent, approvals, warned, today>>

(* The call is given up or fails without a cost. *)
GiveUp(c) ==
  /\ call[c].pc \in {"blocked", "paying"}
  /\ Become(c, Idle)
  /\ UNCHANGED <<status, spent, approvals, warned, today>>

(* The run of the task ends; how it ends makes no difference here. *)
EndTask(t) ==
  /\ status[t] = "RUNNING"
  /\ status' = [status EXCEPT ![t] = "COMPLETED"]
  /\ UNCHANGED <<spent, approvals, warned, today, call>>

Midnight ==
  /\ today < LastDay
  /\ today' = today + 1
  /\ UNCHANGED <<status, spent, approvals, warned, call>>

CallerStep(c) ==
  \/ \E t \in Tasks, cost \in Costs : Authorize(c, t, cost)
  \/ ReadTaskSpend(c) \/ ReadDailySpend(c) \/ ReadMonthlySpend(c)
  \/ Allow(c) \/ Refuse(c)
  \/ \E p \in Approvals : Block(c, p)
  \/ \E cost \in Costs : RecordCost(c, cost)
  \/ GoAhead(c) \/ GiveUp(c)

Next ==
  \/ \E c \in Callers : CallerStep(c)
  \/ \E p \in Approvals, verdict \in {"APPROVED", "DENIED"} : Decide(p, verdict)
  \/ \E t \in Tasks : EndTask(t)
  \/ Midnight

Spec == Init /\ [][Next]_vars

-----------------------------------------------------------------------------
(* Every row and every call has the shape its table or method gives. *)
TypeOK ==
  /\ status \in [Tasks -> Status]
  /\ spent \in [Tasks \X Days -> Nat]
  /\ approvals \in [Approvals -> [task : Tasks \cup {None}, cost : Costs \cup {0},
                                  status : ApprovalStatus]]
  /\ warned \subseteq Tasks
  /\ today \in Days
  /\ call \in [Callers -> Call]

(* What was approved, in all, for a set of tasks. *)
Approved(ts) ==
  SumFunctionOnSet([p \in Approvals |-> approvals[p].cost],
    {p \in Approvals : approvals[p].task \in ts
                       /\ approvals[p].status = "APPROVED"})

MaxCost == CHOOSE m \in Costs : \A n \in Costs : n <= m

(* What callers that read before the others recorded can add. *)
Slack == (Cardinality(Callers) - 1) * MaxCost

(* The cost of a task, a day and a month exceeds its hard limit by no more *)
(* than what was approved and one call of each other caller: the check of  *)
(* authorize and the record of the cost are far apart, yet the overrun     *)
(* does not grow with the number of calls.  A single caller never exceeds  *)
(* a limit.                                                                *)
OverspendIsBounded ==
  /\ \A t \in Tasks : SumOfTask(t) <= TaskHard + Approved({t}) + Slack
  /\ \A d \in Days :
       /\ SumOfDays(DayWindow(d)) <= DailyHard + Approved(Tasks) + Slack
       /\ SumOfDays(MonthWindow(d)) <= MonthlyHard + Approved(Tasks) + Slack

(* A task that has overrun its soft limit by more than that has a warning  *)
(* in its audit trail, whichever calls raced.                              *)
OverrunWasWarned ==
  \A t \in Tasks :
    SumOfTask(t) > TaskSoft + Approved({t}) + Slack => t \in warned

=============================================================================
