SPECIFICATION Spec
CONSTANTS
  Tasks = {t1, t2}
  Approvals = {p1}
  Callers = {c1, c2}
  None = None
  Costs = {1}
  TaskSoft = 1
  TaskHard = 2
  DailySoft = 2
  DailyHard = 2
  MonthlyHard = 3
  DaysPerMonth = 2
  LastDay = 2
SYMMETRY Symmetry
INVARIANTS TypeOK OverspendIsBounded OverrunWasWarned
CHECK_DEADLOCK FALSE
