SPECIFICATION Spec
CONSTANTS
  Tasks = {t1}
  Attempts = {a1}
  Approvals = {p1}
  Callers = {c1, c2}
  Targets = {"QUEUED", "ASSIGNED", "RUNNING", "FAILED"}
  None = None
  MaxGeneration = 1
  MaxEvents = 9
INVARIANTS DecidedOnce
CHECK_DEADLOCK FALSE
