SPECIFICATION Spec
CONSTANTS
  Tasks = {t1}
  Attempts = {a1, a2}
  Approvals = {p1, p2}
  Callers = {c1, c2}
  Targets = {"QUEUED", "ASSIGNED", "RUNNING", "COMPLETED"}
  None = None
  MaxGeneration = 2
  MaxEvents = 12
SYMMETRY Symmetry
INVARIANTS GenerationsAreDense AuditTrailReplays WaitingHasPendingApproval
PROPERTIES StaleAttemptsAreFrozen FinalStatusIsKept ImplementsLifecycle
CHECK_DEADLOCK FALSE
