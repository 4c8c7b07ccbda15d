SPECIFICATION Spec
CONSTANTS
  Pausers = {p1}
  LateOutputs = {"HANDOFF", "BROKEN", "COMPLETED"}
  MaxHandoffs = 1
  MaxCrashes = 1
  MaxUnconfirmed = 1
INVARIANTS InterruptedTaskIsRecoverable
CHECK_DEADLOCK FALSE
