SPECIFICATION Spec
CONSTANTS
  Pausers = {p1}
  LateOutputs = {"HANDOFF", "BROKEN", "COMPLETED", "FAILED"}
  MaxHandoffs = 1
  MaxCrashes = 0
  MaxUnconfirmed = 1
PROPERTIES PauseIsNotOverwritten
CHECK_DEADLOCK FALSE
