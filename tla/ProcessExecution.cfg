SPECIFICATION FairSpec
CONSTANTS
  Pausers = {p1, p2}
  LateOutputs = {"HANDOFF", "BROKEN", "COMPLETED"}
  MaxHandoffs = 2
  MaxCrashes = 1
  MaxUnconfirmed = 1
INVARIANTS TypeOK PausedIsResumable FinishedTogether NewestHandoffIsKept
  NoPluginOutlivesItsRun NoChannelOutlivesItsRun
PROPERTIES PauseIsNotOverwritten CompletionIsEarned EveryRunEnds EveryPauseEnds
CHECK_DEADLOCK FALSE
