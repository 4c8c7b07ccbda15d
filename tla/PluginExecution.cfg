SPECIFICATION FairSpec
CONSTANTS
  Calls = {c1, c2, c3}
  MaxOutputs = 2
INVARIANTS PluginRunsOnce CompletionIsBacked
PROPERTIES FailureOnRecordIsFinal AnswerEndsTheTask
CHECK_DEADLOCK FALSE
