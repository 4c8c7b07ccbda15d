SPECIFICATION FairSpec
CONSTANTS
  Bridges = {b1, b2}
  Channels = {c1}
  Nobody = nobody
INVARIANTS AnswerIsForItsAsker ChannelIsCalledOnce ResponseIsBooked
  CompletionIsBooked
PROPERTIES MovedTaskIsNotBooked EveryBridgeEnds
CHECK_DEADLOCK FALSE
